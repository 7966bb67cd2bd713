--------------------------- MODULE SessionsProofs ---------------------------
(***************************************************************************)
(* Proofs about Sessions: the shape of the state, one writer to a session, *)
(* names that follow their sessions, tenants kept apart, and input that    *)
(* does not meet the scrolling before it.                                  *)
(***************************************************************************)
EXTENDS Sessions, WellFoundedInduction, TLAPS

-----------------------------------------------------------------------------
(* The inductive invariant *)

\* A tenant claims, and is on, names of its own name space only, the owner
\* those of nobody too; who has a session in a name space has claimed it.
SpaceOf(u) == {n \in Names : n[1] = u \/ (u = Owner /\ n[1] = None)}
Claimed(m, o) ==
    tenants => \A u \in Users :
                  /\ o[u] \subseteq SpaceOf(u)
                  /\ \A n \in Names : (n[1] = u /\ m[n] # 0) => n \in o[u]
NamesOK(m, o, b) ==
    /\ b \in 0..MaxBorn /\ m \in [Names -> 0..b] /\ Injective(m)
    /\ o \in [Users -> SUBSET Names]
    /\ Claimed(m, o)

LocksOK == /\ made \in Nat /\ locks \in [Names -> 0..made] /\ Injective(locks)
           /\ holder \in Seq(Conns \cup {None}) /\ Len(holder) = made
QueuesOK == /\ queues \in Seq(QueueType)
            /\ scroll \in [Names -> 0..Len(queues)] /\ Injective(scroll)
RestOK == /\ tenants \in BOOLEAN /\ live \in [Names -> SUBSET Conns]
          /\ conn \in [Conns -> ConnType] /\ mistaken \subseteq 1..born
          /\ commands \in 0..MaxCommands /\ spent \in 0..MaxEvents

\* Where a connection stands says which names, locks and sessions it knows.
Knows(c) ==
    LET s == conn[c] IN
    /\ s.at # "closed" => s.lock # 0
    /\ s.at \in HasBridge => s.name \in Names
    /\ s.at \in HasBridge \ {"opening"} => s.attached # 0 /\ s.pane # 0
    /\ s.at = "closing" => s.target \in Names /\ (tenants => ~s.later)
    /\ s.at = "renaming" => /\ ~tenants /\ s.wants # 0
                            /\ s.victim \in Names /\ s.target \in Names
    /\ s.at \in {"waiting", "writing"} => s.wants # 0

\* Where a pane is looked up: in its own session, or in one the look-up mistook.
Meant(c, p) == p = conn[c].attached \/ p \in mistaken
Follows(c) ==
    /\ \A n \in Names :
          c \in live[n] <=> (conn[c].at \in HasBridge /\ n = conn[c].name)
    /\ conn[c].at \in HasBridge => conn[c].session = conn[c].name
    /\ (conn[c].at \in HasBridge /\ Certain(conn[c].attached)) =>
          /\ tmux[conn[c].name] = conn[c].attached
          /\ conn[c].at # "opening" => Meant(c, conn[c].pane)

\* The lock of a bridge is the one kept under the name of its session, and a
\* writer has it and writes to where its pane was when it began.
Locked(c) ==
    /\ (conn[c].at \in HasBridge /\ Certain(conn[c].attached)) =>
          /\ conn[c].lock = locks[conn[c].name]
          /\ conn[c].at \in {"waiting", "writing"} => conn[c].wants = conn[c].lock
          /\ conn[c].at = "writing" => Meant(c, conn[c].into)
    /\ conn[c].at = "writing" => holder[conn[c].wants] = c

Spaced(c) ==
    tenants =>
       /\ conn[c].at \in HasBridge => conn[c].name \in SpaceOf(UserOf[c])
       /\ conn[c].at = "closing" => conn[c].target \in SpaceOf(UserOf[c])

GoodConn(c) == Knows(c) /\ Follows(c) /\ Locked(c) /\ Spaced(c)

\* Whoever met a call that is in flight waits for the drain task that made it.
Met ==
    \A i \in DOMAIN queues, c \in Conns :
       (queues[i].at = "calling" /\ c \in queues[i].marks) =>
          /\ conn[c].at = "settling" /\ conn[c].queue = i
          /\ conn[c].task = queues[i].task

IInv == /\ NamesOK(tmux, owned, born) /\ LocksOK /\ QueuesOK /\ RestOK
        /\ \A c \in Conns : GoodConn(c)
        /\ Met

-----------------------------------------------------------------------------
(* Names *)

LEMMA Constants0 ==
    /\ MaxBorn \in Nat /\ MaxCommands \in Nat /\ MaxEvents \in Nat
    /\ NoName \notin Names /\ Numbers \subseteq Nat
    /\ \A c \in Conns : UserOf[c] \in Users
    /\ None \notin Conns /\ None \notin Users
    /\ DefaultSession \in Names
    /\ Longer \in [Names -> SUBSET Names] /\ Kept \in [Names -> Names]
    /\ Typed \subseteq Names
BY NumberAssumption, UserAssumption, NameAssumption DEF NoName, Names, DefaultSession

\* What tmux finds under a name: the session of that name, if there is one, and
\* in any case one that some name stands for, or none.
LEMMA FoundIs ==
    ASSUME NEW K \in Nat, NEW m \in [Names -> 0..K], NEW n \in Names
    PROVE  /\ Found(n, m) \in 0..K
           /\ m[n] # 0 => Found(n, m) = m[n]
           /\ Found(n, m) # 0 => \E k \in Names : m[k] = Found(n, m)
<1> DEFINE others == {k \in Longer[n] : m[k] # 0}
           one == CHOOSE k \in others : TRUE
<1>1. others \subseteq Names
  BY Constants0
<1>2. /\ m[n] # 0 => Found(n, m) = m[n]
      /\ m[n] = 0 => Found(n, m) = 0
                        \/ (others # {} /\ Found(n, m) = m[one])
  BY DEF Found
<1> HIDE DEF others
<1>3. others # {} => one \in others
  OBVIOUS
<1> HIDE DEF one
<1>4. others # {} => one \in Names
  BY <1>1, <1>3
<1> QED
  BY <1>2, <1>4

\* So do the panes.
LEMMA PanesAre ==
    ASSUME NEW K \in Nat, NEW m \in [Names -> 0..K], NEW n \in Names,
           NEW p \in Panes(n, m)
    PROVE  p \in 1..K
<1>1. p # 0 /\ (p = Found(n, m) \/ \E k \in Names : p = m[k])
  BY DEF Panes
<1>2. p \in 0..K
  BY <1>1, FoundIs
<1> QED
  BY <1>1, <1>2

LEMMA LeastNumber ==
    ASSUME NEW N \in SUBSET Nat, N # {}
    PROVE  \E m \in N : \A k \in N : m <= k
<1> DEFINE Less == {ss \in Nat \X Nat : ss[1] < ss[2]}
<1>1. IsWellFoundedOn(Less, Nat)
  BY NatLessThanWellFounded DEF OpToRel
<1>2. ASSUME NEW x \in Nat, NEW y \in Nat, <<y, x>> \notin Less PROVE x <= y
  BY <1>2
<1>3. PICK x \in N : \A y \in N : <<y, x>> \notin Less
  <2> HIDE DEF Less
  <2> QED
    BY <1>1, WFMin
<1> HIDE DEF Less
<1> QED
  BY <1>2, <1>3

\* The next name is free, and of the name space of its user.
LEMMA NextNameFree ==
    ASSUME NEW u \in Users, NEW m, NextName(u, m) # NoName
    PROVE  /\ NextName(u, m) \in Names /\ m[NextName(u, m)] = 0 /\ born # MaxBorn
           /\ NextName(u, m)[1] = IF tenants THEN u ELSE None
<1> DEFINE space == IF tenants THEN u ELSE None
           free == {i \in Numbers : m[<<space, i>>] = 0}
           least == CHOOSE i \in free : \A j \in free : i <= j
<1>1. free # {} /\ born # MaxBorn /\ NextName(u, m) = <<space, least>>
  BY DEF NextName
<1>2. free \in SUBSET Nat
  BY Constants0
<1> HIDE DEF free
<1>3. \E i \in free : \A j \in free : i <= j
  BY <1>1, <1>2, LeastNumber
<1>4. least \in free
  BY <1>3
<1> HIDE DEF least
<1> QED
  BY <1>1, <1>4 DEF free, Names

\* A session is born under a free name.
LEMMA BirthKeepsNames ==
    ASSUME NEW m, NEW o, NamesOK(m, o, born), NEW n \in Names, m[n] = 0,
           born < MaxBorn, Birth(n, m), NEW p \in [Users -> SUBSET Names],
           tenants => /\ \A v \in Users : /\ o[v] \subseteq p[v]
                                          /\ p[v] \subseteq SpaceOf(v)
                                          /\ n[1] = v => n \in p[v]
    PROVE  /\ NamesOK(tmux', p, born') /\ born' = born + 1
           /\ tmux'[n] = born + 1 /\ \A k \in Names \ {n} : tmux'[k] = m[k]
<1>1. /\ born \in 0..MaxBorn /\ m \in [Names -> 0..born] /\ Injective(m)
      /\ Claimed(m, o) /\ MaxBorn \in Nat
  BY Constants0 DEF NamesOK
<1>2. /\ born' = born + 1 /\ born' \in 0..MaxBorn /\ 0..born \subseteq 0..born'
      /\ born + 1 \in 0..born' /\ born + 1 \notin 0..born
      /\ tmux' = [m EXCEPT ![n] = born + 1]
  BY <1>1 DEF Birth
<1>3. tmux' \in [Names -> 0..born']
  BY <1>1, <1>2
<1>4. tmux'[n] = born + 1 /\ \A k \in Names \ {n} : tmux'[k] = m[k]
  BY <1>1, <1>2
<1>5. Injective(tmux')
  BY <1>1, <1>2, <1>4 DEF Injective
<1>6. Claimed(tmux', p)
  BY <1>1, <1>4 DEF Claimed
<1> QED
  BY <1>2, <1>3, <1>4, <1>5, <1>6 DEF NamesOK

\* A session a user creates.
LEMMA CreatedKeepsNames ==
    ASSUME NEW m, NEW o, NamesOK(m, o, born), NEW u \in Users, NEW n,
           n = NextName(u, m), CreateUserSession(u, n, m, o)
    PROVE  /\ NamesOK(tmux', owned', born') /\ born' = born + 1
           /\ n \in Names /\ m[n] = 0 /\ (tenants => n \in SpaceOf(u))
           /\ tmux'[n] = born + 1 /\ \A k \in Names \ {n} : tmux'[k] = m[k]
<1>1. /\ n \in Names /\ m[n] = 0 /\ born # MaxBorn /\ Birth(n, m)
      /\ n[1] = IF tenants THEN u ELSE None
      /\ owned' = IF tenants THEN [o EXCEPT ![u] = @ \cup {n}] ELSE o
  BY NextNameFree DEF CreateUserSession, Claim
<1>2. born < MaxBorn
  BY <1>1, Constants0 DEF NamesOK
<1>3. owned' \in [Users -> SUBSET Names]
  BY <1>1 DEF NamesOK
<1>4. tenants => \A v \in Users : /\ o[v] \subseteq owned'[v]
                                  /\ owned'[v] \subseteq SpaceOf(v)
                                  /\ n[1] = v => n \in owned'[v]
  BY <1>1 DEF NamesOK, Claimed, SpaceOf
<1>5. tenants => n \in SpaceOf(u)
  BY <1>1 DEF SpaceOf
<1> QED
  BY <1>1, <1>2, <1>3, <1>4, <1>5, BirthKeepsNames

\* What is visible to a tenant is in its name space.
LEMMA VisibleIsOwn ==
    ASSUME NEW m, NEW o, NamesOK(m, o, born), NEW u \in Users
    PROVE  /\ VisibleNames(u, m, o) \subseteq Standing(m)
           /\ tenants => VisibleNames(u, m, o) \subseteq SpaceOf(u)
           /\ \A n \in SpaceOf(u) : tenants /\ m[n] # 0 => n \in VisibleNames(u, m, o)
<1>1. Claimed(m, o)
  BY DEF NamesOK
<1>2. VisibleNames(u, m, o) \subseteq Standing(m)
  BY DEF VisibleNames
<1>3. ASSUME tenants, NEW n \in VisibleNames(u, m, o) PROVE n \in SpaceOf(u)
  <2>1. n \in Names /\ m[n] # 0
    BY <1>2 DEF Standing
  <2>2. CASE u # Owner
    BY <1>1, <1>3, <2>2 DEF Claimed, VisibleNames
  <2>3. CASE u = Owner
    <3>1. \A v \in Users \ {u} : n \notin o[v]
      BY <1>3, <2>3 DEF VisibleNames, ClaimedByOthers
    <3>2. n[1] \in Users => n[1] = u
      BY <1>1, <1>3, <2>1, <3>1 DEF Claimed
    <3> QED
      BY <2>1, <2>3, <3>2 DEF SpaceOf, Names
  <2> QED
    BY <2>2, <2>3
<1>4. ASSUME tenants, NEW n \in SpaceOf(u), m[n] # 0
      PROVE  n \in VisibleNames(u, m, o)
  <2>1. n \in Standing(m) /\ n \in Names
    BY <1>4 DEF SpaceOf, Standing
  <2>2. CASE u # Owner
    BY <1>1, <1>4, <2>1, <2>2 DEF Claimed, VisibleNames, SpaceOf
  <2>3. CASE u = Owner
    <3>1. \A v \in Users \ {u} : n \notin SpaceOf(v)
      BY <2>3, <1>4, Constants0 DEF SpaceOf
    <3> QED
      BY <1>1, <1>4, <2>1, <2>3, <3>1 DEF Claimed, VisibleNames, ClaimedByOthers
  <2> QED
    BY <2>2, <2>3
<1> QED
  BY <1>2, <1>3, <1>4

\* What a request comes to is a name the user may be on: one a session is found
\* by, or the next one free.
LEMMA ResolvedIsOwn ==
    ASSUME NEW m, NEW o, NamesOK(m, o, born), NEW u \in Users, NEW requested,
           NEW r \in Resolved(u, requested, m, o), r.name # NoName
    PROVE  /\ r.name \in Names /\ r.now \in BOOLEAN /\ r.later \in BOOLEAN
           /\ tenants => r.name \in SpaceOf(u) /\ ~r.later
           /\ (r.now \/ r.later) => /\ r.name = NextName(u, m) /\ m[r.name] = 0
                                    /\ born # MaxBorn
           /\ r.now => ~r.later
<1>1. CASE \E n \in Names : r = There(n) /\ (tenants => n \in SpaceOf(u))
  BY <1>1 DEF There
<1>2. CASE r = [name |-> NextName(u, m), now |-> TRUE, later |-> FALSE]
  <2>1. tenants => r.name \in SpaceOf(u)
    BY <1>2, NextNameFree DEF SpaceOf
  <2> QED
    BY <1>2, <2>1, NextNameFree
<1>3. CASE r = [name |-> NextName(u, m), now |-> FALSE, later |-> TRUE] /\ ~tenants
  BY <1>3, NextNameFree
<1>4. /\ tenants => VisibleNames(u, m, o) \subseteq SpaceOf(u)
      /\ tenants => o[u] \subseteq SpaceOf(u)
      /\ SpaceOf(u) \subseteq Names /\ Reached(m) \subseteq Names
      /\ Standing(m) \subseteq Names
  BY VisibleIsOwn DEF NamesOK, Claimed, SpaceOf, Reached, Standing
<1>5. CASE tenants
  <2>1. \/ r = There(requested) /\ requested \in VisibleNames(u, m, o)
        \/ \E n \in o[u] \cap Reached(m) : r = There(n)
        \/ r = [name |-> NextName(u, m), now |-> TRUE, later |-> FALSE]
    BY <1>5 DEF Resolved
  <2> QED
    BY <1>1, <1>2, <1>4, <1>5, <2>1
<1>6. CASE ~tenants
  <2>1. \/ r = There(requested) /\ requested \in Reached(m)
        \/ r = There(DefaultSession)
        \/ \E n \in Standing(m) : r = There(n)
        \/ r = [name |-> NextName(u, m), now |-> FALSE, later |-> TRUE]
    BY <1>6 DEF Resolved
  <2> QED
    BY <1>1, <1>3, <1>4, <1>6, <2>1, Constants0
<1> QED
  BY <1>5, <1>6

\* Sessions end, that of one name at least, and who ended it may give up the name.
LEMMA EndKeepsNames ==
    ASSUME NEW m, NEW n, NamesOK(m, owned, born),
           NEW f \in [Names -> 0..born],
           \A k \in Names : f[k] = m[k] \/ f[k] = 0,
           n \in Names => f[n] = 0
    PROVE  /\ NamesOK(f, owned, born)
           /\ \A u \in Users : NamesOK(f, Released(u, n), born)
<1>1. Injective(f)
  BY DEF NamesOK, Injective
<1>2. \A u \in Users : Released(u, n) \in [Users -> SUBSET Names]
  BY DEF NamesOK, Released
<1>3. \A u \in Users : Claimed(f, Released(u, n))
  BY DEF NamesOK, Claimed, Released
<1>4. Claimed(f, owned)
  BY DEF NamesOK, Claimed
<1> QED
  BY <1>1, <1>2, <1>3, <1>4 DEF NamesOK

\* Whatever session is killed by a name, none stands under it afterwards.
LEMMA KilledIs ==
    ASSUME NEW m \in [Names -> 0..born], NEW n, born \in Nat
    PROVE  /\ Killed(n, m) \in [Names -> 0..born]
           /\ \A k \in Names : Killed(n, m)[k] = m[k] \/ Killed(n, m)[k] = 0
           /\ n \in Names => Killed(n, m)[n] = 0
<1>1. \A k \in Names : Killed(n, m)[k] = IF m[k] = Found(n, m) THEN 0 ELSE m[k]
  BY DEF Killed
<1>2. n \in Names /\ m[n] # 0 => Found(n, m) = m[n]
  BY DEF Found
<1> QED
  BY <1>1, <1>2 DEF Killed

-----------------------------------------------------------------------------
(* What a step does to the connections that do not take it *)

\* Sessions end and are born, but none changes its name, unless it was mistaken.
TmuxStep ==
    \A n \in Names : \/ tmux'[n] = tmux[n] \/ tmux'[n] = 0 \/ tmux'[n] > born
                      \/ tmux'[n] \in mistaken'
\* The lock of a session that goes on is not exchanged.
LocksStep == \A n \in Names : (tmux'[n] # 0 /\ tmux'[n] = tmux[n] /\ locks[n] # 0)
                                 => locks'[n] = locks[n]
MistakenGrows == mistaken \subseteq mistaken' /\ mistaken' \subseteq 1..born'
Grows == /\ tenants' = tenants /\ born \in 0..born' /\ made \in 0..made'
         /\ Len(queues) \in 0..Len(queues')
         /\ MistakenGrows

LEMMA TypesGrow ==
    ASSUME NEW s \in ConnType, Grows, born' \in Nat, made' \in Nat, Len(queues') \in Nat
    PROVE  s \in ConnType'
<1>1. 0..born \subseteq 0..born' /\ 0..made \subseteq 0..made'
      /\ 0..Len(queues) \subseteq 0..Len(queues')
  BY DEF Grows
<1> QED
  BY <1>1 DEF ConnType

\* A session that lives on, and that nothing mistook, has the name and the lock
\* it had.
LEMMA StillThere ==
    ASSUME IInv, TmuxStep, LocksStep, Grows, NEW d \in Conns,
           conn[d].at \in HasBridge, Certain(conn[d].attached)',
           conn'[d].attached = conn[d].attached
    PROVE  /\ Certain(conn[d].attached)
           /\ tmux[conn[d].name] = conn[d].attached
           /\ tmux'[conn[d].name] = conn[d].attached
           /\ locks[conn[d].name] = conn[d].lock
           /\ locks'[conn[d].name] = conn[d].lock
<1>1. /\ GoodConn(d) /\ conn[d] \in ConnType /\ conn[d].name \in Names
      /\ born \in Nat /\ tmux \in [Names -> 0..born] /\ Injective(tmux)
      /\ made \in Nat /\ locks \in [Names -> 0..made]
  BY DEF IInv, RestOK, GoodConn, Knows, NamesOK, LocksOK
<1>2. PICK n \in Names : tmux'[n] = conn[d].attached
  BY DEF Certain, Alive
<1>3. /\ conn[d].attached \in 0..born /\ conn[d].attached # 0
      /\ conn[d].attached \notin mistaken' /\ conn[d].attached \notin mistaken
  BY <1>1 DEF ConnType, Certain, Alive, Grows, MistakenGrows
<1>4. tmux[n] = conn[d].attached
  BY <1>1, <1>2, <1>3 DEF TmuxStep
<1>5. Certain(conn[d].attached)
  BY <1>3, <1>4 DEF Certain, Alive
<1>6. tmux[conn[d].name] = conn[d].attached
  BY <1>1, <1>5 DEF GoodConn, Follows
<1>7. n = conn[d].name
  BY <1>1, <1>3, <1>4, <1>6 DEF Injective
<1>8. conn[d].lock = locks[conn[d].name] /\ conn[d].lock # 0
  BY <1>1, <1>5 DEF GoodConn, Locked, Knows, HasBridge
<1>9. locks'[n] = locks[n]
  BY <1>2, <1>3, <1>4, <1>7, <1>8 DEF LocksStep
<1> QED
  BY <1>2, <1>5, <1>6, <1>7, <1>8, <1>9

\* A connection with a bridge, that keeps it.
SameBridge(d) ==
    /\ conn[d].at \in HasBridge <=> conn'[d].at \in HasBridge
    /\ conn[d].at = "opening" <=> conn'[d].at = "opening"
    /\ conn'[d].session = conn[d].session /\ conn'[d].name = conn[d].name
    /\ conn'[d].attached = conn[d].attached /\ conn'[d].pane = conn[d].pane
    /\ conn'[d].lock = conn[d].lock

LEMMA BridgeKept ==
    ASSUME IInv, TmuxStep, LocksStep, Grows, NEW d \in Conns, SameBridge(d),
           \A n \in Names : d \in live'[n] <=> d \in live[n],
           conn'[d].at \in {"waiting", "writing"} =>
              \/ conn'[d].wants = conn[d].lock
              \/ conn[d].at \in {"waiting", "writing"} /\ conn'[d].wants = conn[d].wants,
           conn'[d].at = "writing" =>
              /\ holder'[conn'[d].wants] = d
              /\ conn'[d].into = IF conn[d].at = "writing" THEN conn[d].into
                                 ELSE conn[d].pane,
           Knows(d)', conn'[d].at = "closing" => conn[d].at = "closing"
                                                 /\ conn'[d].target = conn[d].target
    PROVE  GoodConn(d)'
<1>1. GoodConn(d)
  BY DEF IInv
<1>2. Follows(d)'
  <2>1. \A n \in Names :
          d \in live'[n] <=> (conn'[d].at \in HasBridge /\ n = conn'[d].name)
    BY <1>1 DEF GoodConn, Follows, SameBridge
  <2>2. conn'[d].at \in HasBridge => conn'[d].session = conn'[d].name
    BY <1>1 DEF GoodConn, Follows, SameBridge
  <2>3. (conn'[d].at \in HasBridge /\ Certain(conn[d].attached)') =>
           /\ tmux'[conn'[d].name] = conn'[d].attached
           /\ conn'[d].at # "opening" => Meant(d, conn[d].pane)'
    <3> HAVE conn'[d].at \in HasBridge /\ Certain(conn[d].attached)'
    <3>1. Certain(conn[d].attached) /\ tmux'[conn[d].name] = conn[d].attached
      BY StillThere DEF SameBridge
    <3>2. conn[d].at # "opening" => Meant(d, conn[d].pane)
      BY <1>1, <3>1 DEF GoodConn, Follows, SameBridge
    <3> QED
      BY <3>1, <3>2 DEF SameBridge, Meant, Grows, MistakenGrows
  <2> QED
    BY <2>1, <2>2, <2>3 DEF Follows
<1>3. Locked(d)'
  <2> SUFFICES ASSUME conn'[d].at \in HasBridge, Certain(conn[d].attached)'
               PROVE  /\ conn'[d].lock = locks'[conn'[d].name]
                      /\ conn'[d].at \in {"waiting", "writing"}
                            => conn'[d].wants = conn'[d].lock
                      /\ conn'[d].at = "writing" => Meant(d, conn[d].into)'
    BY DEF Locked
  <2>1. /\ Certain(conn[d].attached) /\ locks'[conn[d].name] = conn[d].lock
    BY StillThere DEF SameBridge
  <2>2. conn[d].at \in {"waiting", "writing"} => conn[d].wants = conn[d].lock
    BY <1>1, <2>1 DEF GoodConn, Locked, SameBridge
  <2>3. conn'[d].at = "writing" => Meant(d, conn'[d].into)
    <3>1. CASE conn[d].at = "writing"
      BY <1>1, <2>1, <3>1 DEF GoodConn, Locked, SameBridge
    <3>2. CASE conn[d].at # "writing" /\ conn'[d].at = "writing"
      BY <1>1, <2>1, <3>2 DEF GoodConn, Follows, SameBridge
    <3> QED
      BY <3>1, <3>2
  <2> QED
    BY <2>1, <2>2, <2>3 DEF SameBridge, Meant, Grows, MistakenGrows
<1>4. Spaced(d)'
  <2>1. SpaceOf(UserOf[d])' = SpaceOf(UserOf[d])
    BY DEF SpaceOf
  <2> QED
    BY <1>1, <2>1 DEF GoodConn, Spaced, SameBridge, Grows
<1> QED
  BY <1>2, <1>3, <1>4 DEF GoodConn

\* A connection that does not take the step.
LEMMA OtherKept ==
    ASSUME IInv, TmuxStep, LocksStep, Grows, NEW d \in Conns, conn'[d] = conn[d],
           \A n \in Names : d \in live'[n] <=> d \in live[n],
           conn[d].at = "writing" => holder'[conn[d].wants] = d
    PROVE  GoodConn(d)'
<1>1. GoodConn(d)
  BY DEF IInv
<1>2. Knows(d)'
  BY <1>1 DEF GoodConn, Knows, Grows
<1>3. SameBridge(d)
  BY DEF SameBridge
<1> QED
  BY <1>2, <1>3, BridgeKept

\* A step of one connection.
LEMMA OneMoves ==
    ASSUME IInv, NEW c \in Conns, NEW s, s \in ConnType', Becomes(c, s),
           TmuxStep, LocksStep, Grows,
           NamesOK(tmux', owned', born'), LocksOK', QueuesOK',
           live' \in [Names -> SUBSET Conns],
           \A d \in Conns \ {c}, n \in Names : d \in live'[n] <=> d \in live[n],
           \A d \in Conns \ {c} : conn[d].at = "writing" => holder'[conn[d].wants] = d,
           GoodConn(c)', Met',
           commands' = commands \/ Command, spent' = spent \/ Disturb
    PROVE  IInv'
<1>1. NamesOK(tmux, owned, born)'
  BY DEF NamesOK, Claimed, Injective, Grows, SpaceOf
<1>2. conn \in [Conns -> ConnType] /\ conn' = [conn EXCEPT ![c] = s]
  BY DEF IInv, RestOK, Becomes
<1>3. \A d \in Conns : conn[d] \in ConnType'
  <2>1. born' \in Nat /\ made' \in Nat /\ Len(queues') \in Nat
    BY Constants0 DEF NamesOK, LocksOK, QueuesOK
  <2> QED
    BY <1>2, <2>1, TypesGrow
<1>4. conn' \in [Conns -> ConnType']
  BY <1>2, <1>3
<1>5. \A d \in Conns \ {c} : GoodConn(d)'
  <2> SUFFICES ASSUME NEW d \in Conns \ {c} PROVE GoodConn(d)'
    OBVIOUS
  <2>1. conn'[d] = conn[d]
    BY <1>2
  <2> QED
    BY <2>1, OtherKept
<1>6. commands' \in 0..MaxCommands /\ spent' \in 0..MaxEvents
  BY Constants0 DEF IInv, RestOK, Command, Disturb
<1>7. RestOK'
  BY <1>4, <1>6 DEF RestOK, Grows, MistakenGrows, IInv
<1> QED
  BY <1>1, <1>5, <1>7 DEF IInv

\* A step that leaves the sessions, the locks or the queues alone.
LEMMA NamesStay ==
    ASSUME IInv, UNCHANGED names
    PROVE  NamesOK(tmux', owned', born') /\ TmuxStep /\ born \in 0..born'
BY Constants0 DEF IInv, names, TmuxStep, NamesOK

LEMMA MistakenStays ==
    ASSUME IInv, mistaken' = mistaken, born \in 0..born', born' \in Nat
    PROVE  MistakenGrows
<1>1. mistaken \subseteq 1..born
  BY DEF IInv, RestOK
<1> QED
  BY <1>1 DEF MistakenGrows

LEMMA LocksStay ==
    ASSUME IInv, UNCHANGED writing
    PROVE  /\ LocksOK' /\ LocksStep /\ made \in 0..made'
           /\ \A i \in 1..made : holder'[i] = holder[i]
<1>1. LocksOK /\ locks' = locks /\ made' = made /\ holder' = holder
  BY DEF IInv, writing
<1> QED
  BY <1>1 DEF LocksOK, LocksStep, Injective

\* The lock of a name is made when it is asked for first.
LEMMA LockMade ==
    ASSUME IInv, NEW n \in Names, WithLock(n)
    PROVE  /\ LocksOK' /\ LocksStep /\ made \in 0..made'
           /\ \A i \in 1..made : holder'[i] = holder[i]
           /\ LockOf(n) \in 1..made' /\ locks'[n] = LockOf(n)
<1>1. LocksOK
  BY DEF IInv
<1>2. /\ made \in Nat /\ locks \in [Names -> 0..made]
      /\ locks' = [locks EXCEPT ![n] = LockOf(n)]
  BY <1>1 DEF WithLock, LocksOK
<1>3. CASE locks[n] = 0
  <2>1. LockOf(n) = made + 1 /\ made' = made + 1 /\ holder' = Append(holder, None)
    BY <1>3 DEF LockOf, WithLock
  <2>2. holder' \in Seq(Conns \cup {None}) /\ Len(holder') = made'
    BY <1>1, <2>1 DEF LocksOK
  <2>3. \A i \in 1..made : holder'[i] = holder[i]
    BY <1>1, <2>1 DEF LocksOK
  <2>4. locks' \in [Names -> 0..made']
    BY <1>2, <2>1
  <2>5. \A k \in Names : locks'[k] = IF k = n THEN made + 1 ELSE locks[k]
    BY <1>2, <2>1
  <2>6. Injective(locks')
    <3>1. \A k \in Names : locks[k] # made + 1
      BY <1>2
    <3> QED
      BY <1>1, <2>5, <3>1 DEF LocksOK, Injective
  <2>7. Injective(locks)'
    BY <2>6 DEF Injective
  <2> QED
    BY <1>2, <1>3, <2>1, <2>2, <2>3, <2>4, <2>5, <2>7 DEF LocksOK, LocksStep
<1>4. CASE locks[n] # 0
  <2>1. LockOf(n) = locks[n] /\ made' = made /\ holder' = holder
    BY <1>4 DEF LockOf, WithLock
  <2>2. locks' = locks
    BY <1>2, <2>1
  <2> QED
    BY <1>1, <1>2, <1>4, <2>1, <2>2 DEF LocksOK, LocksStep, Injective
<1> QED
  BY <1>3, <1>4

LEMMA QueuesStay ==
    ASSUME IInv, UNCHANGED scrolling, born \in 0..born', born' \in Nat
    PROVE  QueuesOK' /\ Len(queues) \in 0..Len(queues')
<1>1. queues' = queues /\ scroll' = scroll /\ QueuesOK
  BY DEF IInv, scrolling
<1>2. QueueType \subseteq QueueType'
  <2>1. 1..born \subseteq 1..born' /\ 0..born \subseteq 0..born'
    OBVIOUS
  <2> QED
    BY <2>1 DEF QueueType
<1>3. queues' \in Seq(QueueType') /\ Len(queues) \in Nat
  BY <1>1, <1>2 DEF QueuesOK
<1> QED
  BY <1>1, <1>3 DEF QueuesOK, Injective

LEMMA MetStays ==
    ASSUME IInv, queues' = queues, NEW c \in Conns, NEW s, Becomes(c, s),
           conn[c].at = "settling" => /\ s.at = "settling"
                                      /\ s.queue = conn[c].queue /\ s.task = conn[c].task
    PROVE  Met'
<1>1. Met /\ conn' = [conn EXCEPT ![c] = s] /\ conn \in [Conns -> ConnType]
  BY DEF IInv, Becomes, RestOK
<1>2. \A d \in Conns \ {c} : conn'[d] = conn[d]
  BY <1>1
<1> QED
  BY <1>1, <1>2 DEF Met

LEMMA WritersStay ==
    ASSUME IInv, \A i \in 1..made : holder'[i] = holder[i]
    PROVE  \A d \in Conns : conn[d].at = "writing" => holder'[conn[d].wants] = d
<1> SUFFICES ASSUME NEW d \in Conns, conn[d].at = "writing"
             PROVE  holder'[conn[d].wants] = d
  OBVIOUS
<1>1. /\ conn[d].wants # 0 /\ holder[conn[d].wants] = d
      /\ conn[d] \in ConnType /\ made \in Nat
  BY DEF IInv, GoodConn, Knows, Locked, RestOK, LocksOK
<1>2. conn[d].wants \in 1..made
  <2>1. conn[d].wants \in 0..made
    BY <1>1 DEF ConnType
  <2> QED
    BY <1>1, <2>1
<1> QED
  BY <1>1, <1>2

\* A session that is created, by a user or by a bridge that opens.
LEMMA CreatedStep ==
    ASSUME IInv, NEW u \in Users, NEW n, n = NextName(u, tmux),
           CreateUserSession(u, n, tmux, owned)
    PROVE  /\ NamesOK(tmux', owned', born') /\ TmuxStep /\ born \in 0..born'
           /\ n \in Names /\ tmux'[n] = born + 1
           /\ tenants => n \in SpaceOf(u)
<1>1. NamesOK(tmux, owned, born) /\ born \in Nat
  BY Constants0 DEF IInv, NamesOK
<1>2. /\ NamesOK(tmux', owned', born') /\ born' = born + 1
      /\ n \in Names /\ tmux[n] = 0 /\ (tenants => n \in SpaceOf(u))
      /\ tmux'[n] = born + 1 /\ \A k \in Names \ {n} : tmux'[k] = tmux[k]
  BY <1>1, CreatedKeepsNames
<1>3. TmuxStep
  BY <1>1, <1>2 DEF TmuxStep
<1>4. born \in 0..born'
  BY <1>1, <1>2
<1> QED
  BY <1>2, <1>3, <1>4

LEMMA BornStep ==
    ASSUME IInv, NEW n \in Names, tmux[n] = 0, born < MaxBorn, Birth(n, tmux),
           owned' = owned, tenants => n[1] = None
    PROVE  /\ NamesOK(tmux', owned', born') /\ TmuxStep /\ born \in 0..born'
           /\ tmux'[n] = born + 1
<1>1. NamesOK(tmux, owned, born) /\ born \in Nat
  BY Constants0 DEF IInv, NamesOK
<1>2. /\ owned \in [Users -> SUBSET Names]
      /\ tenants => \A v \in Users : /\ owned[v] \subseteq owned[v]
                                     /\ owned[v] \subseteq SpaceOf(v)
                                     /\ n[1] = v => n \in owned[v]
  BY <1>1, Constants0 DEF NamesOK, Claimed
<1>3. /\ NamesOK(tmux', owned, born') /\ born' = born + 1
      /\ tmux'[n] = born + 1 /\ \A k \in Names \ {n} : tmux'[k] = tmux[k]
  BY <1>1, <1>2, BirthKeepsNames
<1> QED
  BY <1>1, <1>3 DEF TmuxStep

-----------------------------------------------------------------------------
(* Every step keeps the invariant *)

\* A bridge starts to open on the session its name stands for after the step, or
\* on one that is mistaken for it.
LEMMA BridgeOpens ==
    ASSUME IInv, NEW c \in Conns, conn[c].at \in {"closed", "closing"},
           NEW n \in Names, NEW new \in BOOLEAN, OpenBridge(c, n, new),
           NamesOK(tmux', owned', born'), TmuxStep, born \in 0..born',
           tmux'[n] = IF new THEN born + 1 ELSE tmux[n],
           tenants => n \in SpaceOf(UserOf[c]),
           tenants' = tenants, UNCHANGED scrolling,
           commands' = commands \/ Command, spent' = spent \/ Disturb
    PROVE  IInv'
<1>1. PICK a : a = IF new THEN born + 1 ELSE Found(n, tmux)
  OBVIOUS
<1>2. PICK s : /\ s = [NewConn EXCEPT !.at = "opening", !.session = n, !.name = n,
                           !.attached = a, !.lock = LockOf(n)]
               /\ Becomes(c, s) /\ WithLock(n) /\ live' = Register(live, n, c)
               /\ mistaken' = IF new THEN mistaken ELSE mistaken \cup Mistaken(n, a)
  BY <1>1 DEF OpenBridge
<1>3. /\ LocksOK' /\ LocksStep /\ made \in 0..made'
      /\ \A i \in 1..made : holder'[i] = holder[i]
      /\ LockOf(n) \in 1..made' /\ locks'[n] = LockOf(n)
  BY <1>2, LockMade
<1>4. /\ born \in Nat /\ born' \in Nat /\ made' \in Nat
      /\ a \in 0..born' /\ MistakenGrows
      /\ a = tmux'[n] \/ a \in mistaken'
  <2>1. /\ born \in Nat /\ born' \in Nat /\ made' \in Nat
        /\ tmux \in [Names -> 0..born] /\ tmux' \in [Names -> 0..born']
        /\ mistaken \subseteq 1..born
    BY <1>3, Constants0 DEF NamesOK, LocksOK, IInv, RestOK
  <2>2. CASE new
    <3>1. a = tmux'[n] /\ mistaken' = mistaken
      BY <1>1, <1>2, <2>2
    <3> QED
      BY <2>1, <3>1 DEF MistakenGrows
  <2>3. CASE ~new
    <3>1. a = Found(n, tmux) /\ mistaken' = mistaken \cup ({a} \ {tmux[n]})
          /\ tmux'[n] = tmux[n]
      BY <1>1, <1>2, <2>3 DEF Mistaken
    <3>2. a \in 0..born /\ (tmux[n] # 0 => a = tmux[n])
      BY <2>1, <3>1, FoundIs
    <3>3. a # tmux[n] => a \in 1..born
      BY <2>1, <3>2
    <3>4. 0..born \subseteq 0..born' /\ 1..born \subseteq 1..born'
      BY <2>1
    <3>5. MistakenGrows /\ (a = tmux'[n] \/ a \in mistaken')
      BY <2>1, <3>1, <3>3, <3>4 DEF MistakenGrows
    <3> QED
      BY <2>1, <3>2, <3>4, <3>5
  <2> QED
    BY <2>1, <2>2, <2>3
<1>5. QueuesOK' /\ Len(queues) \in 0..Len(queues') /\ Len(queues') \in Nat
  BY <1>4, QueuesStay DEF QueuesOK
<1>6. Grows
  BY <1>3, <1>4, <1>5 DEF Grows
<1>7. /\ s.at = "opening" /\ s.session = n /\ s.name = n /\ s.attached = a
      /\ s.lock = LockOf(n) /\ s.later = FALSE
  BY <1>2 DEF NewConn
<1>8. s \in ConnType'
  <2>1. /\ a \in 0..born' /\ 0 \in 0..born' /\ LockOf(n) \in 0..made'
        /\ 0 \in 0..made' /\ 0 \in 0..Len(queues') /\ 0 \in Nat
        /\ FALSE \in BOOLEAN /\ NoName \in Names \cup {NoName}
        /\ n \in Names \cup {NoName} /\ "opening" \in HasBridge
    BY <1>3, <1>4, <1>5 DEF HasBridge
  <2>2. s = [at |-> "opening", session |-> n, name |-> n, attached |-> a,
             pane |-> 0, into |-> 0, lock |-> LockOf(n), wants |-> 0, queue |-> 0, task |-> 0,
             target |-> NoName, later |-> FALSE, victim |-> NoName]
    BY <1>2 DEF NewConn
  <2> QED
    BY <2>1, <2>2 DEF ConnType
<1>9. conn'[c] = s /\ conn \in [Conns -> ConnType] /\ live \in [Names -> SUBSET Conns]
  BY <1>2 DEF IInv, RestOK, Becomes
<1>10. /\ live' \in [Names -> SUBSET Conns]
       /\ \A d \in Conns \ {c}, k \in Names : d \in live'[k] <=> d \in live[k]
       /\ \A k \in Names : c \in live'[k] <=> k = n
  <2>1. \A k \in Names : c \notin live[k]
    BY DEF IInv, GoodConn, Follows, HasBridge
  <2> QED
    BY <1>2, <1>9, <2>1 DEF Register
<1>11. GoodConn(c)'
  <2>1. Knows(c)'
    BY <1>3, <1>7, <1>9 DEF Knows, HasBridge
  <2>2. Follows(c)'
    BY <1>4, <1>7, <1>9, <1>10 DEF Follows, HasBridge, Certain
  <2>3. Locked(c)'
    BY <1>3, <1>7, <1>9 DEF Locked
  <2>4. Spaced(c)'
    BY <1>7, <1>9 DEF Spaced, SpaceOf
  <2> QED
    BY <2>1, <2>2, <2>3, <2>4 DEF GoodConn
<1>12. Met'
  BY <1>2, MetStays DEF scrolling
<1>13. \A d \in Conns : conn[d].at = "writing" => holder'[conn[d].wants] = d
  BY <1>3, WritersStay
<1> QED
  BY <1>2, <1>3, <1>5, <1>6, <1>8, <1>10, <1>11, <1>12, <1>13, OneMoves

LEMMA ConnectKeeps ==
    ASSUME IInv, NEW c \in Conns, Connect(c)
    PROVE  IInv'
<1>1. PICK requested \in Names \cup {NoName} :
         \E r \in Resolved(UserOf[c], requested, tmux, owned) :
            /\ r.name # NoName
            /\ OpenBridge(c, r.name, r.now \/ r.later)
            /\ IF r.now THEN CreateUserSession(UserOf[c], r.name, tmux, owned)
               ELSE IF r.later THEN Birth(r.name, tmux) /\ owned' = owned
               ELSE UNCHANGED names
  BY DEF Connect
<1>2. PICK r \in Resolved(UserOf[c], requested, tmux, owned) :
            /\ r.name # NoName
            /\ OpenBridge(c, r.name, r.now \/ r.later)
            /\ IF r.now THEN CreateUserSession(UserOf[c], r.name, tmux, owned)
               ELSE IF r.later THEN Birth(r.name, tmux) /\ owned' = owned
               ELSE UNCHANGED names
  BY <1>1
<1> DEFINE u == UserOf[c]  n == r.name  new == r.now \/ r.later
<1>3. NamesOK(tmux, owned, born) /\ u \in Users /\ born \in Nat /\ born <= MaxBorn
  BY Constants0 DEF IInv, NamesOK
<1>4. /\ n \in Names /\ r.now \in BOOLEAN /\ r.later \in BOOLEAN
      /\ tenants => n \in SpaceOf(u) /\ ~r.later
      /\ new => n = NextName(u, tmux) /\ tmux[n] = 0 /\ born # MaxBorn
  BY <1>2, <1>3, ResolvedIsOwn
<1>5. /\ NamesOK(tmux', owned', born') /\ TmuxStep /\ born \in 0..born'
      /\ tmux'[n] = IF new THEN born + 1 ELSE tmux[n]
  <2>1. CASE r.now
    BY <1>2, <1>3, <1>4, <2>1, CreatedStep
  <2>2. CASE ~r.now /\ r.later
    <3>1. born < MaxBorn
      BY <1>3, <1>4, <2>2, Constants0
    <3> QED
      BY <1>2, <1>4, <2>2, <3>1, BornStep
  <2>3. CASE ~r.now /\ ~r.later
    BY <1>2, <2>3, NamesStay DEF names
  <2> QED
    BY <1>4, <2>1, <2>2, <2>3
<1>6. new \in BOOLEAN /\ OpenBridge(c, n, new)
  BY <1>2, <1>4
<1>7. /\ conn[c].at \in {"closed", "closing"} /\ tenants' = tenants
      /\ UNCHANGED scrolling /\ Command /\ spent' = spent
  BY DEF Connect
<1> HIDE DEF u, n, new
<1> QED
  BY <1>4, <1>5, <1>6, <1>7, BridgeOpens DEF u

LEMMA SwitchClosesKeeps ==
    ASSUME IInv, NEW c \in Conns, SwitchCloses(c)
    PROVE  IInv'
<1>1. GoodConn(c) /\ conn[c] \in ConnType /\ conn[c].at = "closing"
  BY DEF IInv, RestOK, SwitchCloses
<1>2. PICK n \in Names : n = conn[c].target
  BY <1>1 DEF GoodConn, Knows
<1>3. PICK new \in BOOLEAN : new <=> (conn[c].later /\ ~Exists(n))
  OBVIOUS
<1>4. tenants => ~new /\ n \in SpaceOf(UserOf[c])
  BY <1>1, <1>2, <1>3 DEF GoodConn, Knows, Spaced
<1>5. new = (conn[c].later /\ ~Exists(n)) /\ (new => tmux[n] = 0)
  <2>1. ~Exists(n) => tmux[n] = 0
    BY <1>2 DEF Exists, Reached, Found
  <2> QED
    BY <1>1, <1>3, <2>1 DEF ConnType
<1>6. /\ OpenBridge(c, n, new) /\ (new => born < MaxBorn)
      /\ IF new THEN Birth(n, tmux) /\ owned' = owned ELSE UNCHANGED names
      /\ tenants' = tenants /\ UNCHANGED scrolling
      /\ commands' = commands /\ spent' = spent
  BY <1>2, <1>5 DEF SwitchCloses
<1>7. /\ NamesOK(tmux', owned', born') /\ TmuxStep /\ born \in 0..born'
      /\ tmux'[n] = IF new THEN born + 1 ELSE tmux[n]
  <2>1. CASE new
    BY <1>4, <1>5, <1>6, <2>1, BornStep
  <2>2. CASE ~new
    BY <1>6, <2>2, NamesStay DEF names
  <2> QED
    BY <2>1, <2>2
<1>8. conn[c].at \in {"closed", "closing"}
  BY <1>1
<1> QED
  BY <1>4, <1>6, <1>7, <1>8, BridgeOpens

\* A step that changes no name, no lock and no queue.
LEMMA QuietMove ==
    ASSUME IInv, NEW c \in Conns, NEW s, s \in ConnType, Becomes(c, s),
           UNCHANGED <<tenants, names, writing, scrolling>>, MistakenGrows,
           live' \in [Names -> SUBSET Conns],
           \A d \in Conns \ {c}, n \in Names : d \in live'[n] <=> d \in live[n],
           GoodConn(c)', Met',
           commands' = commands \/ Command, spent' = spent \/ Disturb
    PROVE  IInv'
<1>1. /\ UNCHANGED names /\ UNCHANGED writing /\ UNCHANGED scrolling
      /\ tenants' = tenants
  OBVIOUS
<1>2. NamesOK(tmux', owned', born') /\ TmuxStep /\ born \in 0..born'
  BY <1>1, NamesStay
<1>3. /\ LocksOK' /\ LocksStep /\ made \in 0..made'
      /\ \A i \in 1..made : holder'[i] = holder[i]
  BY <1>1, LocksStay
<1>4. born' \in Nat /\ made' \in Nat
  BY <1>2, <1>3, Constants0 DEF NamesOK, LocksOK
<1>5. QueuesOK' /\ Len(queues) \in 0..Len(queues') /\ Len(queues') \in Nat
  BY <1>1, <1>2, <1>4, QueuesStay DEF QueuesOK
<1>6. Grows
  BY <1>1, <1>2, <1>3, <1>5 DEF Grows
<1>7. s \in ConnType'
  BY <1>4, <1>5, <1>6, TypesGrow
<1>8. \A d \in Conns : conn[d].at = "writing" => holder'[conn[d].wants] = d
  BY <1>3, WritersStay
<1> QED
  BY <1>2, <1>3, <1>5, <1>6, <1>7, <1>8, OneMoves

LEMMA QuietMistaken ==
    ASSUME IInv, UNCHANGED names, mistaken' = mistaken
    PROVE  MistakenGrows
BY MistakenStays, NamesStay, Constants0 DEF NamesOK

LEMMA LiveStays ==
    ASSUME IInv, live' = live
    PROVE  /\ live' \in [Names -> SUBSET Conns]
           /\ \A d \in Conns, n \in Names : d \in live'[n] <=> d \in live[n]
BY DEF IInv, RestOK

\* A bridge is under one name, and under none once it is unregistered.
LEMMA Unregistered ==
    ASSUME IInv, NEW c \in Conns, conn[c].at \in HasBridge,
           live' = Unregister(live, conn[c].name, c)
    PROVE  /\ live' \in [Names -> SUBSET Conns]
           /\ \A d \in Conns \ {c}, n \in Names : d \in live'[n] <=> d \in live[n]
           /\ \A n \in Names : c \notin live'[n]
<1>1. /\ live \in [Names -> SUBSET Conns] /\ conn[c].name \in Names
      /\ \A n \in Names : c \in live[n] <=> n = conn[c].name
  BY DEF IInv, RestOK, GoodConn, Knows, Follows
<1> QED
  BY <1>1 DEF Unregister

\* A connection without a bridge.
LEMMA NoBridge ==
    ASSUME NEW c \in Conns, conn'[c].at \in {"closed", "ending"},
           conn'[c].at = "ending" => conn'[c].lock # 0,
           \A n \in Names : c \notin live'[n]
    PROVE  GoodConn(c)'
<1>1. conn'[c].at \notin HasBridge
  BY DEF HasBridge
<1> QED
  BY <1>1 DEF GoodConn, Knows, Follows, Locked, Spaced

\* The pane a name leads to is that of the session the bridge is attached to, or
\* one that is mistaken for it.
LEMMA PaneFollowed ==
    ASSUME IInv, NEW c \in Conns, conn[c].at \in HasBridge, conn[c].attached # 0,
           NEW at \in HasBridge,
           at = IF conn[c].at = "opening" THEN "ready" ELSE conn[c].at,
           NEW p \in Panes(conn[c].name, tmux),
           Becomes(c, [conn[c] EXCEPT !.at = at, !.session = conn[c].name, !.pane = p]),
           mistaken' = mistaken \cup Mistaken(conn[c].name, p),
           UNCHANGED <<tenants, names, writing, live, scrolling, commands, spent>>
    PROVE  IInv'
<1>1. PICK s : /\ s = [conn[c] EXCEPT !.at = at, !.session = conn[c].name, !.pane = p]
               /\ Becomes(c, s)
  OBVIOUS
<1>2. /\ GoodConn(c) /\ conn[c] \in ConnType /\ conn'[c] = s /\ conn[c].name \in Names
      /\ tmux \in [Names -> 0..born] /\ born \in Nat /\ mistaken \subseteq 1..born
  BY <1>1, Constants0 DEF IInv, RestOK, Becomes, NamesOK, GoodConn, Knows
<1>3. p \in 1..born
  BY <1>2, PanesAre
<1>4. /\ UNCHANGED <<tenants, names, writing, scrolling>> /\ live' = live
      /\ commands' = commands /\ spent' = spent /\ tmux' = tmux /\ locks' = locks
      /\ born' = born /\ tenants' = tenants /\ queues' = queues /\ holder' = holder
  BY DEF names, writing, scrolling
<1>5. MistakenGrows /\ (p = tmux[conn[c].name] \/ p \in mistaken')
  BY <1>2, <1>3, <1>4 DEF MistakenGrows, Mistaken
<1>6. s \in ConnType
  <2>1. p \in 0..born /\ conn[c].name \in Names \cup {NoName}
    BY <1>2, <1>3
  <2>2. at \in HasBridge \cup {"closed", "closing", "ending"} /\ conn[c] \in ConnType
    BY <1>2
  <2> QED
    BY <1>1, <2>1, <2>2 DEF ConnType
<1>7. /\ s.at = at /\ s.session = conn[c].name /\ s.name = conn[c].name
      /\ s.attached = conn[c].attached /\ s.pane = p /\ s.into = conn[c].into
      /\ s.lock = conn[c].lock /\ s.wants = conn[c].wants /\ s.queue = conn[c].queue
      /\ s.task = conn[c].task /\ s.victim = conn[c].victim
      /\ s.target = conn[c].target
  BY <1>1, <1>2 DEF ConnType
<1>8. /\ at \in HasBridge \ {"opening"} /\ at # "closing" /\ at # "closed"
      /\ at # "ready" => at = conn[c].at
  BY DEF HasBridge
<1>9. Certain(conn[c].attached)' => Certain(conn[c].attached)
  BY <1>2, <1>4, <1>5, <1>7 DEF Certain, Alive, MistakenGrows
<1>10. GoodConn(c)'
  <2>1. Knows(c)'
    BY <1>2, <1>3, <1>4, <1>7, <1>8 DEF GoodConn, Knows, HasBridge
  <2>2. Follows(c)'
    <3>1. \A n \in Names : c \in live'[n] <=> n = conn'[c].name
      BY <1>2, <1>4, <1>7 DEF GoodConn, Follows
    <3>2. Certain(conn[c].attached)' => /\ tmux'[conn'[c].name] = conn'[c].attached
                                        /\ Meant(c, conn[c].pane)'
      BY <1>2, <1>4, <1>5, <1>7, <1>9 DEF GoodConn, Follows, Meant
    <3> QED
      BY <1>2, <1>7, <1>8, <3>1, <3>2 DEF Follows
  <2>3. Locked(c)'
    <3>1. Meant(c, conn[c].into) => Meant(c, conn[c].into)'
      BY <1>2, <1>5, <1>7 DEF Meant, MistakenGrows
    <3>2. /\ at \in {"waiting", "writing"} => at = conn[c].at
      BY <1>8
    <3> QED
      BY <1>2, <1>4, <1>7, <1>9, <3>1, <3>2 DEF GoodConn, Locked
  <2>4. Spaced(c)'
    BY <1>2, <1>4, <1>7, <1>8 DEF GoodConn, Spaced, SpaceOf
  <2> QED
    BY <2>1, <2>2, <2>3, <2>4 DEF GoodConn
<1>11. Met'
  BY <1>1, <1>4, <1>7, MetStays
<1> QED
  BY <1>1, <1>4, <1>5, <1>6, <1>10, <1>11, LiveStays, QuietMove

LEMMA OpenedKeeps ==
    ASSUME IInv, NEW c \in Conns, Opened(c)
    PROVE  IInv'
<1>1. PICK p \in Panes(conn[c].name, tmux) :
         /\ Becomes(c, [conn[c] EXCEPT !.at = "ready", !.session = conn[c].name, !.pane = p])
         /\ mistaken' = mistaken \cup Mistaken(conn[c].name, p)
  BY DEF Opened
<1>2. /\ UNCHANGED <<tenants, names, writing, live, scrolling, commands, spent>>
      /\ conn[c].at = "opening" /\ conn[c].attached # 0
  BY DEF Opened, Alive
<1>3. conn[c].at \in HasBridge /\ "ready" \in HasBridge
  BY <1>2 DEF HasBridge
<1> QED
  BY <1>1, <1>2, <1>3, PaneFollowed

LEMMA FollowPaneKeeps ==
    ASSUME IInv, NEW c \in Conns, FollowPane(c)
    PROVE  IInv'
<1>1. /\ conn[c] \in ConnType /\ conn[c].at \in HasBridge /\ conn[c].at # "opening"
      /\ conn[c].session = conn[c].name /\ conn[c].attached # 0
  BY DEF IInv, RestOK, GoodConn, Knows, Follows, FollowPane
<1>2. PICK p \in Panes(conn[c].name, tmux) :
         /\ Becomes(c, [conn[c] EXCEPT !.pane = p])
         /\ mistaken' = mistaken \cup Mistaken(conn[c].name, p)
  BY <1>1 DEF FollowPane
<1>3. [conn[c] EXCEPT !.pane = p] = [conn[c] EXCEPT !.at = conn[c].at,
                                        !.session = conn[c].name, !.pane = p]
  BY <1>1 DEF ConnType
<1>4. UNCHANGED <<tenants, names, writing, live, scrolling, commands, spent>>
  BY DEF FollowPane
<1> QED
  BY <1>1, <1>2, <1>3, <1>4, PaneFollowed

\* A bridge is unregistered for good.
LEMMA BridgeEnds ==
    ASSUME IInv, NEW c \in Conns, conn[c].at \in {"opening", "ready"},
           live' = Unregister(live, conn[c].name, c),
           Becomes(c, [conn[c] EXCEPT !.at = "ending"]),
           UNCHANGED <<tenants, names, mistaken, writing, scrolling, commands>>,
           spent' = spent \/ Disturb
    PROVE  IInv'
<1>1. PICK s : s = [conn[c] EXCEPT !.at = "ending"] /\ Becomes(c, s)
  OBVIOUS
<1>2. GoodConn(c) /\ conn[c] \in ConnType /\ conn'[c] = s /\ conn[c].at \in HasBridge
  BY <1>1 DEF IInv, RestOK, Becomes, HasBridge
<1>3. s \in ConnType /\ s.at = "ending" /\ s.lock = conn[c].lock /\ s.lock # 0
  BY <1>1, <1>2 DEF ConnType, GoodConn, Knows, HasBridge
<1>4. /\ live' \in [Names -> SUBSET Conns]
      /\ \A d \in Conns \ {c}, n \in Names : d \in live'[n] <=> d \in live[n]
      /\ \A n \in Names : c \notin live'[n]
  BY <1>2, Unregistered
<1>5. GoodConn(c)'
  BY <1>2, <1>3, <1>4, NoBridge
<1>6. Met'
  BY <1>1, MetStays DEF scrolling
<1>7. /\ UNCHANGED <<tenants, names, writing, scrolling>> /\ commands' = commands
      /\ MistakenGrows
  BY QuietMistaken
<1> QED
  BY <1>1, <1>3, <1>4, <1>5, <1>6, <1>7, QuietMove

LEMMA OpenFailsKeeps ==
    ASSUME IInv, NEW c \in Conns, OpenFails(c)
    PROVE  IInv'
BY BridgeEnds DEF OpenFails

LEMMA LeaveKeeps ==
    ASSUME IInv, NEW c \in Conns, Leave(c)
    PROVE  IInv'
<1>1. conn[c].session = conn[c].name
  BY DEF IInv, GoodConn, Follows, Leave, HasBridge
<1> QED
  BY <1>1, BridgeEnds DEF Leave

LEMMA ClosedKeeps ==
    ASSUME IInv, NEW c \in Conns, Closed(c)
    PROVE  IInv'
<1>1. PICK s : s = NewConn /\ Becomes(c, s)
  BY DEF Closed
<1>2. /\ UNCHANGED <<tenants, names, writing, scrolling>> /\ live' = live
      /\ commands' = commands /\ spent' = spent /\ conn[c].at = "ending"
      /\ MistakenGrows
  BY QuietMistaken DEF Closed
<1>3. conn'[c] = s /\ GoodConn(c) /\ NamesOK(tmux, owned, born) /\ LocksOK /\ QueuesOK
  BY <1>1 DEF IInv, RestOK, Becomes
<1>4. born \in Nat /\ made \in Nat /\ Len(queues) \in Nat
  BY <1>3, Constants0 DEF NamesOK, LocksOK, QueuesOK
<1>5. s \in ConnType /\ s.at = "closed"
  BY <1>1, <1>4 DEF NewConn, ConnType
<1>6. GoodConn(c)'
  <2>1. \A n \in Names : c \notin live'[n]
    BY <1>2, <1>3 DEF GoodConn, Follows, HasBridge
  <2> QED
    BY <1>3, <1>5, <2>1, NoBridge
<1>7. Met'
  BY <1>1, <1>2, MetStays DEF scrolling
<1> QED
  BY <1>1, <1>2, <1>5, <1>6, <1>7, LiveStays, QuietMove

\* A connection whose command is done keeps its bridge and forgets the rest.
LEMMA ReadyIs ==
    ASSUME NEW s \in ConnType, born \in Nat, made \in Nat
    PROVE  /\ Ready(s) \in ConnType /\ Ready(s).at = "ready" /\ Ready(s).into = 0
           /\ Ready(s).session = s.session /\ Ready(s).name = s.name
           /\ Ready(s).attached = s.attached /\ Ready(s).pane = s.pane
           /\ Ready(s).lock = s.lock
<1>1. 0 \in 0..born /\ 0 \in 0..made /\ 0 \in 0..Len(queues)
  BY Constants0 DEF ConnType
<1> QED
  BY <1>1 DEF Ready, ConnType, HasBridge

\* A connection switches, on sessions m and claims o: those there are, or those
\* a kill has left.
LEMMA SwitchesKeep ==
    ASSUME IInv, NEW c \in Conns, conn[c].at \in {"ready", "killing"},
           NEW requested, NEW m, NEW o, NamesOK(m, o, born),
           Switches(c, conn[c], requested, m, o),
           \A k \in Names : m[k] = tmux[k] \/ m[k] = 0,
           \A k \in Names : m[k] # 0 => locks'[k] = locks[k],
           LocksOK', made' = made, holder' = holder,
           QueuesOK', queues' = queues, tenants' = tenants, mistaken' = mistaken,
           commands' = commands \/ Command, spent' = spent \/ Disturb
    PROVE  IInv'
<1>1. PICK r \in Resolved(UserOf[c], requested, m, o) :
       /\ r.name # NoName
       /\ IF r.now THEN CreateUserSession(UserOf[c], r.name, m, o) ELSE Nothing(m, o)
       /\ IF r.name = conn[c].session
          THEN Becomes(c, Ready(conn[c])) /\ live' = live
          ELSE /\ live' = Unregister(live, conn[c].name, c)
               /\ Becomes(c, [conn[c] EXCEPT !.at = "closing", !.target = r.name,
                                             !.later = r.later])
  BY DEF Switches
<1> DEFINE n == r.name
<1>2. UserOf[c] \in Users /\ born \in Nat /\ tmux \in [Names -> 0..born] /\ made \in Nat
  BY Constants0 DEF IInv, NamesOK, LocksOK
<1>3. /\ n \in Names /\ r.now \in BOOLEAN /\ r.later \in BOOLEAN
      /\ tenants => n \in SpaceOf(UserOf[c]) /\ ~r.later
      /\ r.now => n = NextName(UserOf[c], m)
  BY <1>1, <1>2, ResolvedIsOwn
<1>4. /\ NamesOK(tmux', owned', born') /\ born' \in {born, born + 1}
      /\ \A k \in Names : tmux'[k] = m[k] \/ tmux'[k] = born + 1
  <2>1. CASE r.now
    BY <1>1, <1>2, <1>3, <2>1, CreatedKeepsNames
  <2>2. CASE ~r.now
    BY <1>1, <2>2 DEF Nothing
  <2> QED
    BY <2>1, <2>2
<1>5. TmuxStep /\ LocksStep /\ born \in 0..born' /\ born' \in Nat
  <2>1. \A k \in Names : tmux[k] \in 0..born
    BY <1>2
  <2>2. \A k \in Names : tmux'[k] = tmux[k] /\ tmux'[k] # 0 => m[k] # 0
    BY <1>2, <1>4, <2>1
  <2> QED
    BY <1>2, <1>4, <2>2 DEF TmuxStep, LocksStep
<1>6. Grows /\ Len(queues) \in Nat /\ Len(queues') \in Nat
  BY <1>2, <1>5, MistakenStays DEF Grows, QueuesOK, IInv
<1>7. \A d \in Conns : conn[d].at = "writing" => holder'[conn[d].wants] = d
  BY WritersStay
<1>8. GoodConn(c) /\ conn[c] \in ConnType /\ conn[c].at \in HasBridge \ {"opening"}
  BY DEF IInv, RestOK, HasBridge
<1> HIDE DEF n
<1>9. CASE n = conn[c].session
  <2>1. PICK s : s = Ready(conn[c]) /\ Becomes(c, s)
    BY <1>1, <1>9 DEF n
  <2>2. live' = live
    BY <1>1, <1>9 DEF n
  <2>3. conn'[c] = s /\ s \in ConnType
    BY <1>2, <1>8, <2>1, ReadyIs DEF IInv, RestOK, Becomes
  <2>4. /\ s.at = "ready" /\ s.session = conn[c].session /\ s.name = conn[c].name
        /\ s.attached = conn[c].attached /\ s.pane = conn[c].pane
        /\ s.lock = conn[c].lock
    BY <1>2, <1>8, <2>1, ReadyIs
  <2>5. s \in ConnType'
    BY <1>2, <1>5, <1>6, <2>3, TypesGrow
  <2>6. Knows(c)'
    BY <1>8, <2>3, <2>4 DEF GoodConn, Knows, HasBridge
  <2>7. SameBridge(c)
    BY <1>8, <2>3, <2>4 DEF SameBridge, HasBridge
  <2>8. GoodConn(c)'
    BY <1>5, <1>6, <2>2, <2>3, <2>4, <2>6, <2>7, BridgeKept, LiveStays
  <2>9. Met'
    <3>1. conn[c].at # "settling"
      OBVIOUS
    <3> QED
      BY <2>1, <3>1, MetStays
  <2> QED
    BY <1>4, <1>5, <1>6, <1>7, <2>1, <2>2, <2>5, <2>8, <2>9, LiveStays, OneMoves
<1>10. CASE n # conn[c].session
  <2>1. PICK s : s = [conn[c] EXCEPT !.at = "closing", !.target = n, !.later = r.later]
                 /\ Becomes(c, s)
    BY <1>1, <1>10 DEF n
  <2>2. live' = Unregister(live, conn[c].name, c)
    BY <1>1, <1>10 DEF n
  <2>3. conn'[c] = s /\ s \in ConnType
    BY <1>3, <1>8, <2>1 DEF IInv, RestOK, Becomes, ConnType
  <2>4. /\ s.at = "closing" /\ s.target = n /\ s.later = r.later
        /\ s.lock = conn[c].lock
    BY <1>8, <2>1 DEF ConnType
  <2>5. s \in ConnType'
    BY <1>2, <1>5, <1>6, <2>3, TypesGrow
  <2>6. /\ live' \in [Names -> SUBSET Conns]
        /\ \A d \in Conns \ {c}, k \in Names : d \in live'[k] <=> d \in live[k]
        /\ \A k \in Names : c \notin live'[k]
    BY <1>8, <2>2, Unregistered
  <2>7. GoodConn(c)'
    <3>1. conn'[c].at = "closing" /\ conn'[c].at \notin HasBridge
      BY <2>3, <2>4 DEF HasBridge
    <3>2. Knows(c)'
      BY <1>3, <1>8, <2>3, <2>4, <3>1 DEF GoodConn, Knows, HasBridge
    <3>3. Spaced(c)'
      BY <1>3, <2>3, <2>4, <3>1 DEF Spaced, SpaceOf
    <3> QED
      BY <2>6, <3>1, <3>2, <3>3 DEF GoodConn, Follows, Locked
  <2>8. Met'
    <3>1. conn[c].at # "settling"
      OBVIOUS
    <3> QED
      BY <2>1, <3>1, MetStays
  <2> QED
    BY <1>4, <1>5, <1>6, <1>7, <2>1, <2>5, <2>6, <2>7, <2>8, OneMoves
<1> QED
  BY <1>9, <1>10

LEMMA SwitchSessionKeeps ==
    ASSUME IInv, NEW c \in Conns, SwitchSession(c)
    PROVE  IInv'
<1>1. PICK requested \in Names : Switches(c, conn[c], requested, tmux, owned)
  BY DEF SwitchSession
<1>2. PICK m, o : m = tmux /\ o = owned
  OBVIOUS
<1>3. Switches(c, conn[c], requested, m, o) /\ NamesOK(m, o, born)
  BY <1>1, <1>2 DEF IInv
<1>4. LocksOK' /\ made' = made /\ holder' = holder /\ locks' = locks
  BY LocksStay DEF SwitchSession, writing
<1>5. QueuesOK' /\ queues' = queues
  <2>1. \A k \in Names : tmux[k] \in 0..born
    BY DEF IInv, NamesOK
  <2>2. born' \in {born, born + 1} /\ born \in Nat
    BY <1>1, Constants0 DEF Switches, CreateUserSession, Birth, Nothing, IInv, NamesOK
  <2> QED
    BY <2>2, QueuesStay DEF SwitchSession, scrolling
<1>6. conn[c].at = "ready" /\ Command /\ tenants' = tenants /\ spent' = spent
  BY DEF SwitchSession
<1>7. mistaken' = mistaken
  BY DEF SwitchSession
<1> QED
  BY <1>2, <1>3, <1>4, <1>5, <1>6, <1>7, SwitchesKeep

\* What is kept under the name a session is killed by is dropped.
LEMMA Forgotten ==
    ASSUME IInv, NEW n, Forget(n), made' = made, holder' = holder, queues' = queues,
           born' \in Nat, born \in 0..born'
    PROVE  /\ LocksOK' /\ QueuesOK'
           /\ Killed(n, tmux) \in [Names -> 0..born]
           /\ n \in Names => Killed(n, tmux)[n] = 0
           /\ \A k \in Names : Killed(n, tmux)[k] # 0 => locks'[k] = locks[k]
           /\ \A k \in Names : Killed(n, tmux)[k] = tmux[k] \/ Killed(n, tmux)[k] = 0
<1>1. LocksOK /\ QueuesOK /\ tmux \in [Names -> 0..born] /\ born \in Nat
  BY Constants0 DEF IInv, NamesOK
<1>2. /\ \A k \in Names : locks'[k] = IF k = n THEN 0 ELSE locks[k]
      /\ \A k \in Names : scroll'[k] = IF k = n THEN 0 ELSE scroll[k]
      /\ Killed(n, tmux) \in [Names -> 0..born]
      /\ n \in Names => Killed(n, tmux)[n] = 0
      /\ \A k \in Names : Killed(n, tmux)[k] = tmux[k] \/ Killed(n, tmux)[k] = 0
  <2>1. /\ \A k \in Names : locks'[k] = IF k = n THEN 0 ELSE locks[k]
        /\ \A k \in Names : scroll'[k] = IF k = n THEN 0 ELSE scroll[k]
    BY <1>1 DEF Forget, Without, LocksOK, QueuesOK
  <2> QED
    BY <1>1, <2>1, KilledIs
<1>3. made \in Nat /\ locks' \in [Names -> 0..made]
  <2>1. made \in Nat /\ 0 \in 0..made /\ locks \in [Names -> 0..made]
    BY <1>1 DEF LocksOK
  <2> QED
    BY <2>1 DEF Forget, Without
<1>4. Injective(locks)'
  BY <1>1, <1>2 DEF LocksOK, Injective
<1>5. LocksOK'
  BY <1>1, <1>3, <1>4 DEF LocksOK
<1>6. Len(queues) \in Nat /\ scroll' \in [Names -> 0..Len(queues)]
  <2>1. /\ Len(queues) \in Nat /\ 0 \in 0..Len(queues)
        /\ scroll \in [Names -> 0..Len(queues)]
    BY <1>1 DEF QueuesOK
  <2> QED
    BY <2>1 DEF Forget, Without
<1>7. Injective(scroll)'
  BY <1>1, <1>2 DEF QueuesOK, Injective
<1>8. queues' \in Seq(QueueType')
  <2>1. 1..born \subseteq 1..born' /\ 0..born \subseteq 0..born'
    OBVIOUS
  <2>2. QueueType \subseteq QueueType'
    BY <2>1 DEF QueueType
  <2> QED
    BY <1>1, <2>2 DEF QueuesOK
<1>9. QueuesOK'
  BY <1>6, <1>7, <1>8 DEF QueuesOK
<1> QED
  BY <1>2, <1>5, <1>9

LEMMA KillSendsKeeps ==
    ASSUME IInv, NEW c \in Conns, KillSends(c)
    PROVE  IInv'
<1>1. PICK n, requested : n = conn[c].victim /\ requested = conn[c].target
  OBVIOUS
<1>2. PICK m, o : m = Killed(n, tmux) /\ o = Released(UserOf[c], n)
  OBVIOUS
<1>3. Switches(c, conn[c], requested, m, o) /\ Forget(n)
  BY <1>1, <1>2 DEF KillSends
<1>4. born' \in Nat /\ born \in 0..born'
  <2>1. born' \in {born, born + 1} /\ born \in Nat
    BY <1>3, Constants0 DEF Switches, CreateUserSession, Birth, Nothing, IInv, NamesOK
  <2> QED
    BY <2>1
<1>5. /\ conn[c].at = "killing" /\ tenants' = tenants /\ made' = made
      /\ holder' = holder /\ queues' = queues /\ commands' = commands /\ spent' = spent
      /\ mistaken' = mistaken
  BY DEF KillSends
<1>6. /\ LocksOK' /\ QueuesOK' /\ m \in [Names -> 0..born]
      /\ n \in Names => m[n] = 0
      /\ \A k \in Names : m[k] # 0 => locks'[k] = locks[k]
      /\ \A k \in Names : m[k] = tmux[k] \/ m[k] = 0
  BY <1>2, <1>3, <1>4, <1>5, Forgotten
<1>7. NamesOK(m, o, born)
  <2>1. NamesOK(tmux, owned, born) /\ UserOf[c] \in Users
    BY Constants0 DEF IInv
  <2> QED
    BY <1>2, <1>6, <2>1, EndKeepsNames
<1> QED
  BY <1>3, <1>5, <1>6, <1>7, SwitchesKeep

\* A step no connection takes part in.
LEMMA NobodyMoves ==
    ASSUME IInv, conn' = conn, live' = live, made' = made, holder' = holder,
           TmuxStep, LocksStep, born \in 0..born', Len(queues) \in 0..Len(queues'),
           NamesOK(tmux', owned', born'), LocksOK', QueuesOK', Met',
           tenants' = tenants, mistaken' = mistaken,
           commands' = commands \/ Command, spent' = spent \/ Disturb
    PROVE  IInv'
<1>1. NamesOK(tmux, owned, born)'
  BY DEF NamesOK, Claimed, Injective, SpaceOf
<1>2. Grows
  <2>1. MistakenGrows
    BY MistakenStays, Constants0 DEF NamesOK
  <2> QED
    BY <2>1 DEF Grows, IInv, LocksOK
<1>3. born' \in Nat /\ made' \in Nat /\ Len(queues') \in Nat
  BY Constants0 DEF NamesOK, LocksOK, QueuesOK
<1>4. \A d \in Conns : GoodConn(d)'
  <2>1. \A d \in Conns : conn[d].at = "writing" => holder'[conn[d].wants] = d
    BY WritersStay
  <2> QED
    BY <1>2, <2>1, LiveStays, OtherKept
<1>5. conn \in [Conns -> ConnType] /\ live \in [Names -> SUBSET Conns]
  BY DEF IInv, RestOK
<1>6. conn' \in [Conns -> ConnType']
  BY <1>2, <1>3, <1>5, TypesGrow
<1>7. commands' \in 0..MaxCommands /\ spent' \in 0..MaxEvents
  BY Constants0 DEF IInv, RestOK, Command, Disturb
<1>8. RestOK'
  BY <1>2, <1>5, <1>6, <1>7 DEF RestOK, IInv, Grows, MistakenGrows
<1> QED
  BY <1>1, <1>4, <1>8 DEF IInv

\* The queues and who met their calls, in a step that leaves both alone.
LEMMA QueuesRest ==
    ASSUME IInv, UNCHANGED <<scrolling, conn>>, born \in 0..born', born' \in Nat
    PROVE  QueuesOK' /\ Met' /\ Len(queues) \in 0..Len(queues')
<1>1. UNCHANGED scrolling /\ conn' = conn
  OBVIOUS
<1>2. Met'
  BY <1>1 DEF Met, IInv, scrolling
<1> QED
  BY <1>1, <1>2, QueuesStay

LEMMA NewTabKeeps ==
    ASSUME IInv, NEW c \in Conns, NewTab(c)
    PROVE  IInv'
<1>1. PICK n : n = NextName(UserOf[c], tmux) /\ CreateUserSession(UserOf[c], n, tmux, owned)
  BY DEF NewTab
<1>2. NamesOK(tmux', owned', born') /\ TmuxStep /\ born \in 0..born' /\ born' \in Nat
  BY <1>1, CreatedStep, Constants0 DEF NamesOK
<1>3. /\ UNCHANGED writing /\ UNCHANGED <<scrolling, conn>> /\ conn' = conn
      /\ live' = live /\ tenants' = tenants /\ Command /\ spent' = spent
      /\ made' = made /\ holder' = holder /\ mistaken' = mistaken
  BY DEF NewTab, writing
<1> QED
  BY <1>2, <1>3, QueuesRest, LocksStay, NobodyMoves

LEMMA RenameLabelKeeps ==
    ASSUME IInv, NEW c \in Conns, RenameLabel(c)
    PROVE  IInv'
<1>1. PICK n \in Visible(c) : owned' = [owned EXCEPT ![UserOf[c]] = @ \cup {n}]
  BY DEF RenameLabel, Claim
<1>2. NamesOK(tmux, owned, born) /\ UserOf[c] \in Users /\ tenants
  BY Constants0 DEF IInv, RenameLabel
<1>3. n \in SpaceOf(UserOf[c]) /\ n \in Names
  BY <1>1, <1>2, VisibleIsOwn DEF Visible, SpaceOf
<1>4. owned' \in [Users -> SUBSET Names]
  BY <1>1, <1>2, <1>3 DEF NamesOK
<1>5. \A u \in Users : owned[u] \subseteq owned'[u] /\ owned'[u] \subseteq SpaceOf(u)
  BY <1>1, <1>2, <1>3 DEF NamesOK, Claimed
<1>6. /\ UNCHANGED writing /\ UNCHANGED <<scrolling, conn>> /\ conn' = conn
      /\ live' = live /\ tenants' = tenants /\ Command /\ spent' = spent
      /\ made' = made /\ holder' = holder /\ tmux' = tmux /\ born' = born
      /\ mistaken' = mistaken
  BY DEF RenameLabel, writing
<1>7. NamesOK(tmux', owned', born')
  BY <1>2, <1>4, <1>5, <1>6 DEF NamesOK, Claimed
<1>8. TmuxStep /\ born \in 0..born' /\ born' \in Nat
  BY <1>2, <1>6, Constants0 DEF TmuxStep, NamesOK
<1> QED
  BY <1>6, <1>7, <1>8, QueuesRest, LocksStay, NobodyMoves

LEMMA ExitsKeeps ==
    ASSUME IInv, Exits
    PROVE  IInv'
<1>1. PICK n \in Names : tmux' = [tmux EXCEPT ![n] = 0]
  BY DEF Exits, Standing
<1>2. /\ UNCHANGED writing /\ UNCHANGED <<scrolling, conn>> /\ conn' = conn
      /\ live' = live /\ tenants' = tenants /\ commands' = commands /\ Disturb
      /\ made' = made /\ holder' = holder /\ born' = born /\ owned' = owned
      /\ mistaken' = mistaken
  BY DEF Exits, writing
<1>3. /\ NamesOK(tmux, owned, born) /\ born \in Nat /\ tmux' \in [Names -> 0..born]
      /\ \A k \in Names : tmux'[k] = tmux[k] \/ tmux'[k] = 0
      /\ tmux'[n] = 0
  BY <1>1, Constants0 DEF IInv, NamesOK
<1>4. NamesOK(tmux', owned', born')
  BY <1>2, <1>3, EndKeepsNames
<1>5. TmuxStep /\ born \in 0..born' /\ born' \in Nat
  BY <1>2, <1>3 DEF TmuxStep
<1> QED
  BY <1>2, <1>4, <1>5, QueuesRest, LocksStay, NobodyMoves

LEMMA StartedKeeps ==
    ASSUME IInv, Started
    PROVE  IInv'
<1>1. PICK n \in {None} \X Numbers : tmux[n] = 0 /\ Birth(n, tmux)
  BY DEF Started, Standing, Names
<1>2. /\ UNCHANGED writing /\ UNCHANGED <<scrolling, conn>> /\ conn' = conn
      /\ live' = live /\ tenants' = tenants /\ commands' = commands /\ Disturb
      /\ made' = made /\ holder' = holder /\ owned' = owned /\ born < MaxBorn
      /\ mistaken' = mistaken
  BY DEF Started, writing
<1>3. n \in Names /\ n[1] = None
  BY DEF Names
<1>4. NamesOK(tmux', owned', born') /\ TmuxStep /\ born \in 0..born' /\ born' \in Nat
  BY <1>1, <1>2, <1>3, BornStep, Constants0 DEF NamesOK
<1> QED
  BY <1>2, <1>4, QueuesRest, LocksStay, NobodyMoves

LEMMA KillOtherKeeps ==
    ASSUME IInv, NEW c \in Conns, KillOther(c)
    PROVE  IInv'
<1>1. PICK n \in Visible(c) : /\ Nothing(Killed(n, tmux), Released(UserOf[c], n))
                              /\ Forget(n)
  BY DEF KillOther
<1>2. /\ conn' = conn /\ live' = live /\ tenants' = tenants /\ Command /\ spent' = spent
      /\ made' = made /\ holder' = holder /\ queues' = queues /\ mistaken' = mistaken
  BY DEF KillOther
<1>3. /\ NamesOK(tmux, owned, born) /\ born \in Nat /\ born' = born
      /\ tmux' = Killed(n, tmux) /\ owned' = Released(UserOf[c], n)
      /\ UserOf[c] \in Users
  BY <1>1, Constants0 DEF IInv, NamesOK, Nothing
<1>4. /\ LocksOK' /\ QueuesOK' /\ born \in 0..born' /\ tmux' \in [Names -> 0..born]
      /\ n \in Names => tmux'[n] = 0
      /\ \A k \in Names : tmux'[k] # 0 => locks'[k] = locks[k]
      /\ \A k \in Names : tmux'[k] = tmux[k] \/ tmux'[k] = 0
  BY <1>1, <1>2, <1>3, Forgotten
<1>5. NamesOK(tmux', owned', born')
  BY <1>3, <1>4, EndKeepsNames
<1>6. TmuxStep /\ LocksStep
  BY <1>4 DEF TmuxStep, LocksStep
<1>7. Met' /\ Len(queues) \in 0..Len(queues')
  BY <1>2 DEF Met, IInv, QueuesOK
<1> QED
  BY <1>2, <1>4, <1>5, <1>6, <1>7, NobodyMoves

\* A connection goes on with the bridge it has.
LEMMA BridgeMoves ==
    ASSUME IInv, NEW c \in Conns, conn[c].at \in HasBridge \ {"opening"},
           NEW s, s \in ConnType', Becomes(c, s), s.at \in HasBridge \ {"opening"},
           s.session = conn[c].session, s.name = conn[c].name,
           s.attached = conn[c].attached, s.pane = conn[c].pane, s.lock = conn[c].lock,
           s.at = "renaming" => /\ ~tenants /\ s.wants # 0
                                /\ s.victim \in Names /\ s.target \in Names,
           s.at \in {"waiting", "writing"} =>
              \/ s.wants = conn[c].lock
              \/ conn[c].at \in {"waiting", "writing"} /\ s.wants = conn[c].wants,
           s.at = "writing" => /\ holder'[s.wants] = c
                               /\ s.into = IF conn[c].at = "writing" THEN conn[c].into
                                           ELSE conn[c].pane,
           \A d \in Conns \ {c} : conn[d].at = "writing" => holder'[conn[d].wants] = d,
           TmuxStep, LocksStep, born \in 0..born', made \in 0..made',
           Len(queues) \in 0..Len(queues'), tenants' = tenants, MistakenGrows,
           NamesOK(tmux', owned', born'), LocksOK', QueuesOK', Met', live' = live,
           commands' = commands \/ Command, spent' = spent \/ Disturb
    PROVE  IInv'
<1>1. conn'[c] = s /\ GoodConn(c) /\ Grows
  BY DEF IInv, RestOK, Becomes, Grows
<1>2. SameBridge(c)
  BY <1>1 DEF SameBridge
<1>3. Knows(c)'
  <2>1. /\ conn[c].lock # 0 /\ conn[c].name \in Names /\ conn[c].attached # 0
        /\ conn[c].pane # 0
    BY <1>1 DEF GoodConn, Knows, HasBridge
  <2>2. s.at \in {"waiting", "writing"} => s.wants # 0
    BY <1>1, <2>1 DEF GoodConn, Knows
  <2>3. s.at # "closing" /\ s.at # "closed"
    BY DEF HasBridge
  <2> QED
    BY <1>1, <2>1, <2>2, <2>3 DEF Knows
<1>4. s.at # "closing"
  BY DEF HasBridge
<1>5. GoodConn(c)'
  BY <1>1, <1>2, <1>3, <1>4, LiveStays, BridgeKept
<1> QED
  BY <1>1, <1>5, LiveStays, OneMoves

LEMMA RenameTabKeeps ==
    ASSUME IInv, NEW c \in Conns, RenameTab(c)
    PROVE  IInv'
<1>1. PICK victim \in Typed, target \in Typed :
          /\ WithLock(victim)
          /\ Becomes(c, [conn[c] EXCEPT !.at = "renaming", !.victim = victim,
                                        !.target = target, !.wants = LockOf(victim)])
  BY DEF RenameTab
<1>2. PICK s : /\ s = [conn[c] EXCEPT !.at = "renaming", !.victim = victim,
                                      !.target = target, !.wants = LockOf(victim)]
               /\ Becomes(c, s)
  BY <1>1
<1>3. /\ conn[c].at = "ready" /\ ~tenants /\ Command /\ tenants' = tenants
      /\ UNCHANGED names /\ live' = live /\ UNCHANGED scrolling /\ spent' = spent
      /\ queues' = queues /\ mistaken' = mistaken
  BY DEF RenameTab, scrolling
<1>4. victim \in Names /\ target \in Names
  BY Constants0
<1>5. /\ LocksOK' /\ LocksStep /\ made \in 0..made'
      /\ \A i \in 1..made : holder'[i] = holder[i]
      /\ LockOf(victim) \in 1..made'
  BY <1>1, <1>4, LockMade
<1>6. /\ NamesOK(tmux', owned', born') /\ TmuxStep /\ born \in 0..born'
      /\ born' \in Nat /\ made' \in Nat /\ MistakenGrows
  BY <1>3, <1>5, NamesStay, QuietMistaken, Constants0 DEF NamesOK, LocksOK
<1>7. QueuesOK' /\ Len(queues) \in 0..Len(queues') /\ Len(queues') \in Nat
  BY <1>3, <1>6, QueuesStay DEF QueuesOK
<1>8. conn[c] \in ConnType /\ conn[c] \in ConnType'
  <2>1. Grows
    BY <1>3, <1>5, <1>6, <1>7 DEF Grows
  <2> QED
    BY <1>6, <1>7, <2>1, TypesGrow DEF IInv, RestOK
<1>9. s \in ConnType'
  <2>1. LockOf(victim) \in 0..made' /\ "renaming" \in HasBridge
    BY <1>5, <1>6 DEF HasBridge
  <2> QED
    BY <1>2, <1>4, <1>8, <2>1 DEF ConnType
<1>10. /\ s.at = "renaming" /\ s.victim = victim /\ s.target = target
       /\ s.wants = LockOf(victim) /\ s.session = conn[c].session
       /\ s.name = conn[c].name /\ s.attached = conn[c].attached
       /\ s.pane = conn[c].pane /\ s.lock = conn[c].lock
  BY <1>2, <1>8 DEF ConnType
<1>11. /\ conn[c].at \in HasBridge \ {"opening"} /\ s.at \in HasBridge \ {"opening"}
       /\ conn[c].at # "settling" /\ LockOf(victim) # 0
  BY <1>3, <1>5, <1>10 DEF HasBridge
<1>12. Met'
  BY <1>2, <1>3, <1>11, MetStays
<1>13. \A d \in Conns : conn[d].at = "writing" => holder'[conn[d].wants] = d
  BY <1>5, WritersStay
<1> QED
  BY <1>2, <1>3, <1>4, <1>5, <1>6, <1>7, <1>9, <1>10, <1>11, <1>12, <1>13, BridgeMoves

LEMMA KillOwnKeeps ==
    ASSUME IInv, NEW c \in Conns, KillOwn(c)
    PROVE  IInv'
<1> DEFINE u == UserOf[c]  others == Visible(c) \ {conn[c].session}
<1>1. PICK next \in IF others # {} THEN others ELSE {NextName(u, tmux)} :
             /\ IF others # {} THEN UNCHANGED names
                ELSE CreateUserSession(u, next, tmux, owned)
             /\ Becomes(c, [conn[c] EXCEPT !.at = "killing", !.target = next,
                                           !.victim = conn[c].session])
  BY DEF KillOwn
<1>2. PICK s : /\ s = [conn[c] EXCEPT !.at = "killing", !.target = next,
                                      !.victim = conn[c].session]
               /\ Becomes(c, s)
  BY <1>1
<1>3. /\ conn[c].at = "ready" /\ Command /\ tenants' = tenants /\ UNCHANGED writing
      /\ live' = live /\ UNCHANGED scrolling /\ spent' = spent /\ queues' = queues
      /\ mistaken' = mistaken
  BY DEF KillOwn, scrolling
<1>4. u \in Users /\ NamesOK(tmux, owned, born)
  BY Constants0 DEF IInv
<1>5. /\ NamesOK(tmux', owned', born') /\ TmuxStep /\ born \in 0..born'
      /\ next \in Names
  <2>1. CASE others # {}
    <3>1. Visible(c) \subseteq Names
      BY <1>4, VisibleIsOwn DEF Visible, Standing
    <3> QED
      BY <1>1, <2>1, <3>1, NamesStay
  <2>2. CASE others = {}
    <3>1. next = NextName(u, tmux) /\ CreateUserSession(u, next, tmux, owned)
      BY <1>1, <2>2
    <3> QED
      BY <1>4, <3>1, CreatedStep
  <2> QED
    BY <2>1, <2>2
<1> HIDE DEF u, others
<1>6. /\ LocksOK' /\ LocksStep /\ made \in 0..made'
      /\ \A i \in 1..made : holder'[i] = holder[i]
      /\ born' \in Nat /\ made' \in Nat /\ MistakenGrows
  <2>1. born' \in Nat
    BY <1>5, Constants0 DEF NamesOK
  <2>2. MistakenGrows
    BY <1>3, <1>5, <2>1, MistakenStays
  <2> QED
    BY <1>3, <2>1, <2>2, LocksStay DEF LocksOK
<1>7. QueuesOK' /\ Len(queues) \in 0..Len(queues') /\ Len(queues') \in Nat
  BY <1>3, <1>5, <1>6, QueuesStay DEF QueuesOK
<1>8. conn[c] \in ConnType /\ conn[c] \in ConnType'
  <2>1. Grows
    BY <1>3, <1>5, <1>6, <1>7 DEF Grows
  <2> QED
    BY <1>6, <1>7, <2>1, TypesGrow DEF IInv, RestOK
<1>9. s \in ConnType'
  BY <1>2, <1>5, <1>8 DEF ConnType, HasBridge
<1>10. /\ s.at = "killing" /\ s.session = conn[c].session
       /\ s.name = conn[c].name /\ s.attached = conn[c].attached
       /\ s.pane = conn[c].pane /\ s.lock = conn[c].lock
  BY <1>2, <1>8 DEF ConnType
<1>11. /\ conn[c].at \in HasBridge \ {"opening"} /\ s.at \in HasBridge \ {"opening"}
       /\ conn[c].at # "settling"
  BY <1>3, <1>10 DEF HasBridge
<1>12. Met'
  BY <1>2, <1>3, <1>11, MetStays
<1>13. \A d \in Conns : conn[d].at = "writing" => holder'[conn[d].wants] = d
  BY <1>6, WritersStay
<1> QED
  BY <1>2, <1>3, <1>5, <1>6, <1>7, <1>9, <1>10, <1>11, <1>12, <1>13, BridgeMoves

-----------------------------------------------------------------------------
(* Scrolling and writing keep it *)

\* A queue is changed: the others, and the names of all, stay.
LEMMA QueueChanged ==
    ASSUME IInv, NEW i \in DOMAIN queues, NEW q, q \in QueueType,
           queues' = [queues EXCEPT ![i] = q], scroll' = scroll, born' = born
    PROVE  /\ QueuesOK' /\ Len(queues') = Len(queues) /\ Len(queues) \in Nat
           /\ DOMAIN queues' = DOMAIN queues /\ queues'[i] = q
           /\ \A j \in DOMAIN queues \ {i} : queues'[j] = queues[j]
<1>1. /\ queues \in Seq(QueueType) /\ scroll \in [Names -> 0..Len(queues)]
      /\ Injective(scroll)
  BY DEF IInv, QueuesOK
<1>2. queues' \in Seq(QueueType) /\ Len(queues') = Len(queues) /\ Len(queues) \in Nat
  BY <1>1
<1>3. QueueType' = QueueType
  BY DEF QueueType
<1>4. Injective(scroll)'
  BY <1>1 DEF Injective
<1>5. QueuesOK'
  BY <1>1, <1>2, <1>3, <1>4 DEF QueuesOK
<1> QED
  BY <1>1, <1>2, <1>5

LEMMA QueueAt ==
    ASSUME IInv, NEW i \in DOMAIN queues
    PROVE  queues[i] \in QueueType
BY DEF IInv, QueuesOK

\* A drain leaves alone who waits for what, and only ends waits.
LEMMA DrainStep ==
    ASSUME IInv, NEW i \in DOMAIN queues, NEW q, q \in QueueType, q.marks = {},
           queues' = [queues EXCEPT ![i] = q],
           UNCHANGED <<tenants, names, mistaken, writing, live, scroll, conn, commands>>,
           spent' = spent \/ Disturb
    PROVE  IInv'
<1>1. /\ UNCHANGED names /\ UNCHANGED writing /\ live' = live /\ scroll' = scroll
      /\ conn' = conn /\ commands' = commands /\ tenants' = tenants
      /\ born' = born /\ made' = made /\ holder' = holder /\ mistaken' = mistaken
  BY DEF names, writing
<1>2. /\ QueuesOK' /\ Len(queues') = Len(queues) /\ Len(queues) \in Nat
      /\ DOMAIN queues' = DOMAIN queues /\ queues'[i] = q
      /\ \A j \in DOMAIN queues \ {i} : queues'[j] = queues[j]
  BY <1>1, QueueChanged
<1>3. Met'
  BY <1>1, <1>2 DEF IInv, Met
<1> QED
  BY <1>1, <1>2, <1>3, NamesStay, LocksStay, NobodyMoves

LEMMA DrainKeeps ==
    ASSUME IInv, Drain
    PROVE  IInv'
<1>1. PICK i \in DOMAIN queues : queues' = [queues EXCEPT ![i] = Turn(@)]
  BY DEF Drain
<1>2. PICK q : q = Turn(queues[i])
  OBVIOUS
<1>3. queues' = [queues EXCEPT ![i] = q]
  BY <1>1, <1>2
<1>4. queues[i] \in QueueType
  BY QueueAt
<1>5. q \in QueueType /\ q.marks = {}
  <2>1. CASE queues[i].pending = 0
    BY <1>2, <1>4, <2>1 DEF Turn, QueueType
  <2>2. CASE queues[i].pending # 0
    <3>1. queues[i].pending \in Int /\ Clamp(queues[i].pending) \in Int
      BY <1>4, ScrollAssumption DEF Clamp, QueueType
    <3>2. queues[i].pending - Clamp(queues[i].pending) \in Int
      BY <3>1
    <3>3. queues[i].pane \in 0..born
      BY <1>4, Constants0 DEF QueueType, IInv, NamesOK
    <3> QED
      BY <1>2, <1>4, <2>2, <3>2, <3>3 DEF Turn, QueueType
  <2> QED
    BY <2>1, <2>2
<1>6. /\ UNCHANGED <<tenants, names, mistaken, writing, live, scroll, conn, commands>>
      /\ spent' = spent
  BY DEF Drain
<1> QED
  BY <1>3, <1>5, <1>6, DrainStep

LEMMA DrainFailsKeeps ==
    ASSUME IInv, DrainFails
    PROVE  IInv'
<1>1. PICK i \in DOMAIN queues :
          queues' = [queues EXCEPT ![i].at = "idle", ![i].marks = {}]
  BY DEF DrainFails
<1>2. PICK q : q = [queues[i] EXCEPT !.at = "idle", !.marks = {}]
  OBVIOUS
<1>3. queues[i] \in QueueType
  BY QueueAt
<1>4. queues' = [queues EXCEPT ![i] = q]
  BY <1>1, <1>2
<1>5. q \in QueueType /\ q.marks = {}
  BY <1>2, <1>3 DEF QueueType
<1>6. /\ UNCHANGED <<tenants, names, mistaken, writing, live, scroll, conn, commands>>
      /\ Disturb
  BY DEF DrainFails
<1> QED
  BY <1>4, <1>5, <1>6, DrainStep

LEMMA QueuedType ==
    ASSUME NEW q \in QueueType, NEW pane \in 1..born, NEW lines \in Int
    PROVE  /\ Queued(q, pane, lines) \in QueueType
           /\ Queued(q, pane, lines).marks = q.marks
           /\ q.at = "calling" => /\ Queued(q, pane, lines).at = "calling"
                                  /\ Queued(q, pane, lines).task = q.task
           /\ Queued(q, pane, lines).at = "calling" => q.at = "calling"
<1>1. q.pending \in Int /\ q.task \in Nat /\ q.at \in {"idle", "woken", "calling"}
  BY DEF QueueType
<1>2. (IF q.pane = pane THEN q.pending ELSE 0) + lines \in Int /\ q.task + 1 \in Nat
  BY <1>1
<1>3. DEFINE p == (IF q.pane = pane THEN q.pending ELSE 0) + lines
             t == IF q.at = "idle" THEN q.task + 1 ELSE q.task
             a == IF q.at = "idle" THEN "woken" ELSE q.at
<1>4. Queued(q, pane, lines) = [q EXCEPT !.pending = p, !.pane = pane, !.at = a, !.task = t]
  BY DEF Queued
<1>5. p \in Int /\ t \in Nat /\ a \in {"idle", "woken", "calling"}
  BY <1>1, <1>2
<1>6. /\ q.at = "calling" => a = "calling" /\ t = q.task
      /\ a = "calling" => q.at = "calling"
  OBVIOUS
<1> HIDE DEF p, t, a
<1> QED
  BY <1>4, <1>5, <1>6 DEF QueueType

LEMMA ScrollHistoryKeeps ==
    ASSUME IInv, NEW c \in Conns, ScrollHistory(c)
    PROVE  IInv'
<1> DEFINE n == conn[c].session  pane == conn[c].pane
<1>1. PICK lines \in Deltas :
          IF scroll[n] = 0
          THEN /\ queues' = Append(queues, Queued(NewQueue(pane), pane, lines))
               /\ scroll' = [scroll EXCEPT ![n] = Len(queues) + 1]
          ELSE /\ queues' = [queues EXCEPT ![scroll[n]] = Queued(@, pane, lines)]
               /\ scroll' = scroll
  BY DEF ScrollHistory
<1>2. /\ UNCHANGED names /\ UNCHANGED writing /\ live' = live /\ conn' = conn
      /\ Command /\ spent' = spent /\ tenants' = tenants
      /\ born' = born /\ made' = made /\ holder' = holder /\ mistaken' = mistaken
  BY DEF ScrollHistory, names, writing
<1>3. lines \in Int
  BY ScrollAssumption
<1>4. n \in Names /\ pane \in 1..born /\ born \in Nat
  <2>1. /\ GoodConn(c) /\ conn[c] \in ConnType /\ conn[c].at = "ready" /\ born \in Nat
    BY Constants0 DEF IInv, RestOK, NamesOK, ScrollHistory
  <2>2. pane # 0 /\ n = conn[c].name /\ n \in Names
    BY <2>1 DEF GoodConn, Knows, Follows, HasBridge
  <2>3. pane \in 0..born
    BY <2>1 DEF ConnType
  <2> QED
    BY <2>1, <2>2, <2>3
<1>5. /\ queues \in Seq(QueueType) /\ scroll \in [Names -> 0..Len(queues)]
      /\ Injective(scroll) /\ Met
  BY DEF IInv, QueuesOK
<1> HIDE DEF n, pane
<1>6. QueuesOK' /\ Met' /\ Len(queues) \in 0..Len(queues')
  <2>1. CASE scroll[n] = 0
    <3>1. PICK q : q = Queued(NewQueue(pane), pane, lines)
      OBVIOUS
    <3>2. NewQueue(pane) \in QueueType /\ NewQueue(pane).at = "idle"
      <4>1. 0 \in 0..born /\ 0 \in Int /\ 0 \in Nat
        BY <1>4
      <4> QED
        BY <1>4, <4>1 DEF NewQueue, QueueType
    <3>3. q \in QueueType /\ q.at # "calling"
      BY <1>3, <1>4, <3>1, <3>2, QueuedType
    <3>4. queues' = Append(queues, q) /\ scroll' = [scroll EXCEPT ![n] = Len(queues) + 1]
      BY <1>1, <2>1, <3>1
    <3>5. /\ queues' \in Seq(QueueType) /\ Len(queues') = Len(queues) + 1
          /\ Len(queues) \in Nat /\ queues'[Len(queues) + 1] = q
          /\ \A j \in 1..Len(queues) : queues'[j] = queues[j]
      BY <1>5, <3>3, <3>4
    <3>6. scroll' \in [Names -> 0..Len(queues')]
      BY <1>4, <1>5, <3>4, <3>5
    <3>7. \A k \in Names : scroll'[k] = IF k = n THEN Len(queues) + 1 ELSE scroll[k]
      BY <1>5, <3>4
    <3>8. Injective(scroll)'
      <4>1. \A k \in Names : scroll[k] # Len(queues) + 1
        BY <1>5, <3>5
      <4> QED
        BY <1>5, <3>7, <4>1 DEF Injective
    <3>9. QueueType' = QueueType
      BY <1>2 DEF QueueType
    <3>10. Met'
      <4>1. \A j \in DOMAIN queues' : j \in DOMAIN queues \/ queues'[j] = q
        BY <1>5, <3>5
      <4>2. \A j \in DOMAIN queues : queues'[j] = queues[j]
        BY <1>5, <3>5
      <4> QED
        BY <1>2, <1>5, <3>3, <4>1, <4>2 DEF Met
    <3>11. Len(queues) \in 0..Len(queues')
      BY <3>5
    <3> QED
      BY <3>5, <3>6, <3>8, <3>9, <3>10, <3>11 DEF QueuesOK
  <2>2. CASE scroll[n] # 0
    <3>1. PICK i \in DOMAIN queues : i = scroll[n]
      BY <1>4, <1>5, <2>2
    <3>2. PICK q : q = Queued(queues[i], pane, lines)
      OBVIOUS
    <3>3. queues' = [queues EXCEPT ![i] = q] /\ scroll' = scroll
      BY <1>1, <2>2, <3>1, <3>2
    <3>4. /\ q \in QueueType /\ q.marks = queues[i].marks
          /\ q.at = "calling" => queues[i].at = "calling" /\ q.task = queues[i].task
      BY <1>3, <1>4, <3>2, QueuedType, QueueAt
    <3>5. /\ QueuesOK' /\ Len(queues') = Len(queues) /\ Len(queues) \in Nat
          /\ DOMAIN queues' = DOMAIN queues /\ queues'[i] = q
          /\ \A j \in DOMAIN queues \ {i} : queues'[j] = queues[j]
      BY <1>2, <3>3, <3>4, QueueChanged
    <3>6. Met'
      BY <1>2, <1>5, <3>4, <3>5 DEF Met
    <3> QED
      BY <3>5, <3>6
  <2> QED
    BY <2>1, <2>2
<1> QED
  BY <1>2, <1>6, NamesStay, LocksStay, NobodyMoves

\* A connection that is ready settles with the scrolling or waits to write.
LEMMA SettleKeeps ==
    ASSUME IInv, NEW c \in Conns, Settle(c)
    PROVE  IInv'
<1>1. /\ UNCHANGED names /\ UNCHANGED writing /\ live' = live /\ scroll' = scroll
      /\ Command /\ spent' = spent /\ tenants' = tenants /\ conn[c].at = "ready"
      /\ born' = born /\ made' = made /\ holder' = holder /\ MistakenGrows
  BY QuietMistaken DEF Settle, names, writing
<1>2. /\ conn[c] \in ConnType /\ GoodConn(c) /\ conn[c].name \in Names
      /\ conn[c].session = conn[c].name /\ conn[c].lock # 0 /\ Met
  BY <1>1 DEF IInv, RestOK, GoodConn, Knows, Follows, HasBridge
<1>3. PICK i : i = scroll[conn[c].name]
  OBVIOUS
<1>4. /\ queues \in Seq(QueueType) /\ scroll \in [Names -> 0..Len(queues)]
      /\ Len(queues) \in Nat
  BY DEF IInv, QueuesOK
<1>5. i # 0 => i \in DOMAIN queues
  BY <1>2, <1>3, <1>4
<1>6. PICK s : /\ Becomes(c, s)
               /\ s = IF i = 0 \/ queues[i].at = "idle"
                      THEN [conn[c] EXCEPT !.at = "waiting", !.wants = conn[c].lock]
                      ELSE [conn[c] EXCEPT !.at = "settling", !.queue = i,
                                           !.task = queues[i].task]
  BY <1>2, <1>3 DEF Settle
<1>7. PICK q : q = Dropped(queues[i], c)
  OBVIOUS
<1>8. queues' = IF i = 0 THEN queues ELSE [queues EXCEPT ![i] = q]
  BY <1>2, <1>3, <1>7 DEF Settle
<1>9. conn'[c] = s /\ \A d \in Conns \ {c} : conn'[d] = conn[d]
  BY <1>6 DEF Becomes, IInv, RestOK
<1>10. \A j \in DOMAIN queues : queues[j].at = "calling" => c \notin queues[j].marks
  BY <1>1, <1>2 DEF Met
<1>11. /\ QueuesOK' /\ Len(queues') = Len(queues) /\ DOMAIN queues' = DOMAIN queues
       /\ i = 0 => queues' = queues
       /\ i # 0 => /\ queues'[i].at = queues[i].at /\ queues'[i].task = queues[i].task
                   /\ queues[i].at = "calling" => queues'[i].marks = queues[i].marks \cup {c}
                   /\ \A j \in DOMAIN queues \ {i} : queues'[j] = queues[j]
  <2>1. CASE i = 0
    BY <1>1, <1>8, <2>1, QueuesStay, Constants0 DEF IInv, NamesOK, scrolling
  <2>2. CASE i # 0
    <3>1. queues[i] \in QueueType
      BY <1>5, <2>2, QueueAt
    <3>2. /\ q \in QueueType /\ q.at = queues[i].at /\ q.task = queues[i].task
          /\ queues[i].at = "calling" => q.marks = queues[i].marks \cup {c}
      <4> DEFINE met == IF queues[i].at = "calling" THEN queues[i].marks \cup {c}
                        ELSE queues[i].marks
      <4>1. q = [queues[i] EXCEPT !.pending = 0, !.marks = met]
        BY <1>7 DEF Dropped
      <4>2. met \in SUBSET Conns /\ 0 \in Int
        BY <3>1 DEF QueueType
      <4>3. queues[i].at = "calling" => met = queues[i].marks \cup {c}
        OBVIOUS
      <4> HIDE DEF met
      <4> QED
        BY <3>1, <4>1, <4>2, <4>3 DEF QueueType
    <3>3. queues' = [queues EXCEPT ![i] = q]
      BY <1>8, <2>2
    <3> QED
      BY <1>1, <1>5, <2>2, <3>2, <3>3, QueueChanged
  <2> QED
    BY <2>1, <2>2
<1>12. /\ s \in ConnType /\ s.at \in {"waiting", "settling"}
       /\ s.session = conn[c].session /\ s.name = conn[c].name
       /\ s.attached = conn[c].attached /\ s.pane = conn[c].pane
       /\ s.lock = conn[c].lock
       /\ s.at = "waiting" => s.wants = conn[c].lock
       /\ s.at = "settling" => i # 0 /\ s.queue = i /\ s.task = queues[i].task
       /\ i # 0 /\ queues[i].at # "idle" => s.at = "settling"
  <2>1. CASE i = 0 \/ queues[i].at = "idle"
    <3>1. s = [conn[c] EXCEPT !.at = "waiting", !.wants = conn[c].lock]
      BY <1>6, <2>1
    <3> QED
      BY <1>2, <2>1, <3>1 DEF ConnType, HasBridge
  <2>2. CASE i # 0 /\ queues[i].at # "idle"
    <3>1. s = [conn[c] EXCEPT !.at = "settling", !.queue = i, !.task = queues[i].task]
      BY <1>6, <2>2
    <3>2. queues[i].task \in Nat /\ i \in 0..Len(queues)
      BY <1>4, <1>5, <2>2, QueueAt DEF QueueType
    <3> QED
      BY <1>2, <2>2, <3>1, <3>2 DEF ConnType, HasBridge
  <2> QED
    BY <2>1, <2>2
<1>13. s \in ConnType'
  BY <1>1, <1>11, <1>12 DEF ConnType
<1>14. Met'
  <2> SUFFICES ASSUME NEW j \in DOMAIN queues', NEW d \in Conns,
                      queues'[j].at = "calling", d \in queues'[j].marks
               PROVE  /\ conn'[d].at = "settling" /\ conn'[d].queue = j
                      /\ conn'[d].task = queues'[j].task
    BY DEF Met
  <2>1. CASE d # c
    <3>1. queues[j].at = "calling" /\ d \in queues[j].marks
      BY <1>11, <2>1
    <3>2. queues'[j].task = queues[j].task
      BY <1>11
    <3> QED
      BY <1>2, <1>9, <1>11, <2>1, <3>1, <3>2 DEF Met
  <2>2. CASE d = c
    <3>1. i # 0 /\ j = i
      BY <1>10, <1>11, <2>2
    <3> QED
      BY <1>9, <1>11, <1>12, <2>2, <3>1
  <2> QED
    BY <2>1, <2>2
<1>15. /\ NamesOK(tmux', owned', born') /\ TmuxStep /\ born \in 0..born'
       /\ LocksOK' /\ LocksStep /\ made \in 0..made'
       /\ \A d \in Conns : conn[d].at = "writing" => holder'[conn[d].wants] = d
       /\ Len(queues) \in 0..Len(queues')
  BY <1>1, <1>4, <1>11, NamesStay, LocksStay, WritersStay
<1>16. /\ conn[c].at \in HasBridge \ {"opening"} /\ s.at \in HasBridge \ {"opening"}
       /\ s.at # "renaming" /\ s.at # "writing"
       /\ s.at \in {"waiting", "writing"} => s.wants = conn[c].lock
  BY <1>1, <1>12 DEF HasBridge
<1> QED
  BY <1>1, <1>6, <1>11, <1>12, <1>13, <1>14, <1>15, <1>16, BridgeMoves

LEMMA SettledKeeps ==
    ASSUME IInv, NEW c \in Conns, Settled(c)
    PROVE  IInv'
<1>1. /\ UNCHANGED names /\ UNCHANGED writing /\ live' = live /\ UNCHANGED scrolling
      /\ commands' = commands /\ spent' = spent /\ tenants' = tenants
      /\ conn[c].at = "settling" /\ queues' = queues
      /\ born' = born /\ made' = made /\ holder' = holder /\ MistakenGrows
  BY QuietMistaken DEF Settled, names, writing, scrolling
<1>2. PICK s : s = [conn[c] EXCEPT !.at = "waiting", !.wants = conn[c].lock]
               /\ Becomes(c, s)
  BY DEF Settled
<1>3. conn[c] \in ConnType /\ Met /\ conn'[c] = s
      /\ \A d \in Conns \ {c} : conn'[d] = conn[d]
  BY <1>2 DEF IInv, RestOK, Becomes
<1>4. /\ s \in ConnType /\ s.at = "waiting" /\ s.wants = conn[c].lock
      /\ s.session = conn[c].session /\ s.name = conn[c].name
      /\ s.attached = conn[c].attached /\ s.pane = conn[c].pane
      /\ s.lock = conn[c].lock
  BY <1>2, <1>3 DEF ConnType, HasBridge
<1>5. s \in ConnType'
  BY <1>1, <1>4 DEF ConnType
<1>6. Met'
  <2>1. \A i \in DOMAIN queues : queues[i].at = "calling" => c \notin queues[i].marks
    BY <1>3 DEF Settled, Met
  <2> QED
    BY <1>1, <1>3, <2>1 DEF Met
<1>7. /\ NamesOK(tmux', owned', born') /\ TmuxStep /\ born \in 0..born' /\ born' \in Nat
      /\ LocksOK' /\ LocksStep /\ made \in 0..made'
      /\ \A d \in Conns : conn[d].at = "writing" => holder'[conn[d].wants] = d
  BY <1>1, NamesStay, LocksStay, WritersStay, Constants0 DEF NamesOK
<1>8. QueuesOK' /\ Len(queues) \in 0..Len(queues')
  BY <1>1, <1>7, QueuesStay
<1>9. /\ conn[c].at \in HasBridge \ {"opening"} /\ s.at \in HasBridge \ {"opening"}
      /\ s.at # "renaming" /\ s.at # "writing"
  BY <1>1, <1>4 DEF HasBridge
<1> QED
  BY <1>1, <1>2, <1>4, <1>5, <1>6, <1>7, <1>8, <1>9, BridgeMoves

\* A write begins or ends: the lock goes from nobody to the writer, or back.
LEMMA LockPasses ==
    ASSUME IInv, NEW c \in Conns, NEW at \in {"writing", "ready"},
           conn[c].at \in {"waiting", "writing"},
           holder[conn[c].wants] \in {None, c}, NEW x \in {None, c},
           holder' = [holder EXCEPT ![conn[c].wants] = x],
           at = "writing" => x = c /\ conn[c].at = "waiting",
           NEW s \in ConnType, s.at = at, Becomes(c, s),
           s.session = conn[c].session, s.name = conn[c].name,
           s.attached = conn[c].attached, s.pane = conn[c].pane, s.lock = conn[c].lock,
           at = "writing" => s.wants = conn[c].wants /\ s.into = conn[c].pane,
           UNCHANGED <<tenants, names, mistaken, locks, made, live, scrolling, commands, spent>>
    PROVE  IInv'
<1>1. /\ UNCHANGED names /\ locks' = locks /\ live' = live /\ UNCHANGED scrolling
      /\ commands' = commands /\ spent' = spent /\ tenants' = tenants
      /\ queues' = queues /\ born' = born /\ made' = made /\ MistakenGrows
  BY QuietMistaken DEF names, scrolling
<1>2. /\ conn[c] \in ConnType /\ GoodConn(c) /\ conn[c].wants # 0
      /\ LocksOK /\ made \in Nat /\ conn[c].at \in HasBridge \ {"opening"}
      /\ born \in Nat
  BY Constants0 DEF IInv, RestOK, GoodConn, Knows, NamesOK, LocksOK, HasBridge
<1>3. s \in ConnType'
  BY <1>1 DEF ConnType
<1>4. conn[c].wants \in 1..made
  <2>1. conn[c].wants \in 0..made
    BY <1>2 DEF ConnType
  <2> QED
    BY <1>2, <2>1
<1>5. /\ holder \in Seq(Conns \cup {None}) /\ Len(holder) = made
      /\ holder' \in Seq(Conns \cup {None}) /\ Len(holder') = made
      /\ holder'[conn[c].wants] = x
      /\ \A l \in 1..made : l # conn[c].wants => holder'[l] = holder[l]
  BY <1>2, <1>4 DEF LocksOK
<1>6. LocksOK' /\ LocksStep /\ made \in 0..made'
  BY <1>1, <1>2, <1>5 DEF LocksOK, LocksStep, Injective
<1>7. \A d \in Conns \ {c} : conn[d].at = "writing" => holder'[conn[d].wants] = d
  <2> SUFFICES ASSUME NEW d \in Conns \ {c}, conn[d].at = "writing"
               PROVE  holder'[conn[d].wants] = d
    OBVIOUS
  <2>1. holder[conn[d].wants] = d /\ conn[d] \in ConnType /\ conn[d].wants # 0
    BY DEF IInv, GoodConn, Locked, Knows, RestOK
  <2>2. conn[d].wants \in 0..made
    BY <2>1 DEF ConnType
  <2>3. conn[d].wants \in 1..made
    BY <1>2, <2>1, <2>2
  <2>4. conn[d].wants # conn[c].wants
    BY <2>1, Constants0
  <2> QED
    BY <1>5, <2>1, <2>3, <2>4
<1>8. Met'
  <2>1. conn[c].at # "settling"
    OBVIOUS
  <2> QED
    BY <1>1, <2>1, MetStays
<1>9. /\ NamesOK(tmux', owned', born') /\ TmuxStep /\ born \in 0..born' /\ born' \in Nat
  BY <1>1, NamesStay, Constants0 DEF NamesOK
<1>10. QueuesOK' /\ Len(queues) \in 0..Len(queues')
  BY <1>1, <1>9, QueuesStay
<1>11. /\ s.at \in HasBridge \ {"opening"} /\ s.at # "renaming"
       /\ s.at = "writing" =>
             /\ holder'[s.wants] = c
             /\ s.into = IF conn[c].at = "writing" THEN conn[c].into ELSE conn[c].pane
       /\ s.at \in {"waiting", "writing"} =>
             conn[c].at \in {"waiting", "writing"} /\ s.wants = conn[c].wants
  BY <1>5 DEF HasBridge
<1> QED
  BY <1>1, <1>2, <1>3, <1>6, <1>7, <1>8, <1>9, <1>10, <1>11, BridgeMoves

LEMMA WritesKeep ==
    ASSUME IInv, NEW c \in Conns, WriteBegins(c) \/ WriteEnds(c)
    PROVE  IInv'
<1>1. conn[c] \in ConnType /\ born \in Nat /\ made \in Nat
  BY Constants0 DEF IInv, RestOK, NamesOK, LocksOK
<1>2. CASE WriteBegins(c)
  <2>1. /\ holder[conn[c].wants] \in {None, c} /\ conn[c].at = "waiting"
        /\ holder' = [holder EXCEPT ![conn[c].wants] = c]
        /\ UNCHANGED <<tenants, names, mistaken, locks, made, live, scrolling, commands, spent>>
    BY <1>2 DEF WriteBegins, Free
  <2>2. PICK s : s = [conn[c] EXCEPT !.at = "writing", !.into = conn[c].pane] /\ Becomes(c, s)
    BY <1>2 DEF WriteBegins
  <2>3. /\ s \in ConnType /\ s.at = "writing" /\ s.wants = conn[c].wants
        /\ s.session = conn[c].session /\ s.name = conn[c].name
        /\ s.attached = conn[c].attached /\ s.pane = conn[c].pane
        /\ s.lock = conn[c].lock /\ s.into = conn[c].pane
    BY <1>1, <2>2 DEF ConnType, HasBridge
  <2> QED
    BY <2>1, <2>2, <2>3, LockPasses
<1>3. CASE WriteEnds(c)
  <2>1. /\ holder[conn[c].wants] \in {None, c} /\ conn[c].at = "writing"
        /\ holder' = [holder EXCEPT ![conn[c].wants] = None]
        /\ UNCHANGED <<tenants, names, mistaken, locks, made, live, scrolling, commands, spent>>
    BY <1>3 DEF WriteEnds, IInv, GoodConn, Locked
  <2>2. Becomes(c, Ready(conn[c]))
    BY <1>3 DEF WriteEnds
  <2> QED
    BY <1>1, <2>1, <2>2, ReadyIs, LockPasses
<1> QED
  BY <1>2, <1>3

-----------------------------------------------------------------------------
(* Renaming keeps it *)

\* What moves to another name is under that one only.
LEMMA MovedKeepsShape ==
    ASSUME NEW K \in Nat, NEW f \in [Names -> 0..K], Injective(f),
           NEW old \in Names, NEW new \in Names, old # new
    PROVE  /\ Moved(f, old, new, 0) \in [Names -> 0..K]
           /\ Injective(Moved(f, old, new, 0))
           /\ f[old] = 0 => Moved(f, old, new, 0) = f
           /\ f[old] # 0 => \A k \in Names : Moved(f, old, new, 0)[k] =
                               IF k = old THEN 0 ELSE IF k = new THEN f[old] ELSE f[k]
<1>1. CASE f[old] = 0
  BY <1>1 DEF Moved
<1>2. CASE f[old] # 0
  <2> DEFINE g == [f EXCEPT ![new] = f[old], ![old] = 0]
  <2>1. Moved(f, old, new, 0) = g
    BY <1>2 DEF Moved
  <2>2. 0 \in 0..K /\ f[old] \in 0..K
    OBVIOUS
  <2>3. g \in [Names -> 0..K]
    BY <2>2
  <2>4. \A k \in Names : g[k] = IF k = old THEN 0 ELSE IF k = new THEN f[old] ELSE f[k]
    OBVIOUS
  <2> HIDE DEF g
  <2>5. Injective(g)
    BY <2>4 DEF Injective
  <2> QED
    BY <1>2, <2>1, <2>3, <2>4, <2>5
<1> QED
  BY <1>1, <1>2

\* A session is renamed: it has one name then, and the others keep theirs.
LEMMA RenamedIs ==
    ASSUME NEW K \in Nat, tmux \in [Names -> 0..K], Injective(tmux),
           NEW s \in 1..K, NEW kept \in Names, tmux[kept] \in {0, s}
    PROVE  /\ Renamed(s, kept) \in [Names -> 0..K] /\ Injective(Renamed(s, kept))
           /\ \A n \in Names : Renamed(s, kept)[n] =
                 IF n = kept THEN s ELSE IF tmux[n] = s THEN 0 ELSE tmux[n]
<1>1. \A n \in Names : Renamed(s, kept)[n] =
         IF n = kept THEN s ELSE IF tmux[n] = s THEN 0 ELSE tmux[n]
  BY DEF Renamed
<1>2. 0 \in 0..K /\ s \in 0..K /\ s # 0
  OBVIOUS
<1>3. Renamed(s, kept) \in [Names -> 0..K]
  BY <1>2 DEF Renamed
<1>4. Injective(Renamed(s, kept))
  BY <1>1, <1>2 DEF Injective
<1> QED
  BY <1>1, <1>3, <1>4

\* The bridges of the old name learn the new one, and its lock.  Those on a
\* session that is not mistaken are the bridges of the session renamed, which
\* had the old name and has the new one.
LEMMA TransferKeeps ==
    ASSUME IInv, NEW c \in Conns, RenameDone(c),
           NEW old \in Names, NEW new \in Names, NEW kept \in Names, NEW s, old # new,
           s = Found(old, tmux), s # 0, tmux[kept] \in {0, s}, tmux[new] = 0,
           tmux' = Renamed(s, kept),
           mistaken' = mistaken \cup Mistaken(old, s)
                         \cup (IF kept = new THEN {} ELSE {s}),
           ~tenants, Transfer(c, old, new)
    PROVE  IInv'
<1>1. /\ tenants' = tenants /\ born' = born /\ owned' = owned /\ made' = made
      /\ holder' = holder /\ queues' = queues /\ commands' = commands /\ spent' = spent
      /\ conn[c].at = "renaming" /\ mistaken \subseteq mistaken'
      /\ s \notin mistaken' => tmux[old] = s /\ kept = new
  BY DEF RenameDone, Mistaken
<1>2. /\ born \in Nat /\ tmux \in [Names -> 0..born] /\ Injective(tmux)
      /\ made \in Nat /\ locks \in [Names -> 0..made] /\ Injective(locks)
      /\ scroll \in [Names -> 0..Len(queues)] /\ Injective(scroll) /\ Len(queues) \in Nat
      /\ live \in [Names -> SUBSET Conns] /\ conn \in [Conns -> ConnType]
      /\ NamesOK(tmux, owned, born) /\ LocksOK /\ QueuesOK /\ RestOK /\ Met
  BY Constants0, SMTT(40) DEF IInv, NamesOK, LocksOK, QueuesOK, RestOK
<1>3. /\ tmux' \in [Names -> 0..born] /\ Injective(tmux') /\ s \in 1..born
      /\ tmux[old] # 0 => tmux[old] = s
      /\ tmux[new] = 0
      /\ \A k \in Names : tmux'[k] =
            IF k = kept THEN s ELSE IF tmux[k] = s THEN 0 ELSE tmux[k]
  <2>1. s \in 1..born /\ (tmux[old] # 0 => tmux[old] = s)
    <3>1. /\ Found(old, tmux) \in 0..born
          /\ tmux[old] # 0 => Found(old, tmux) = tmux[old]
      <4>1. born \in Nat /\ tmux \in [Names -> 0..born]
        BY <1>2
      <4> QED
        BY <4>1, FoundIs
    <3> QED
      BY <1>2, <3>1
  <2>2. tmux \in [Names -> 0..born] /\ Injective(tmux) /\ born \in Nat
    BY <1>2
  <2>3. /\ Renamed(s, kept) \in [Names -> 0..born] /\ Injective(Renamed(s, kept))
        /\ \A k \in Names : Renamed(s, kept)[k] =
              IF k = kept THEN s ELSE IF tmux[k] = s THEN 0 ELSE tmux[k]
    BY <2>1, <2>2, RenamedIs
  <2> QED
    BY <2>1, <2>3
<1>4. /\ locks' \in [Names -> 0..made] /\ Injective(locks')
      /\ locks[old] = 0 => locks' = locks
      /\ locks[old] # 0 => \A k \in Names : locks'[k] =
            IF k = old THEN 0 ELSE IF k = new THEN locks[old] ELSE locks[k]
  <2>1. PICK K \in Nat : K = made
    BY <1>2
  <2>2. PICK f \in [Names -> 0..K] : f = locks
    BY <1>2, <2>1
  <2>3. Injective(f) /\ locks' = Moved(f, old, new, 0)
    BY <1>2, <2>2 DEF Transfer
  <2>4. /\ Moved(f, old, new, 0) \in [Names -> 0..K]
        /\ Injective(Moved(f, old, new, 0))
    BY <2>3, MovedKeepsShape
  <2>5. /\ f[old] = 0 => Moved(f, old, new, 0) = f
        /\ f[old] # 0 => \A k \in Names : Moved(f, old, new, 0)[k] =
                            IF k = old THEN 0 ELSE IF k = new THEN f[old] ELSE f[k]
    BY <2>3, MovedKeepsShape
  <2> QED
    BY <2>1, <2>2, <2>3, <2>4, <2>5
<1>5. scroll' \in [Names -> 0..Len(queues)] /\ Injective(scroll')
  BY <1>2, MovedKeepsShape DEF Transfer
<1>6. /\ live' \in [Names -> SUBSET Conns]
      /\ live'[old] = {} /\ live'[new] = live[new] \cup live[old]
      /\ \A k \in Names \ {old, new} : live'[k] = live[k]
  BY <1>2 DEF Transfer
<1>7. \A d \in Conns : GoodConn(d)
  BY DEF IInv
\* What the connections are after the step.
<1>8. \A d \in Conns : d \in live[old] =>
         /\ conn'[d].session = new /\ conn'[d].name = new
         /\ conn'[d].lock = (IF locks[old] = 0 THEN conn[d].lock ELSE locks[old])
  <2> TAKE d \in Conns
  <2>1. conn[d] \in ConnType
    BY <1>2
  <2> QED
    BY <1>2, <2>1 DEF Transfer, TransferConns, Ready, ConnType
<1>9. \A d \in Conns : d \notin live[old] =>
         /\ conn'[d].session = conn[d].session /\ conn'[d].name = conn[d].name
         /\ conn'[d].lock = conn[d].lock
  <2> SUFFICES ASSUME NEW d \in Conns, d \notin live[old]
               PROVE  /\ conn'[d].session = conn[d].session /\ conn'[d].name = conn[d].name
                      /\ conn'[d].lock = conn[d].lock
    OBVIOUS
  <2>1. conn[d] \in ConnType
    BY <1>2
  <2>2. PICK F : F = TransferConns(old, new)
    OBVIOUS
  <2>3. F[d] = conn[d] /\ DOMAIN F = Conns
    BY <2>2 DEF TransferConns
  <2>4. conn' = [F EXCEPT ![c] = Ready(F[c])]
    BY <2>2 DEF Transfer
  <2>5. conn'[d] = IF d = c THEN Ready(conn[d]) ELSE conn[d]
    BY <2>3, <2>4
  <2> QED
    BY <1>2, <2>1, <2>5, ReadyIs
<1>10. \A d \in Conns :
         /\ conn'[d].at = (IF d = c THEN "ready" ELSE conn[d].at)
         /\ conn'[d].attached = conn[d].attached /\ conn'[d].pane = conn[d].pane
         /\ d # c => /\ conn'[d].into = conn[d].into
                     /\ conn'[d].wants = conn[d].wants /\ conn'[d].queue = conn[d].queue
                     /\ conn'[d].task = conn[d].task /\ conn'[d].target = conn[d].target
                     /\ conn'[d].later = conn[d].later /\ conn'[d].victim = conn[d].victim
  <2> TAKE d \in Conns
  <2>1. conn[d] \in ConnType
    BY <1>2
  <2> QED
    BY <1>2, <2>1 DEF Transfer, TransferConns, Ready, ConnType
<1>11. conn' \in [Conns -> ConnType]
  <2> DEFINE told == TransferConns(old, new)
  <2>1. locks[old] \in 0..made /\ new \in Names \cup {NoName}
    BY <1>2
  <2>2. \A d \in Conns : told[d] \in ConnType
    <3> TAKE d \in Conns
    <3>1. conn[d] \in ConnType
      BY <1>2
    <3> QED
      BY <2>1, <3>1 DEF TransferConns, ConnType
  <2>3. told \in [Conns -> ConnType]
    BY <2>2 DEF TransferConns
  <2>4. conn' = [told EXCEPT ![c] = Ready(told[c])]
    BY DEF Transfer
  <2> HIDE DEF told
  <2>5. Ready(told[c]) \in ConnType
    BY <1>2, <2>2, ReadyIs
  <2> QED
    BY <2>3, <2>4, <2>5
<1>12. ConnType' = ConnType /\ QueueType' = QueueType
  BY <1>1 DEF ConnType, QueueType
<1>13. \A d \in Conns : GoodConn(d)'
  <2> SUFFICES ASSUME NEW d \in Conns PROVE GoodConn(d)'
    OBVIOUS
  <2>1. /\ conn'[d].at \in HasBridge <=> conn[d].at \in HasBridge
        /\ conn'[d].at = "opening" <=> conn[d].at = "opening"
        /\ conn'[d].at = "writing" => conn[d].at = "writing"
        /\ conn'[d].at \in {"waiting", "writing"} => conn[d].at \in {"waiting", "writing"}
        /\ conn'[d].at = "closing" => conn[d].at = "closing"
        /\ conn'[d].at = "renaming" => conn[d].at = "renaming"
        /\ conn'[d].at = "closed" <=> conn[d].at = "closed"
    BY <1>1, <1>10 DEF HasBridge
  <2>2. d \in live[old] => conn[d].at \in HasBridge /\ conn[d].name = old
    BY <1>7 DEF GoodConn, Follows
  <2>3. Knows(d)'
    BY <1>1, <1>7, <1>8, <1>9, <1>10, <2>1, <2>2 DEF GoodConn, Knows
  <2>4. (conn'[d].at \in HasBridge /\ Certain(conn[d].attached)') =>
           /\ Certain(conn[d].attached) /\ conn[d].attached # 0
           /\ tmux[conn[d].name] = conn[d].attached
           /\ d \in live[old] <=> conn[d].attached = s
           /\ d \in live[old] => kept = new
           /\ d \notin live[old] => conn[d].name \notin {old, new, kept}
    <3> HAVE conn'[d].at \in HasBridge /\ Certain(conn[d].attached)'
    <3>1. PICK k \in Names : tmux'[k] = conn[d].attached
      BY <1>10 DEF Certain, Alive
    <3>2. /\ conn[d].attached # 0 /\ conn[d].attached \notin mistaken'
          /\ conn[d].attached \notin mistaken
      BY <1>1, <1>10 DEF Certain, Alive
    <3>3. conn[d].attached = s => tmux[old] = s /\ kept = new
      BY <1>1, <3>2
    <3>4. \E n \in Names : tmux[n] = conn[d].attached
      BY <1>3, <3>1, <3>3
    <3>5. Certain(conn[d].attached) /\ tmux[conn[d].name] = conn[d].attached
          /\ conn[d].name \in Names
      BY <1>7, <2>1, <3>2, <3>4 DEF Certain, Alive, GoodConn, Knows, Follows
    <3>6. d \in live[old] <=> conn[d].name = old
      BY <1>7, <2>1 DEF GoodConn, Follows
    <3>7. conn[d].attached = s <=> conn[d].name = old
      <4>1. tmux[old] = conn[d].attached => conn[d].name = old
        BY <1>2, <3>2, <3>5 DEF Injective
      <4>2. conn[d].name = old => conn[d].attached = s
        BY <1>3, <3>2, <3>5
      <4> QED
        BY <3>3, <4>1, <4>2
    <3>8. conn[d].name # old => conn[d].name \notin {new, kept}
      BY <1>3, <3>2, <3>5, <3>7
    <3> QED
      BY <3>2, <3>3, <3>5, <3>6, <3>7, <3>8
  <2>5. Follows(d)'
    <3>1. \A n \in Names :
             d \in live'[n] <=> (conn'[d].at \in HasBridge /\ n = conn'[d].name)
      <4>1. CASE d \in live[old]
        BY <1>6, <1>7, <1>8, <2>1, <2>2, <4>1 DEF GoodConn, Follows
      <4>2. CASE d \notin live[old]
        BY <1>6, <1>7, <1>9, <2>1, <4>2 DEF GoodConn, Follows
      <4> QED
        BY <4>1, <4>2
    <3>2. (conn'[d].at \in HasBridge /\ Certain(conn[d].attached)')
             => tmux'[conn'[d].name] = conn'[d].attached
      <4> HAVE conn'[d].at \in HasBridge /\ Certain(conn[d].attached)'
      <4>1. CASE d \in live[old]
        BY <1>3, <1>8, <1>10, <2>4, <4>1
      <4>2. CASE d \notin live[old]
        <5>1. conn[d].name \in Names
          BY <1>7, <2>1 DEF GoodConn, Knows
        <5> QED
          BY <1>3, <1>9, <1>10, <2>4, <4>2, <5>1
      <4> QED
        BY <4>1, <4>2
    <3>3. conn'[d].at \in HasBridge => conn'[d].session = conn'[d].name
      BY <1>7, <1>8, <1>9, <1>10, <2>1 DEF GoodConn, Follows
    <3>4. (conn'[d].at \in HasBridge /\ Certain(conn[d].attached)' /\ conn'[d].at # "opening")
             => Meant(d, conn[d].pane)'
      BY <1>1, <1>7, <1>10, <2>1, <2>4 DEF GoodConn, Follows, Meant
    <3> QED
      BY <1>10, <3>1, <3>2, <3>3, <3>4 DEF Follows
  <2>6. Locked(d)'
    <3>1. (conn'[d].at \in HasBridge /\ Certain(conn[d].attached)') =>
             conn'[d].lock = conn[d].lock /\ conn'[d].lock = locks'[conn'[d].name]
      <4> HAVE conn'[d].at \in HasBridge /\ Certain(conn[d].attached)'
      <4>1. /\ conn[d].at \in HasBridge /\ conn[d].lock = locks[conn[d].name]
            /\ conn[d].lock # 0 /\ conn[d].name \in Names
        BY <1>7, <2>1, <2>4 DEF GoodConn, Locked, Knows, HasBridge
      <4>2. CASE d \in live[old]
        BY <1>4, <1>8, <2>2, <4>1, <4>2
      <4>3. CASE d \notin live[old]
        BY <1>4, <1>9, <2>4, <4>1, <4>3
      <4> QED
        BY <4>2, <4>3
    <3>2. conn'[d].at = "writing" => holder'[conn'[d].wants] = d
      BY <1>1, <1>7, <1>10, <2>1 DEF GoodConn, Locked
    <3>3. (conn'[d].at \in {"waiting", "writing"} /\ Certain(conn[d].attached)') =>
             /\ conn'[d].wants = conn[d].lock
             /\ conn'[d].at = "writing" => Meant(d, conn[d].into)'
      BY <1>1, <1>7, <1>10, <2>1, <2>4 DEF GoodConn, Locked, HasBridge, Meant
    <3> QED
      BY <1>10, <3>1, <3>2, <3>3 DEF Locked, HasBridge
  <2>7. Spaced(d)'
    BY <1>1 DEF Spaced
  <2> QED
    BY <2>3, <2>5, <2>6, <2>7 DEF GoodConn
<1>14. NamesOK(tmux, owned, born)'
  BY <1>1, <1>2, <1>3 DEF NamesOK, Claimed, Injective
<1>15. LocksOK'
  BY <1>1, <1>2, <1>4 DEF LocksOK, Injective
<1>16. QueuesOK'
  BY <1>1, <1>2, <1>5, <1>12 DEF QueuesOK, Injective
<1>17. RestOK'
  <2>1. mistaken' \subseteq 1..born
    BY <1>2, <1>3 DEF RestOK, Mistaken
  <2> QED
    BY <1>1, <1>2, <1>6, <1>11, <1>12, <2>1 DEF RestOK
<1>18. Met'
  <2>1. Met /\ queues' = queues /\ conn[c].at # "settling"
    BY <1>1, <1>2
  <2>2. \A d \in Conns : conn[d].at = "settling" =>
           /\ conn'[d].at = "settling" /\ conn'[d].queue = conn[d].queue
           /\ conn'[d].task = conn[d].task
    BY <1>10, <2>1
  <2> QED
    BY <2>1, <2>2 DEF Met
<1> QED
  BY <1>13, <1>14, <1>15, <1>16, <1>17, <1>18 DEF IInv

\* A rename that comes to nothing, for the bridges at least.
LEMMA RenameEnds ==
    ASSUME IInv, NEW c \in Conns, conn[c].at = "renaming",
           Becomes(c, Ready(conn[c])),
           TmuxStep, NamesOK(tmux', owned', born'), MistakenGrows,
           tenants' = tenants, born' = born, locks' = locks, made' = made,
           holder' = holder, live' = live, scroll' = scroll, queues' = queues,
           commands' = commands, spent' = spent
    PROVE  IInv'
<1>1. PICK s : s = Ready(conn[c]) /\ Becomes(c, s)
  OBVIOUS
<1>2. /\ UNCHANGED writing /\ live' = live /\ UNCHANGED scrolling
      /\ commands' = commands /\ spent' = spent /\ tenants' = tenants
      /\ queues' = queues /\ born' = born /\ made' = made /\ holder' = holder
  BY DEF writing, scrolling
<1>3. conn[c] \in ConnType /\ born \in Nat /\ made \in Nat
  BY Constants0 DEF IInv, RestOK, NamesOK, LocksOK
<1>4. /\ s \in ConnType /\ s.at = "ready"
      /\ s.session = conn[c].session /\ s.name = conn[c].name
      /\ s.attached = conn[c].attached /\ s.pane = conn[c].pane
      /\ s.lock = conn[c].lock
  BY <1>1, <1>3, ReadyIs
<1>5. s \in ConnType'
  BY <1>2, <1>4 DEF ConnType
<1>6. Met'
  BY <1>1, <1>2, MetStays
<1>7. /\ born \in 0..born' /\ born' \in Nat
      /\ LocksOK' /\ LocksStep /\ made \in 0..made'
      /\ \A d \in Conns : conn[d].at = "writing" => holder'[conn[d].wants] = d
  BY <1>2, <1>3, LocksStay, WritersStay
<1>8. QueuesOK' /\ Len(queues) \in 0..Len(queues')
  BY <1>2, <1>7, QueuesStay
<1>9. /\ conn[c].at \in HasBridge \ {"opening"} /\ s.at \in HasBridge \ {"opening"}
      /\ s.at \notin {"renaming", "waiting", "writing"}
  BY <1>4 DEF HasBridge
<1> QED
  BY <1>1, <1>2, <1>4, <1>5, <1>6, <1>7, <1>8, <1>9, BridgeMoves

LEMMA RenameDoneKeeps ==
    ASSUME IInv, NEW c \in Conns, RenameDone(c)
    PROVE  IInv'
<1>1. PICK old \in Names, new \in Names : old = conn[c].victim /\ new = conn[c].target
  BY DEF IInv, GoodConn, Knows, RenameDone
<1>2. PICK kept, s : kept \in Names /\ kept = Kept[new] /\ s = Found(old, tmux)
  <2>1. Kept[new] \in Names
    BY Constants0
  <2> QED
    BY <2>1
<1>3. /\ tenants' = tenants /\ born' = born /\ owned' = owned /\ made' = made
      /\ holder' = holder /\ queues' = queues /\ commands' = commands /\ spent' = spent
      /\ conn[c].at = "renaming" /\ ~tenants
  BY DEF RenameDone, IInv, GoodConn, Knows
<1>4. CASE \/ (old # new /\ Exists(new)) \/ s = 0 \/ tmux[kept] \notin {0, s}
  <2>1. /\ Becomes(c, Ready(conn[c]))
        /\ UNCHANGED <<tmux, mistaken, locks, scroll, live>>
    BY <1>1, <1>2, <1>4 DEF RenameDone
  <2>2. TmuxStep /\ NamesOK(tmux', owned', born') /\ MistakenGrows
    BY <1>3, <2>1, NamesStay, QuietMistaken DEF names
  <2> QED
    BY <1>3, <2>1, <2>2, RenameEnds
<1>5. CASE ~((old # new /\ Exists(new)) \/ s = 0 \/ tmux[kept] \notin {0, s})
  <2>1. /\ tmux' = Renamed(s, kept)
        /\ mistaken' = mistaken \cup Mistaken(old, s)
                          \cup (IF kept = new THEN {} ELSE {s})
        /\ IF old # new THEN Transfer(c, old, new)
           ELSE /\ Becomes(c, Ready(conn[c]))
                /\ UNCHANGED <<locks, scroll, live>>
    BY <1>1, <1>2, <1>5 DEF RenameDone
  <2>2. CASE old # new
    <3>1. tmux[new] = 0
      BY <1>5, <2>2 DEF Exists, Reached, Found
    <3> QED
      BY <1>2, <1>3, <1>5, <2>1, <2>2, <3>1, TransferKeeps
  <2>3. CASE old = new
    <3>1. /\ born \in Nat /\ tmux \in [Names -> 0..born] /\ Injective(tmux)
          /\ mistaken \subseteq 1..born /\ NamesOK(tmux, owned, born)
      BY Constants0 DEF IInv, NamesOK, RestOK
    <3>2. s \in 1..born
      <4>1. s \in 0..born
        BY <1>2, <3>1, FoundIs
      <4> QED
        BY <1>5, <3>1, <4>1
    <3>3. /\ tmux' \in [Names -> 0..born] /\ Injective(tmux')
          /\ \A n \in Names : tmux'[n] =
                IF n = kept THEN s ELSE IF tmux[n] = s THEN 0 ELSE tmux[n]
      <4>1. /\ tmux \in [Names -> 0..born] /\ Injective(tmux) /\ born \in Nat
            /\ kept \in Names /\ tmux[kept] \in {0, s}
        BY <1>2, <1>5, <3>1
      <4>2. /\ Renamed(s, kept) \in [Names -> 0..born] /\ Injective(Renamed(s, kept))
            /\ \A n \in Names : Renamed(s, kept)[n] =
                  IF n = kept THEN s ELSE IF tmux[n] = s THEN 0 ELSE tmux[n]
        BY <3>2, <4>1, RenamedIs
      <4> QED
        BY <2>1, <4>2
    <3>4. s \in mistaken' \/ tmux[kept] = s
      BY <2>1, <2>3 DEF Mistaken
    <3>5. TmuxStep
      BY <3>3, <3>4 DEF TmuxStep
    <3>6. MistakenGrows
      BY <1>3, <2>1, <3>1, <3>2 DEF MistakenGrows, Mistaken
    <3>7. NamesOK(tmux', owned', born')
      BY <1>3, <3>1, <3>3 DEF NamesOK, Claimed
    <3> QED
      BY <1>3, <2>1, <2>3, <3>5, <3>6, <3>7, RenameEnds
  <2> QED
    BY <2>2, <2>3
<1> QED
  BY <1>4, <1>5

-----------------------------------------------------------------------------
(* The invariant holds, and what follows from it *)

LEMMA InitHolds == Init => IInv
<1> SUFFICES ASSUME Init PROVE IInv
  OBVIOUS
<1>1. /\ born = 0 /\ mistaken = {} /\ made = 0 /\ holder = <<>> /\ queues = <<>>
      /\ commands = 0 /\ spent = 0 /\ tenants \in BOOLEAN
      /\ tmux = [n \in Names |-> 0] /\ locks = [n \in Names |-> 0]
      /\ scroll = [n \in Names |-> 0] /\ owned = [u \in Users |-> {}]
      /\ live = [n \in Names |-> {}] /\ conn = [c \in Conns |-> NewConn]
  BY DEF Init
<1>2. 0 \in 0..0 /\ Len(queues) = 0 /\ Len(holder) = 0
  BY <1>1
<1>3. NamesOK(tmux, owned, born)
  <2>1. tmux \in [Names -> 0..0] /\ Injective(tmux)
    BY <1>1, <1>2 DEF Injective
  <2>2. owned \in [Users -> SUBSET Names] /\ Claimed(tmux, owned)
    BY <1>1 DEF Claimed
  <2>3. born \in 0..MaxBorn
    BY <1>1, Constants0
  <2> QED
    BY <1>1, <2>1, <2>2, <2>3 DEF NamesOK
<1>4. LocksOK
  BY <1>1, <1>2 DEF LocksOK, Injective
<1>5. QueuesOK
  BY <1>1, <1>2 DEF QueuesOK, Injective
<1>6. RestOK
  <2>1. NewConn \in ConnType
    BY <1>1, <1>2 DEF NewConn, ConnType
  <2>2. commands \in 0..MaxCommands /\ spent \in 0..MaxEvents
    BY <1>1, Constants0
  <2> QED
    BY <1>1, <2>1, <2>2 DEF RestOK
<1>7. \A c \in Conns : GoodConn(c)
  <2> SUFFICES ASSUME NEW c \in Conns PROVE GoodConn(c)
    OBVIOUS
  <2>1. conn[c].at = "closed" /\ \A n \in Names : c \notin live[n]
    BY <1>1 DEF NewConn
  <2>2. conn[c].at \notin HasBridge
    BY <2>1 DEF HasBridge
  <2> QED
    BY <2>1, <2>2 DEF GoodConn, Knows, Follows, Locked, Spaced
<1>8. Met
  BY <1>1 DEF Met
<1> QED
  BY <1>3, <1>4, <1>5, <1>6, <1>7, <1>8 DEF IInv

LEMMA StepHolds == IInv /\ [Next]_vars => IInv'
<1> SUFFICES ASSUME IInv, [Next]_vars PROVE IInv'
  OBVIOUS
<1>1. ASSUME NEW c \in Conns,
             \/ Connect(c) \/ Leave(c) \/ SwitchSession(c) \/ NewTab(c)
             \/ RenameLabel(c) \/ RenameTab(c) \/ KillOther(c) \/ KillOwn(c)
             \/ ScrollHistory(c) \/ Settle(c)
      PROVE  IInv'
  BY <1>1, ConnectKeeps, LeaveKeeps, SwitchSessionKeeps, NewTabKeeps,
     RenameLabelKeeps, RenameTabKeeps, KillOtherKeeps, KillOwnKeeps,
     ScrollHistoryKeeps, SettleKeeps
<1>2. ASSUME NEW c \in Conns, Steps(c)
      PROVE  IInv'
  BY <1>2, OpenedKeeps, OpenFailsKeeps, ClosedKeeps, SwitchClosesKeeps,
     FollowPaneKeeps, RenameDoneKeeps, KillSendsKeeps, SettledKeeps, WritesKeep DEF Steps
<1>3. CASE UNCHANGED vars
  <2>1. /\ UNCHANGED names /\ UNCHANGED writing /\ UNCHANGED <<scrolling, conn>>
        /\ live' = live /\ conn' = conn /\ tenants' = tenants
        /\ commands' = commands /\ spent' = spent
        /\ born' = born /\ made' = made /\ holder' = holder /\ mistaken' = mistaken
    BY <1>3 DEF vars, names, writing
  <2>2. NamesOK(tmux', owned', born') /\ TmuxStep /\ born \in 0..born' /\ born' \in Nat
    BY <2>1, NamesStay, Constants0 DEF NamesOK
  <2> QED
    BY <2>1, <2>2, QueuesRest, LocksStay, NobodyMoves
<1> QED
  BY <1>1, <1>2, <1>3, ExitsKeeps, StartedKeeps, DrainKeeps, DrainFailsKeeps DEF Next

LEMMA InvariantHolds == Spec => []IInv
BY InitHolds, StepHolds, PTL DEF Spec

\* The shape of the state: no session has two names and no lock and no queue is
\* kept under two, through every transfer_single_tenant_session_state.
THEOREM SessionsTypes == Spec => []TypeOK
<1>1. IInv => TypeOK
  <2> SUFFICES ASSUME IInv PROVE TypeOK
    OBVIOUS
  <2>1. /\ NamesOK(tmux, owned, born) /\ LocksOK /\ QueuesOK /\ RestOK
    BY DEF IInv
  <2>2. holder \in [1..made -> Conns \cup {None}]
    BY <2>1 DEF LocksOK
  <2>3. \A i \in DOMAIN queues : queues[i] \in QueueType
    BY <2>1 DEF QueuesOK
  <2> QED
    BY <2>1, <2>2, <2>3 DEF TypeOK, NamesOK, LocksOK, QueuesOK, RestOK
<1> QED
  BY <1>1, InvariantHolds, PTL

\* Two connections on sessions no command mistook for others never write to one
\* such session at once, however often its name changes hands and whatever names
\* tmux takes for each other: terminal_write_lock and the lock that TmuxBridge
\* took from it stay one and the same.
THEOREM OneWriterAtOnce == Spec => []OneWriter
<1>1. IInv => OneWriter
  <2> SUFFICES ASSUME IInv, NEW c \in Conns, NEW d \in Conns, c # d,
                      conn[c].at = "writing", conn[d].at = "writing",
                      Certain(conn[c].attached), Certain(conn[d].attached),
                      conn[c].into = conn[d].into, Certain(conn[c].into)
               PROVE  FALSE
    BY DEF OneWriter
  <2>1. GoodConn(c) /\ GoodConn(d) /\ Injective(tmux) /\ conn[c].attached # 0
    BY DEF IInv, NamesOK, Certain, Alive
  <2>2. /\ conn[c].name \in Names /\ tmux[conn[c].name] = conn[c].attached
        /\ conn[d].name \in Names /\ tmux[conn[d].name] = conn[d].attached
    BY <2>1 DEF GoodConn, Knows, Follows, HasBridge
  <2>3. conn[c].into = conn[c].attached /\ conn[d].into = conn[d].attached
    BY <2>1 DEF GoodConn, Locked, Meant, Certain, HasBridge
  <2>4. conn[c].name = conn[d].name
    BY <2>1, <2>2, <2>3 DEF Injective
  <2>5. /\ conn[c].wants = locks[conn[c].name] /\ holder[conn[c].wants] = c
        /\ conn[d].wants = locks[conn[d].name] /\ holder[conn[d].wants] = d
    BY <2>1 DEF GoodConn, Locked, HasBridge
  <2> QED
    BY <2>4, <2>5
<1> QED
  BY <1>1, InvariantHolds, PTL

\* A bridge is registered under its own name and no other, and as long as its
\* session lives, and was not mistaken for another, the name stands for it,
\* through the renames, kills and births that happen while open_live_terminal,
\* switch_session and kill-session wait; its pane is then in that session, or in
\* one the look-up of watch_tabs mistook.
THEOREM NamesFollow == Spec => []NameFollows
<1>1. IInv => NameFollows
  BY DEF IInv, GoodConn, Follows, Meant, NameFollows
<1> QED
  BY <1>1, InvariantHolds, PTL

\* With several tenants nobody is on a living session he may not see unless tmux
\* took one name for another, whatever numbers there are and whoever claims what:
\* resolve_user_session, new-tab and kill-session never leave a bridge on a
\* session of another's name space, and the claims never contradict the name
\* spaces.
THEOREM TenantsStayApart == Spec => []TenantsApart
<1>1. IInv => TenantsApart
  <2> SUFFICES ASSUME IInv, tenants, NEW c \in Conns, conn[c].at \in HasBridge,
                      Certain(conn[c].attached)
               PROVE  conn[c].name \in Visible(c)
    BY DEF TenantsApart
  <2>1. GoodConn(c) /\ NamesOK(tmux, owned, born) /\ UserOf[c] \in Users
    BY Constants0 DEF IInv
  <2>2. tmux[conn[c].name] # 0 /\ conn[c].name \in SpaceOf(UserOf[c])
    BY <2>1 DEF GoodConn, Follows, Spaced, Certain, Alive
  <2> QED
    BY <2>1, <2>2, VisibleIsOwn DEF Visible
<1> QED
  BY <1>1, InvariantHolds, PTL

\* Input waits for the write lock only once every tmux call it met has returned:
\* settle_scroll_history waits for the drain task of that call, under whatever
\* name its queue is kept by then.
THEOREM InputIsAfterScroll == Spec => []InputAfterScroll
<1>1. IInv => InputAfterScroll
  BY DEF IInv, Met, InputAfterScroll
<1> QED
  BY <1>1, InvariantHolds, PTL

-----------------------------------------------------------------------------
(* What the exceptions come to *)

\* No name begins or matches another, tmux keeps every name as it is given, and
\* takes none for a window or a pane.
PlainNames == /\ \A n \in Names : Longer[n] = {} /\ Kept[n] = n
              /\ Windows = {}

\* A session is mistaken for another only where names are not plain: no order of
\* renames, kills, births and switches makes attach-session, display-message or
\* rename-session meet another session than the one of the name given.  OneWriter,
\* NameFollows and TenantsApart then have no exceptions but for the dead.
THEOREM NothingMistaken == Spec => [](PlainNames => mistaken = {})
<1>1. Init => (PlainNames => mistaken = {})
  BY DEF Init
<1>2. IInv /\ (PlainNames => mistaken = {}) /\ [Next]_vars
         => (PlainNames => mistaken = {})'
  <2> SUFFICES ASSUME IInv, mistaken = {}, [Next]_vars, PlainNames PROVE mistaken' = {}
    BY DEF PlainNames
  <2>1. \A n \in Names : /\ Mistaken(n, Found(n, tmux)) = {}
                          /\ \A p \in Panes(n, tmux) : Mistaken(n, p) = {}
    <3>1. \A n \in Names : /\ Found(n, tmux) = tmux[n]
                            /\ \A p \in Panes(n, tmux) : p = tmux[n]
      BY DEF PlainNames, Found, Panes
    <3> QED
      BY <3>1 DEF Mistaken
  <2>2. ASSUME NEW c \in Conns, NEW n \in Names, NEW new, OpenBridge(c, n, new)
        PROVE  mistaken' = {}
    BY <2>1, <2>2 DEF OpenBridge
  <2>3. ASSUME NEW c \in Conns, Connect(c) PROVE mistaken' = {}
    <3>1. PICK requested \in Names \cup {NoName} :
             \E r \in Resolved(UserOf[c], requested, tmux, owned) :
                r.name # NoName /\ OpenBridge(c, r.name, r.now \/ r.later)
      BY <2>3 DEF Connect
    <3>2. PICK r \in Resolved(UserOf[c], requested, tmux, owned) :
             r.name # NoName /\ OpenBridge(c, r.name, r.now \/ r.later)
      BY <3>1
    <3>3. r.name \in Names
      BY <3>2, ResolvedIsOwn, Constants0 DEF IInv
    <3> QED
      BY <2>2, <3>2, <3>3
  <2>4. ASSUME NEW c \in Conns, SwitchCloses(c) PROVE mistaken' = {}
    <3>1. conn[c].target \in Names
      BY <2>4 DEF SwitchCloses, IInv, GoodConn, Knows
    <3> QED
      BY <2>2, <2>4, <3>1 DEF SwitchCloses
  <2>5. ASSUME NEW c \in Conns, Opened(c) \/ FollowPane(c) PROVE mistaken' = {}
    <3>1. conn[c].name \in Names /\ conn[c].session = conn[c].name
      BY <2>5 DEF Opened, FollowPane, IInv, GoodConn, Knows, Follows, HasBridge
    <3> QED
      BY <2>1, <2>5, <3>1 DEF Opened, FollowPane
  <2>6. ASSUME NEW c \in Conns, RenameDone(c) PROVE mistaken' = {}
    <3>1. conn[c].victim \in Names /\ conn[c].target \in Names
      BY <2>6 DEF RenameDone, IInv, GoodConn, Knows
    <3>2. /\ Kept[conn[c].target] = conn[c].target
          /\ Mistaken(conn[c].victim, Found(conn[c].victim, tmux)) = {}
      BY <2>1, <3>1 DEF PlainNames
    <3> QED
      BY <2>6, <3>2 DEF RenameDone
  <2>7. ASSUME NEW c \in Conns,
               \/ Leave(c) \/ SwitchSession(c) \/ NewTab(c) \/ RenameLabel(c)
               \/ RenameTab(c) \/ KillOther(c) \/ KillOwn(c) \/ ScrollHistory(c)
               \/ Settle(c) \/ OpenFails(c) \/ Closed(c) \/ KillSends(c)
               \/ Settled(c) \/ WriteBegins(c) \/ WriteEnds(c)
        PROVE  mistaken' = {}
    BY <2>7 DEF Leave, SwitchSession, NewTab, RenameLabel, RenameTab, KillOther,
       KillOwn, ScrollHistory, Settle, OpenFails, Closed, KillSends, Settled,
       WriteBegins, WriteEnds
  <2>8. CASE Exits \/ Started \/ Drain \/ DrainFails \/ UNCHANGED vars
    BY <2>8 DEF Exits, Started, Drain, DrainFails, vars
  <2> QED
    BY <2>3, <2>4, <2>5, <2>6, <2>7, <2>8 DEF Next, Steps
<1> QED
  BY <1>1, <1>2, InvariantHolds, PTL DEF Spec
=============================================================================
