--------------------------- MODULE ProfilesProofs ---------------------------
(***************************************************************************)
(* Proofs about Profiles: the shape of the state, who a connection may act *)
(* as, what a refusal falls back to, which challenge is found again and    *)
(* how often a device enrolls.                                             *)
(***************************************************************************)
EXTENDS Profiles, FiniteSetTheorems, WellFoundedInduction, TLAPS

-----------------------------------------------------------------------------
(* The inductive invariant *)

\* Where a connection stands says what it has: a profile from the moment it
\* chose one, of a realm with passkeys while it shows one, the principal it
\* registers for, and a previous profile it may fall back to.
Standing(s) ==
    /\ s.at # "closed" => s.profile \in Profiles
    /\ s.at \in {"device", "passkey"} => RealmOf[s.profile] \in PasskeyRealms
    /\ s.at = "token" => RealmOf[s.profile] \notin PasskeyRealms
    /\ s.at = "passkey" => s.challenge # 0
    /\ (s.at = "passkey" /\ s.mode = "register") => s.bootstrap \in Principals
    /\ (\E r \in Realms : s.authorized[r] # None) =>
          s.previous # None /\ s.authorized[RealmOf[s.previous]] # None

\* A pending enrollment is for the realm it is kept under.
Filed(s) ==
    /\ \A r \in Realms : s.enrollments[r] = NoEnrollment \/ s.enrollments[r].realm = r
    /\ IsFiniteSet(s.tickets)

ConnOK(s, n) == s \in ConnType(n) /\ Standing(s) /\ Filed(s)

\* No two connections wait with the same challenge.
OwnChallenge ==
    \A c, d \in Conns :
       (conn[c].at = "passkey" /\ conn[d].at = "passkey"
          /\ conn[c].challenge = conn[d].challenge) => c = d

ConnsOK == /\ conn \in [Conns -> ConnType(issued)]
           /\ \A c \in Conns : Standing(conn[c]) /\ Filed(conn[c])
           /\ OwnChallenge

\* Records told apart by their numbers.
Numbered(S) == /\ IsFiniteSet(S)
               /\ \A d \in S : d.id \in Nat
               /\ \A d, e \in S : d.id = e.id => d = e
StoreOK == /\ challenges \subseteq ChallengeType(issued)
           /\ Numbered(challenges)
           /\ Cardinality(challenges) <= MaxChallenges

\* A realm with passkeys has an owner.
Owned == \A r \in Realms : store[r].credentials # {} => store[r].user # None

TypeInv == TypeOK /\ ConnsOK /\ StoreOK /\ Owned

-----------------------------------------------------------------------------
(* The store of challenges *)

LEMMA LeastNumber ==
    ASSUME NEW N \in SUBSET Nat, N # {}
    PROVE  \E m \in N : \A k \in N : m <= k
<1> DEFINE Less == {ss \in Nat \X Nat : ss[1] < ss[2]}
<1>1. IsWellFoundedOn(Less, Nat)
  BY NatLessThanWellFounded DEF OpToRel
<1>2. ASSUME NEW x \in Nat, NEW y \in Nat, <<y, x>> \notin Less PROVE x <= y
  BY <1>2
<1>3. PICK x \in N : \A y \in N : <<y, x>> \notin Less
  <2> HIDE DEF Less
  <2> QED
    BY <1>1, WFMin
<1> HIDE DEF Less
<1> QED
  BY <1>2, <1>3

\* The newest n of a set are n at most.
LEMMA NewestAreFew ==
    ASSUME NEW S, Numbered(S), NEW n \in Nat
    PROVE  /\ Newest(S, n) \subseteq S
           /\ IsFiniteSet(Newest(S, n)) /\ Cardinality(Newest(S, n)) <= n
<1> DEFINE N == Newest(S, n)
<1>1. N \subseteq S /\ IsFiniteSet(S)
  BY DEF Newest, Numbered
<1>2. IsFiniteSet(N)
  BY <1>1, FS_Subset
<1>3. CASE N = {}
  BY <1>1, <1>3, FS_EmptySet
<1>4. CASE N # {}
  <2>1. {d.id : d \in N} \in SUBSET Nat /\ {d.id : d \in N} # {}
    BY <1>1, <1>4 DEF Numbered
  <2>2. PICK k \in {d.id : d \in N} : \A l \in {d.id : d \in N} : k <= l
    BY <2>1, LeastNumber
  <2>3. PICK m \in N : \A d \in N : m.id <= d.id
    BY <2>2
  <2> DEFINE G == {d \in S : d.id > m.id}
  <2>4. Cardinality(G) < n /\ G \in SUBSET S
    BY <2>3 DEF Newest
  <2>5. N \ {m} \subseteq G
    BY <1>1, <2>3 DEF Numbered
  <2>6. IsFiniteSet(G) /\ Cardinality(G) \in Nat
    BY <1>1, <2>4, FS_Subset, FS_CardinalityType
  <2>7. Cardinality(N \ {m}) <= Cardinality(G)
    BY <2>5, <2>6, FS_Subset
  <2>8. Cardinality(N \ {m}) = Cardinality(N) - 1 /\ Cardinality(N) \in Nat
    BY <1>2, <2>3, FS_RemoveElement, FS_CardinalityType
  <2> QED
    BY <1>1, <1>2, <2>4, <2>6, <2>7, <2>8
<1> QED
  BY <1>3, <1>4

\* Whoever has to go from a full store has enough newer ones before it.
LEMMA DroppedIsOld ==
    ASSUME NEW S, Numbered(S), NEW last \in Nat, \A d \in S : d.id \in 1..last,
           NEW n \in Nat, NEW ch \in S, ch \notin Newest(S, n)
    PROVE  last >= ch.id + n
<1> DEFINE G == {d \in S : d.id > ch.id}
           I == (ch.id + 1)..last
           f == [d \in G |-> d.id]
<1>1. IsFiniteSet(G) /\ Cardinality(G) \in Nat /\ ~(Cardinality(G) < n)
  BY FS_Subset, FS_CardinalityType DEF Newest, Numbered
<1>2. ch.id \in 1..last
  OBVIOUS
<1>3. IsFiniteSet(I) /\ Cardinality(I) = last - ch.id
  <2> DEFINE k == ch.id + 1
  <2>1. k \in Int /\ last \in Int /\ k <= last + 1
    BY <1>2
  <2> HIDE DEF k
  <2>2. /\ IsFiniteSet(k..last)
        /\ Cardinality(k..last) = IF k > last THEN 0 ELSE last - k + 1
    BY <2>1, FS_Interval
  <2>3. Cardinality(k..last) = last - k + 1
    BY <2>1, <2>2
  <2> QED
    BY <1>2, <2>2, <2>3 DEF k
<1>4. f \in Injection(G, I)
  <2>1. f \in [G -> I]
    BY <1>2 DEF Numbered
  <2>2. \A d, e \in G : f[d] = f[e] => d = e
    BY DEF Numbered
  <2> QED
    BY <2>1, <2>2 DEF Injection, IsInjective
<1>5. Cardinality(G) <= Cardinality(I)
  <2> HIDE DEF G, I, f
  <2> QED
    BY <1>3, <1>4, FS_Injection
<1> QED
  BY <1>1, <1>2, <1>3, <1>5

\* A new challenge finds room, and those that stay are as they were.
LEMMA SaveKeepsStore ==
    ASSUME issued \in Nat, StoreOK, NEW ch \in ChallengeType(issued + 1), ch.id = issued + 1
    PROVE  LET saved == SaveChallenge(challenges, ch)
           IN  /\ saved \subseteq ChallengeType(issued + 1)
               /\ Numbered(saved) /\ Cardinality(saved) <= MaxChallenges
               /\ \A d \in challenges :
                     d \in saved \/ d.id \in late \/ issued + 1 >= d.id + MaxChallenges
<1> DEFINE F == Fresh(challenges)
           N == Newest(F, MaxChallenges - 1)
<1>1. MaxChallenges - 1 \in Nat /\ MaxChallenges \in Nat
  BY BoundAssumption
<1> USE DEF StoreOK
<1>2. F \subseteq challenges /\ Numbered(F)
  <2>1. F \subseteq challenges
    BY DEF Fresh
  <2> QED
    BY <2>1, FS_Subset DEF Numbered
<1>3. N \subseteq F /\ IsFiniteSet(N) /\ Cardinality(N) <= MaxChallenges - 1
  BY <1>1, <1>2, NewestAreFew
<1>4. SaveChallenge(challenges, ch) = N \cup {ch}
  BY DEF SaveChallenge
<1> HIDE DEF N
<1>5. IsFiniteSet(N \cup {ch}) /\ Cardinality(N \cup {ch}) <= MaxChallenges
  <2>1. Cardinality(N) \in Nat
    BY <1>3, FS_CardinalityType
  <2>2. /\ IsFiniteSet(N \cup {ch})
        /\ Cardinality(N \cup {ch}) \in {Cardinality(N), Cardinality(N) + 1}
    BY <1>3, FS_AddElement
  <2> HIDE DEF F
  <2> QED
    BY <1>1, <1>3, <2>1, <2>2
<1>6. \A d \in N : d.id \in 1..issued
  BY <1>2, <1>3 DEF ChallengeType
<1>7. ch.id \notin 1..issued
  OBVIOUS
<1>8. Numbered(N \cup {ch})
  BY <1>2, <1>3, <1>5, <1>6, <1>7 DEF Numbered
<1>9. N \cup {ch} \subseteq ChallengeType(issued + 1)
  BY <1>2, <1>3 DEF ChallengeType
<1>10. ASSUME NEW d \in challenges, d \notin N, d.id \notin late
       PROVE  issued + 1 >= d.id + MaxChallenges
  <2>1. d \in F
    BY <1>10 DEF Fresh
  <2>2. \A e \in F : e.id \in 1..issued
    BY <1>2 DEF ChallengeType
  <2>3. issued >= d.id + (MaxChallenges - 1)
    <3> HIDE DEF F
    <3> QED
      BY <1>1, <1>2, <1>10, <2>1, <2>2, DroppedIsOld DEF N
  <2> QED
    BY <1>1, <2>1, <2>2, <2>3
<1> QED
  BY <1>4, <1>5, <1>8, <1>9, <1>10

-----------------------------------------------------------------------------
(* A connection *)

LEMMA Realms0 ==
    /\ \A p \in Profiles : RealmOf[p] \in Realms
    /\ None \notin Realms /\ None \notin Principals /\ None \notin Profiles
    /\ PasskeyRealms \subseteq Realms
BY RealmAssumption DEF Realms

LEMMA NewConnOK == ASSUME NEW n \in Nat PROVE ConnOK(NewConn, n)
BY FS_EmptySet DEF ConnOK, NewConn, ConnType, Standing, Filed

\* What a connection may do without asking again.
Belongings(s) == <<s.authorized, s.enrollments, s.tickets>>

LEMMA SelectedOK ==
    ASSUME NEW n \in Nat, NEW s, ConnOK(s, n), NEW p \in Profiles
    PROVE  /\ ConnOK(Selected(s, p), n)
           /\ Selected(s, p).at \in {"opening", "device", "token"}
           /\ Belongings(Selected(s, p)) = Belongings(s)
<1>1. RealmOf[p] \in Realms
  BY Realms0
<1>2. s \in ConnType(n) /\ Standing(s) /\ Filed(s)
  BY DEF ConnOK
<1> DEFINE t == Selected(s, p)
<1>3. /\ t.profile = p /\ t.authorized = s.authorized
      /\ t.enrollments = s.enrollments /\ t.tickets = s.tickets
      /\ t \in ConnType(n)
      /\ \/ t.at = "opening" /\ t.previous = p /\ s.authorized[RealmOf[p]] # None
         \/ t.at = "device" /\ t.previous = s.previous
            /\ RealmOf[p] \in PasskeyRealms
         \/ t.at = "token" /\ t.previous = s.previous
            /\ RealmOf[p] \notin PasskeyRealms
  <2> DEFINE u == [s EXCEPT !.profile = p, !.sent = FALSE, !.mode = "none",
                            !.challenge = 0, !.bootstrap = None, !.hasKey = FALSE]
  <2>1. /\ u \in ConnType(n) /\ u.profile = p /\ u.authorized = s.authorized
        /\ u.enrollments = s.enrollments /\ u.tickets = s.tickets
        /\ u.previous = s.previous
    <3>1. s \in ConnType(n) /\ 0 \in 0..n /\ p \in Profiles \cup {None}
          /\ None \in Principals \cup {None}
      BY <1>2
    <3>2. u \in ConnType(n)
      BY <3>1 DEF ConnType
    <3> QED
      BY <3>1, <3>2 DEF ConnType
  <2>2. t = IF s.authorized[RealmOf[p]] # None
            THEN [u EXCEPT !.at = "opening", !.previous = p]
            ELSE [u EXCEPT !.at = IF RealmOf[p] \in PasskeyRealms
                                  THEN "device" ELSE "token"]
    BY DEF Selected
  <2> HIDE DEF u, t
  <2>3. CASE s.authorized[RealmOf[p]] # None
    BY <2>1, <2>2, <2>3 DEF ConnType
  <2>4. CASE ~(s.authorized[RealmOf[p]] # None)
    BY <2>1, <2>2, <2>4 DEF ConnType
  <2> QED
    BY <2>3, <2>4
<1> HIDE DEF t
<1>4. Standing(t)
  BY <1>1, <1>2, <1>3, Realms0 DEF Standing
<1>5. Filed(t)
  BY <1>2, <1>3 DEF Filed
<1> QED
  BY <1>3, <1>4, <1>5 DEF ConnOK, Belongings, t

LEMMA AuthorizedOK ==
    ASSUME NEW n \in Nat, NEW s, ConnOK(s, n), s.at # "closed",
           NEW q \in Principals
    PROVE  /\ ConnOK(Authorized(s, q), n)
           /\ Authorized(s, q).at = "opening"
           /\ Authorized(s, q).enrollments = s.enrollments
           /\ Authorized(s, q).tickets = s.tickets
BY Realms0 DEF ConnOK, Authorized, ConnType, Standing, Filed

LEMMA RejectedOK ==
    ASSUME NEW n \in Nat, NEW s, ConnOK(s, n)
    PROVE  /\ ConnOK(Rejected(s), n)
           /\ Rejected(s).at \in {"opening", "device", "token", "closed"}
           /\ Belongings(Rejected(s)) \in {Belongings(s), Belongings(NewConn)}
<1>1. CASE \A r \in Realms : s.authorized[r] = None
  BY <1>1, NewConnOK DEF Rejected, NewConn
<1>2. CASE ~(\A r \in Realms : s.authorized[r] = None)
  <2>1. s.previous \in Profiles
    BY <1>2 DEF ConnOK, ConnType, Standing
  <2> QED
    BY <1>2, <2>1, SelectedOK DEF Rejected
<1> QED
  BY <1>1, <1>2

LEMMA Wider == ASSUME NEW n \in Nat, NEW s, ConnOK(s, n) PROVE ConnOK(s, n + 1)
BY DEF ConnOK, ConnType

\* A connection becomes another that is as it should be; a challenge it waits
\* with is a new one.
LEMMA Becoming ==
    ASSUME TypeInv, NEW c \in Conns, NEW n \in {issued, issued + 1}, issued' = n,
           NEW s, ConnOK(s, n), s.at = "passkey" => s.challenge = issued + 1,
           Becomes(c, s)
    PROVE  ConnsOK'
<1>1. issued \in Nat /\ conn \in [Conns -> ConnType(issued)]
  BY DEF TypeInv, TypeOK
<1>2. \A d \in Conns : conn'[d] = IF d = c THEN s ELSE conn[d]
  BY <1>1 DEF Becomes
<1>3. \A d \in Conns : ConnOK(conn[d], n)
  <2>1. \A d \in Conns : ConnOK(conn[d], issued)
    BY <1>1 DEF TypeInv, ConnsOK, ConnOK
  <2> QED
    BY <1>1, <2>1, Wider
<1>4. \A d \in Conns : ConnOK(conn'[d], n)
  BY <1>2, <1>3
<1>5. conn' \in [Conns -> ConnType(issued')]
  <2>1. DOMAIN conn' = Conns /\ conn' = [d \in Conns |-> conn'[d]]
    BY <1>1 DEF Becomes
  <2> QED
    BY <1>4, <2>1 DEF ConnOK
<1>6. \A d \in Conns : conn[d].challenge \in 0..issued
  BY <1>1 DEF ConnType
<1>7. OwnChallenge'
  <2> SUFFICES ASSUME NEW d \in Conns, NEW e \in Conns, conn'[d].at = "passkey",
                      conn'[e].at = "passkey",
                      conn'[d].challenge = conn'[e].challenge
               PROVE  d = e
    BY DEF OwnChallenge
  <2> QED
    BY <1>1, <1>2, <1>6 DEF TypeInv, ConnsOK, OwnChallenge
<1> QED
  BY <1>4, <1>5, <1>7 DEF ConnsOK, ConnOK

-----------------------------------------------------------------------------
(* Every step keeps the shape of the state *)

\* What a step does to challenges and to those who wait with one: nothing, or
\* one is taken by the connection that waits with it, or one is issued.
Others(c) == \A d \in Conns \ {c} : conn'[d] = conn[d]
ChallengeStep ==
    /\ late \subseteq late'
    /\ \/ /\ challenges' = challenges /\ issued' = issued
          /\ \A d \in Conns : conn'[d].at = "passkey" => conn'[d] = conn[d]
       \/ \E c \in Conns :
             /\ conn[c].at = "passkey" /\ conn'[c].at # "passkey" /\ Others(c)
             /\ Take(conn[c].challenge) /\ issued' = issued
       \/ \E c \in Conns, ch \in ChallengeType(issued + 1) :
             /\ ch.id = issued + 1 /\ conn'[c].challenge = issued + 1 /\ Others(c)
             /\ challenges' = SaveChallenge(challenges, ch)
             /\ issued' = issued + 1

LEMMA Fields ==
    ASSUME TypeInv, NEW c \in Conns
    PROVE  /\ issued \in Nat /\ attempts \in 0..MaxAttempts /\ spent \in 0..MaxEvents
           /\ MaxAttempts \in Nat /\ MaxEvents \in Nat
           /\ ConnOK(conn[c], issued)
           /\ conn[c].at # "closed" =>
                 Realm(c) \in Realms /\ PrincipalsOf[Realm(c)] \subseteq Principals
<1>1. ConnOK(conn[c], issued)
  BY DEF TypeInv, ConnsOK, ConnOK
<1>2. conn[c].at # "closed" => Realm(c) \in Realms
  BY <1>1, Realms0 DEF ConnOK, Standing, Realm
<1> QED
  BY <1>1, <1>2, BoundAssumption, PrincipalsAssumption DEF TypeInv, TypeOK

\* Steps of a connection that leave all tables alone.
LEMMA QuietStep ==
    ASSUME TypeInv, NEW c \in Conns, NEW s, ConnOK(s, issued),
           s.at # "passkey", Becomes(c, s),
           UNCHANGED <<lone, challenges, issued, late, store, devices, ghosts>>,
           attempts' \in 0..MaxAttempts, spent' \in 0..MaxEvents
    PROVE  TypeInv' /\ ChallengeStep
<1>1. ConnsOK'
  <2>1. issued' = issued
    OBVIOUS
  <2> QED
    BY <2>1, Becoming
<1>2. ChallengeStep
  BY DEF ChallengeStep, Becomes, TypeInv, TypeOK
<1> QED
  BY <1>1, <1>2 DEF TypeInv, TypeOK, ConnsOK, StoreOK, Owned, ghosts

LEMMA ConnectKeeps ==
    ASSUME TypeInv, NEW c \in Conns, Connect(c) \/ SwitchProfile(c) PROVE TypeInv' /\ ChallengeStep
<1>1. \A p \in Reachable : p \in Profiles
  BY LoneAssumption DEF Reachable
<1>2. PICK p \in Profiles, s \in {NewConn, conn[c]} : Becomes(c, Selected(s, p))
  BY <1>1 DEF Connect, SwitchProfile
<1>3. ConnOK(s, issued)
  BY <1>2, Fields, NewConnOK
<1>4. /\ UNCHANGED <<lone, challenges, issued, late, store, devices, ghosts>>
      /\ attempts' = attempts + 1 /\ attempts < MaxAttempts /\ spent' = spent
  BY DEF Connect, SwitchProfile
<1>5. attempts' \in 0..MaxAttempts /\ spent' \in 0..MaxEvents /\ issued \in Nat
  BY <1>4, Fields
<1>6. ConnOK(Selected(s, p), issued) /\ Selected(s, p).at # "passkey"
  BY <1>3, <1>5, SelectedOK
<1> QED
  BY <1>2, <1>4, <1>5, <1>6, QuietStep

LEMMA AnswerKeeps ==
    ASSUME TypeInv, NEW c \in Conns,
           TokenAnswered(c) \/ DeviceKeyAnswered(c) \/ NoAnswer(c)
    PROVE  TypeInv' /\ ChallengeStep
<1>1. /\ UNCHANGED <<lone, challenges, issued, late, store, devices, ghosts>>
      /\ attempts' \in 0..MaxAttempts /\ spent' \in 0..MaxEvents
      /\ issued \in Nat /\ ConnOK(conn[c], issued) /\ conn[c].at # "closed"
  BY Fields DEF TokenAnswered, DeviceKeyAnswered, NoAnswer
<1>2. CASE Becomes(c, Rejected(conn[c]))
  <2>1. ConnOK(Rejected(conn[c]), issued) /\ Rejected(conn[c]).at # "passkey"
    BY <1>1, RejectedOK
  <2> QED
    BY <1>1, <1>2, <2>1, QuietStep
<1>3. CASE \E q \in Principals : Becomes(c, Authorized(conn[c], q))
  <2>1. PICK q \in Principals : Becomes(c, Authorized(conn[c], q))
    BY <1>3
  <2>2. ConnOK(Authorized(conn[c], q), issued) /\ Authorized(conn[c], q).at # "passkey"
    BY <1>1, AuthorizedOK
  <2> QED
    BY <1>1, <2>1, <2>2, QuietStep
<1>4. TokenAnswered(c) => \/ Becomes(c, Rejected(conn[c]))
                          \/ \E q \in Principals : Becomes(c, Authorized(conn[c], q))
  BY <1>1, Fields DEF TokenAnswered
<1>5. DeviceKeyAnswered(c) => \E q \in Principals : Becomes(c, Authorized(conn[c], q))
  <2>1. Key(Realm(c), c) \in Principals \cup {None}
    BY <1>1, Fields DEF Key, TypeInv, TypeOK
  <2> QED
    BY <2>1 DEF DeviceKeyAnswered
<1> QED
  BY <1>2, <1>3, <1>4, <1>5 DEF NoAnswer

LEMMA RelayKeeps ==
    ASSUME TypeInv, NEW c \in Conns,
           OpenBackend(c) \/ BackendCloses(c) \/ Disconnect(c)
    PROVE  TypeInv' /\ ChallengeStep
<1>1. /\ UNCHANGED <<lone, challenges, issued, late, store, devices, ghosts>>
      /\ attempts' = attempts /\ (spent' = spent \/ Disturb)
      /\ conn[c].at # "closed"
  BY DEF OpenBackend, BackendCloses, Disconnect
<1>2. /\ attempts' \in 0..MaxAttempts /\ spent' \in 0..MaxEvents
      /\ issued \in Nat /\ ConnOK(conn[c], issued)
  BY <1>1, Fields DEF Disturb
<1>3. PICK s \in {[conn[c] EXCEPT !.at = "relay"], [conn[c] EXCEPT !.at = "down"],
                  Selected(conn[c], conn[c].profile), NewConn} : Becomes(c, s)
  BY DEF OpenBackend, BackendCloses, Disconnect
<1>4. conn[c].profile \in Profiles
  BY <1>1, <1>2 DEF ConnOK, Standing
<1>5. ConnOK([conn[c] EXCEPT !.at = "relay"], issued)
      /\ ConnOK([conn[c] EXCEPT !.at = "down"], issued)
  BY <1>1, <1>2 DEF ConnOK, ConnType, Standing, Filed
<1>6. ConnOK(s, issued) /\ s.at # "passkey"
  <2>1. s = Selected(conn[c], conn[c].profile) => ConnOK(s, issued) /\ s.at # "passkey"
    BY <1>2, <1>4, SelectedOK
  <2>2. s = NewConn => ConnOK(s, issued) /\ s.at # "passkey"
    <3>1. NewConn.at = "closed"
      BY DEF NewConn
    <3> QED
      BY <1>2, <3>1, NewConnOK
  <2>3. \A at \in {"relay", "down"} : s = [conn[c] EXCEPT !.at = at] => s.at # "passkey"
    BY <1>2 DEF ConnOK, ConnType
  <2> QED
    BY <1>3, <1>5, <2>1, <2>2, <2>3
<1> QED
  BY <1>1, <1>2, <1>3, <1>6, QuietStep

\* A connection is issued a challenge it then waits with.
LEMMA IssueKeeps ==
    ASSUME TypeInv, NEW c \in Conns, conn[c].at = "device",
           NEW purpose \in {"register", "authenticate"}, NEW q \in Principals,
           Issue(c, purpose, q),
           NEW s \in ConnType(issued + 1),
           s = [conn[c] EXCEPT !.at = "passkey", !.mode = purpose,
                               !.challenge = issued + 1,
                               !.bootstrap = s.bootstrap, !.hasKey = s.hasKey],
           purpose = "register" => s.bootstrap = q,
           Becomes(c, s),
           UNCHANGED <<lone, late, store, devices, attempts, spent, ghosts>>
    PROVE  TypeInv' /\ ChallengeStep
<1> DEFINE ch == [id |-> issued + 1, purpose |-> purpose, realm |-> Realm(c),
                  principal |-> q, binding |-> c]
<1>1. issued \in Nat /\ ConnOK(conn[c], issued) /\ Realm(c) \in PasskeyRealms
  BY Fields DEF ConnOK, Standing, Realm
<1>2. issued' = issued + 1 /\ challenges' = SaveChallenge(challenges, ch)
  BY DEF Issue
<1>3. ch \in ChallengeType(issued + 1) /\ ch.id = issued + 1
  BY <1>1 DEF ChallengeType
<1> HIDE DEF ch
<1>4. StoreOK'
  BY <1>1, <1>2, <1>3, SaveKeepsStore DEF TypeInv, StoreOK
<1>5. ConnOK(s, issued + 1) /\ s.challenge = issued + 1
  <2>1. /\ s.profile = conn[c].profile /\ s.authorized = conn[c].authorized
        /\ s.previous = conn[c].previous /\ s.at = "passkey"
        /\ s.challenge = issued + 1 /\ s.mode = purpose
        /\ s.enrollments = conn[c].enrollments /\ s.tickets = conn[c].tickets
    BY <1>1 DEF ConnOK, ConnType
  <2> QED
    BY <1>1, <2>1 DEF ConnOK, Standing, Filed, Realm
<1>6. ConnsOK'
  <2>1. issued' \in {issued, issued + 1}
    BY <1>2
  <2> QED
    BY <1>2, <1>5, <2>1, Becoming
<1>7. issued' \in Nat /\ 1..issued \subseteq 1..issued'
  BY <1>1, <1>2
<1>8. ChallengeStep
  BY <1>2, <1>3, <1>5 DEF ChallengeStep, Others, Becomes, TypeInv, TypeOK
<1> QED
  BY <1>4, <1>6, <1>7, <1>8
  DEF TypeInv, TypeOK, ConnsOK, StoreOK, Numbered, Owned, ghosts

LEMMA BeginKeeps ==
    ASSUME TypeInv, NEW c \in Conns, BeginAuthentication(c) \/ BeginRegistration(c)
    PROVE  TypeInv' /\ ChallengeStep
<1>1. issued \in Nat /\ ConnOK(conn[c], issued) /\ conn[c].at = "device"
      /\ Realm(c) \in Realms /\ PrincipalsOf[Realm(c)] \subseteq Principals
  BY Fields DEF BeginAuthentication, BeginRegistration
<1>2. \A q \in Principals \cup {None}, hasKey \in BOOLEAN,
         mode \in {"register", "authenticate"} :
         [conn[c] EXCEPT !.at = "passkey", !.mode = mode, !.challenge = issued + 1,
                         !.bootstrap = q, !.hasKey = hasKey] \in ConnType(issued + 1)
  <2>1. conn[c] \in ConnType(issued + 1) /\ issued + 1 \in 0..(issued + 1)
    BY <1>1, Wider DEF ConnOK
  <2> QED
    BY <2>1 DEF ConnType
<1>3. CASE BeginAuthentication(c)
  <2>1. PICK hasKey \in BOOLEAN :
           Becomes(c, [conn[c] EXCEPT !.at = "passkey", !.mode = "authenticate",
                                      !.challenge = issued + 1, !.hasKey = hasKey])
    BY <1>3 DEF BeginAuthentication
  <2> DEFINE s == [conn[c] EXCEPT !.at = "passkey", !.mode = "authenticate",
                                  !.challenge = issued + 1, !.hasKey = hasKey]
  <2>2. s = [conn[c] EXCEPT !.at = "passkey", !.mode = "authenticate",
                            !.challenge = issued + 1,
                            !.bootstrap = s.bootstrap, !.hasKey = s.hasKey]
        /\ s.bootstrap = conn[c].bootstrap /\ s.hasKey = hasKey
        /\ conn[c].bootstrap \in Principals \cup {None}
    BY <1>1 DEF ConnOK, ConnType
  <2>3. s \in ConnType(issued + 1)
    <3> HIDE DEF s
    <3> QED
      BY <1>2, <2>2
  <2>4. store[Realm(c)].user \in Principals
    BY <1>1, <1>3 DEF BeginAuthentication, TypeInv, TypeOK, Owned
  <2>5. /\ Issue(c, "authenticate", store[Realm(c)].user) /\ Becomes(c, s)
        /\ UNCHANGED <<lone, late, store, devices, attempts, spent, ghosts>>
    BY <1>3, <2>1 DEF BeginAuthentication
  <2> HIDE DEF s
  <2> QED
    BY <1>1, <2>2, <2>3, <2>4, <2>5, IssueKeeps
<1>4. CASE BeginRegistration(c)
  <2>1. PICK q \in PrincipalsOf[Realm(c)], hasKey \in BOOLEAN :
           \/ /\ Issue(c, "register", q)
              /\ Becomes(c, [conn[c] EXCEPT !.at = "passkey", !.mode = "register",
                                            !.challenge = issued + 1,
                                            !.bootstrap = q, !.hasKey = hasKey])
           \/ /\ Becomes(c, Rejected(conn[c]))
              /\ UNCHANGED <<challenges, issued>>
    BY <1>4 DEF BeginRegistration
  <2>2. UNCHANGED <<lone, late, store, devices, attempts, spent, ghosts>>
    BY <1>4 DEF BeginRegistration
  <2>3. CASE /\ Becomes(c, Rejected(conn[c]))
             /\ UNCHANGED <<challenges, issued>>
    <3>1. ConnOK(Rejected(conn[c]), issued) /\ Rejected(conn[c]).at # "passkey"
      BY <1>1, RejectedOK
    <3>2. attempts' \in 0..MaxAttempts /\ spent' \in 0..MaxEvents
      BY <2>2, Fields
    <3> QED
      BY <2>2, <2>3, <3>1, <3>2, QuietStep
  <2> DEFINE s == [conn[c] EXCEPT !.at = "passkey", !.mode = "register",
                                  !.challenge = issued + 1,
                                  !.bootstrap = q, !.hasKey = hasKey]
  <2>4. CASE Issue(c, "register", q) /\ Becomes(c, s)
    <3>1. q \in Principals /\ s \in ConnType(issued + 1)
      BY <1>1, <1>2
    <3>2. s.bootstrap = q /\ s.hasKey = hasKey
      BY <1>1 DEF ConnOK, ConnType
    <3>3. s = [conn[c] EXCEPT !.at = "passkey", !.mode = "register",
                              !.challenge = issued + 1,
                              !.bootstrap = s.bootstrap, !.hasKey = s.hasKey]
      BY <3>2
    <3> HIDE DEF s
    <3> QED
      BY <1>1, <2>2, <2>4, <3>1, <3>2, <3>3, IssueKeeps
  <2> QED
    BY <2>1, <2>3, <2>4
<1> QED
  BY <1>3, <1>4

\* A challenge is taken out, whatever comes of it.
LEMMA FinishKeeps ==
    ASSUME TypeInv, NEW c \in Conns, NEW s, ConnOK(s, issued), s.at # "passkey",
           Becomes(c, s), conn[c].at = "passkey", Take(conn[c].challenge),
           store' \in [Realms -> [user: Principals \cup {None},
                                  credentials: SUBSET (1..issued)]], Owned',
           ceremonies' \in [Conns -> [Realms -> Nat]],
           UNCHANGED <<lone, issued, late, devices, attempts, enrolled>>,
           spent' \in 0..MaxEvents
    PROVE  TypeInv' /\ ChallengeStep
<1>1. StoreOK'
  <2>1. challenges' \in SUBSET challenges
    BY DEF Take
  <2>2. IsFiniteSet(challenges) /\ MaxChallenges \in Nat
    BY BoundAssumption DEF TypeInv, StoreOK, Numbered
  <2>3. /\ IsFiniteSet(challenges') /\ Cardinality(challenges') \in Nat
        /\ Cardinality(challenges') <= Cardinality(challenges)
        /\ Cardinality(challenges) \in Nat
    BY <2>1, <2>2, FS_Subset, FS_CardinalityType
  <2>4. Cardinality(challenges') <= MaxChallenges
    BY <2>2, <2>3 DEF TypeInv, StoreOK
  <2> QED
    BY <2>1, <2>3, <2>4 DEF TypeInv, StoreOK, Numbered
<1>2. ConnsOK'
  <2>1. issued' = issued
    OBVIOUS
  <2> QED
    BY <2>1, Becoming
<1>3. ChallengeStep
  BY DEF ChallengeStep, Others, Becomes, TypeInv, TypeOK
<1> QED
  BY <1>1, <1>2, <1>3 DEF TypeInv, TypeOK, ConnsOK, StoreOK, Numbered

LEMMA ProvedOK ==
    ASSUME TypeInv, NEW c \in Conns, conn[c].at = "passkey",
           NEW q \in Principals, Proved(c, q)
    PROVE  /\ \E s : ConnOK(s, issued) /\ s.at # "passkey" /\ Becomes(c, s)
           /\ ceremonies' \in [Conns -> [Realms -> Nat]]
<1> DEFINE s == Authorized(conn[c], q)
           grant == [realm |-> Realm(c), profile |-> conn[c].profile, principal |-> q]
           t == [s EXCEPT !.enrollments[Realm(c)] = grant]
<1>1. issued \in Nat /\ ConnOK(conn[c], issued) /\ Realm(c) \in Realms
      /\ conn[c].profile \in Profiles
  BY Fields DEF ConnOK, Standing
<1>2. ConnOK(s, issued) /\ s.at = "opening"
  BY <1>1, AuthorizedOK
<1>3. grant \in Grants /\ grant.realm = Realm(c)
  BY <1>1 DEF Grants
<1>4. Becomes(c, s) \/ Becomes(c, t)
  BY DEF Proved
<1>5. ceremonies' \in [Conns -> [Realms -> Nat]]
  BY <1>1 DEF Proved, TypeInv, TypeOK
<1> HIDE DEF s, grant
<1>6. ConnOK(t, issued) /\ t.at = "opening"
  <2>1. /\ t.enrollments = [s.enrollments EXCEPT ![Realm(c)] = grant]
        /\ t.at = s.at /\ t.profile = s.profile /\ t.previous = s.previous
        /\ t.authorized = s.authorized /\ t.tickets = s.tickets
        /\ t.mode = s.mode /\ t.challenge = s.challenge /\ t.bootstrap = s.bootstrap
    BY <1>2 DEF ConnOK, ConnType
  <2>2. t.enrollments \in [Realms -> Grants \cup {NoEnrollment}]
    BY <1>2, <1>3, <2>1 DEF ConnOK, ConnType
  <2>3. t \in ConnType(issued)
    BY <1>2, <2>1, <2>2 DEF ConnOK, ConnType
  <2>4. Standing(t)
    BY <1>2, <2>1 DEF ConnOK, Standing
  <2>5. Filed(t)
    BY <1>1, <1>2, <1>3, <2>1 DEF ConnOK, Filed, ConnType
  <2> QED
    BY <1>2, <2>1, <2>3, <2>4, <2>5 DEF ConnOK
<1>7. \E u : ConnOK(u, issued) /\ u.at # "passkey" /\ Becomes(c, u)
  <2> HIDE DEF t
  <2> QED
    BY <1>2, <1>4, <1>6
<1> QED
  BY <1>5, <1>7

LEMMA FinishesKeep ==
    ASSUME TypeInv, NEW c \in Conns,
           FinishAuthentication(c) \/ FinishRegistration(c) \/ FinishFails(c)
    PROVE  TypeInv' /\ ChallengeStep
<1>1. /\ UNCHANGED <<lone, issued, late, devices, attempts, enrolled>>
      /\ conn[c].at = "passkey" /\ Take(conn[c].challenge)
      /\ spent' = spent \/ Disturb
  BY DEF FinishAuthentication, FinishRegistration, FinishFails
<1>2. /\ spent' \in 0..MaxEvents /\ issued \in Nat /\ ConnOK(conn[c], issued)
      /\ Realm(c) \in Realms
  BY <1>1, Fields DEF Disturb
<1>3. CASE Failed(c)
  <2>1. ConnOK(Rejected(conn[c]), issued) /\ Rejected(conn[c]).at # "passkey"
    BY <1>2, RejectedOK
  <2>2. Becomes(c, Rejected(conn[c])) /\ UNCHANGED <<store, ceremonies>>
    BY <1>3 DEF Failed
  <2>3. /\ store' \in [Realms -> [user: Principals \cup {None},
                                  credentials: SUBSET (1..issued)]]
        /\ Owned' /\ ceremonies' \in [Conns -> [Realms -> Nat]]
    BY <2>2 DEF TypeInv, TypeOK, Owned
  <2> QED
    BY <1>1, <1>2, <2>1, <2>2, <2>3, FinishKeeps
<1>4. CASE \E q \in Principals :
              /\ Proved(c, q)
              /\ \/ store' = store
                 \/ store' = Stored(Realm(c), q, conn[c].challenge)
  <2>1. PICK q \in Principals :
              /\ Proved(c, q)
              /\ \/ store' = store
                 \/ store' = Stored(Realm(c), q, conn[c].challenge)
    BY <1>4
  <2>2. conn[c].challenge \in 1..issued
    BY <1>1, <1>2 DEF ConnOK, ConnType, Standing
  <2>3. q # None
    BY Realms0
  <2>4. /\ store' \in [Realms -> [user: Principals \cup {None},
                                  credentials: SUBSET (1..issued)]]
        /\ Owned'
    <3> DEFINE new == [user |-> q,
                       credentials |-> store[Realm(c)].credentials
                                         \cup {conn[c].challenge}]
    <3>1. store \in [Realms -> [user: Principals \cup {None},
                                credentials: SUBSET (1..issued)]] /\ Owned
      BY DEF TypeInv, TypeOK
    <3>2. new \in [user: Principals \cup {None}, credentials: SUBSET (1..issued)]
          /\ new.user = q
      BY <1>2, <2>2, <3>1
    <3>3. store' = store \/ store' = [store EXCEPT ![Realm(c)] = new]
      BY <2>1 DEF Stored
    <3> HIDE DEF new
    <3> QED
      BY <1>2, <2>3, <3>1, <3>2, <3>3 DEF Owned
  <2> QED
    BY <1>1, <1>2, <2>1, <2>4, ProvedOK, FinishKeeps
<1>5. FinishAuthentication(c) =>
         Failed(c) \/ \E q \in Principals : Proved(c, q) /\ store' = store
  <2>1. store[Realm(c)].credentials # {} => store[Realm(c)].user \in Principals
    BY <1>2 DEF TypeInv, TypeOK, Owned
  <2> QED
    BY <2>1 DEF FinishAuthentication
<1>6. FinishRegistration(c) =>
         Failed(c) \/ \E q \in Principals :
                         /\ Proved(c, q)
                         /\ store' = Stored(Realm(c), q, conn[c].challenge)
  <2>1. conn[c].mode = "register" => conn[c].bootstrap \in Principals
    BY <1>1, <1>2 DEF ConnOK, Standing
  <2> QED
    BY <2>1 DEF FinishRegistration
<1> QED
  BY <1>3, <1>4, <1>5, <1>6 DEF FinishFails

LEMMA TicketKeeps ==
    ASSUME TypeInv, NEW c \in Conns, IssueTicket(c) \/ UseTicket(c)
    PROVE  TypeInv' /\ ChallengeStep
<1>1. /\ UNCHANGED <<lone, challenges, issued, late, store, attempts, ceremonies>>
      /\ conn[c].at = "relay" /\ (spent' = spent \/ Disturb)
  BY DEF IssueTicket, UseTicket, ghosts
<1>2. /\ spent' \in 0..MaxEvents /\ attempts' \in 0..MaxAttempts
      /\ issued \in Nat /\ ConnOK(conn[c], issued)
      /\ Realm(c) \in Realms /\ conn[c].profile \in Profiles
  BY <1>1, Fields DEF Disturb, ConnOK, Standing
<1>3. /\ IsFiniteSet(conn[c].tickets) /\ conn[c].tickets \subseteq Grants
  BY <1>2 DEF ConnOK, ConnType, Filed
<1>4. CASE IssueTicket(c)
  <2> DEFINE grant == conn[c].enrollments[Realm(c)]
             s == [conn[c] EXCEPT !.sent = TRUE, !.tickets = @ \cup {grant},
                                  !.enrollments[Realm(c)] = NoEnrollment]
  <2>1. Becomes(c, s) /\ UNCHANGED <<devices, spent, ghosts>>
        /\ grant.profile = conn[c].profile
    BY <1>4 DEF IssueTicket
  <2>2. grant \in Grants
    BY <1>2, <2>1, Realms0 DEF ConnOK, ConnType, NoEnrollment
  <2> HIDE DEF grant
  <2>3. /\ IsFiniteSet(conn[c].tickets \cup {grant})
        /\ conn[c].tickets \cup {grant} \subseteq Grants
    BY <1>3, <2>2, FS_AddElement
  <2>4. /\ s.tickets = conn[c].tickets \cup {grant} /\ s.at = conn[c].at
        /\ s.enrollments = [conn[c].enrollments EXCEPT ![Realm(c)] = NoEnrollment]
        /\ s.profile = conn[c].profile /\ s.previous = conn[c].previous
        /\ s.authorized = conn[c].authorized
    BY <1>2 DEF ConnOK, ConnType
  <2>5. s \in ConnType(issued)
    BY <1>2, <2>3, <2>4 DEF ConnOK, ConnType
  <2>6. Standing(s)
    BY <1>1, <1>2, <2>4 DEF ConnOK, Standing
  <2>7. Filed(s)
    BY <1>2, <2>3, <2>4 DEF ConnOK, ConnType, Filed
  <2> HIDE DEF s
  <2> QED
    BY <1>1, <1>2, <2>1, <2>4, <2>5, <2>6, <2>7, QuietStep DEF ConnOK, ghosts
<1>5. CASE UseTicket(c)
  <2>1. PICK ticket \in conn[c].tickets :
          /\ Becomes(c, [conn[c] EXCEPT !.tickets = @ \ {ticket}])
          /\ \/ /\ RegisterKey(ticket.realm, c, ticket.principal)
                /\ enrolled' = [enrolled EXCEPT ![c][ticket.realm] = @ + 1]
             \/ UNCHANGED <<devices, enrolled>>
    BY <1>5 DEF UseTicket
  <2> DEFINE s == [conn[c] EXCEPT !.tickets = @ \ {ticket}]
  <2>2. ticket.realm \in Realms /\ ticket.principal \in Principals
    BY <1>3 DEF Grants
  <2>3. /\ devices' \in [Realms -> [Conns -> Principals \cup {None}]]
        /\ enrolled' \in [Conns -> [Realms -> Nat]]
    <3>1. devices' = devices \/ devices' = [devices EXCEPT ![ticket.realm][c]
                                                        = ticket.principal]
      BY <2>1 DEF RegisterKey
    <3>2. enrolled' = enrolled \/ enrolled' = [enrolled EXCEPT ![c][ticket.realm] = @ + 1]
      BY <2>1
    <3>3. /\ devices \in [Realms -> [Conns -> Principals \cup {None}]]
          /\ enrolled \in [Conns -> [Realms -> Nat]]
      BY DEF TypeInv, TypeOK
    <3>4. devices' \in [Realms -> [Conns -> Principals \cup {None}]]
      <4> DEFINE row == [devices[ticket.realm] EXCEPT ![c] = ticket.principal]
      <4>1. row \in [Conns -> Principals \cup {None}]
        BY <2>2, <3>3
      <4>2. devices' = devices \/ devices' = [devices EXCEPT ![ticket.realm] = row]
        BY <3>1
      <4> HIDE DEF row
      <4> QED
        BY <2>2, <3>3, <4>1, <4>2
    <3>5. enrolled' \in [Conns -> [Realms -> Nat]]
      BY <2>2, <3>2, <3>3
    <3> QED
      BY <3>4, <3>5
  <2>4. /\ IsFiniteSet(conn[c].tickets \ {ticket})
        /\ conn[c].tickets \ {ticket} \subseteq Grants
    BY <1>3, FS_RemoveElement
  <2>5. ConnOK(s, issued) /\ s.at # "passkey"
    BY <1>1, <1>2, <2>4 DEF ConnOK, ConnType, Standing, Filed
  <2>6. Becomes(c, s)
    BY <2>1
  <2> HIDE DEF s
  <2>7. ConnsOK'
    <3>1. issued' = issued
      BY <1>1
    <3> QED
      BY <2>5, <2>6, <3>1, Becoming
  <2>8. ChallengeStep
    BY <1>1, <2>5, <2>6 DEF ChallengeStep, Becomes, TypeInv, TypeOK
  <2> QED
    BY <1>1, <1>2, <2>3, <2>7, <2>8 DEF TypeInv, TypeOK, ConnsOK, StoreOK, Owned
<1> QED
  BY <1>4, <1>5

LEMMA TablesKeep ==
    ASSUME TypeInv,
           \/ \E c \in Conns : ForgetKey(c) \/ Revoke(c)
           \/ ExpireChallenge
    PROVE  TypeInv' /\ ChallengeStep
<1>1. /\ UNCHANGED <<lone, challenges, issued, conn, attempts, ghosts>> /\ Disturb
      /\ issued \in Nat
  BY DEF ForgetKey, Revoke, ExpireChallenge, TypeInv, TypeOK
<1>2. spent' \in 0..MaxEvents
  BY <1>1, BoundAssumption DEF Disturb, TypeInv, TypeOK
<1>3. late' \in SUBSET (1..issued)
  <2>1. CASE ExpireChallenge
    <3>1. PICK n \in 1..issued : late' = 1..n
      BY <2>1 DEF ExpireChallenge
    <3> QED
      BY <1>1, <3>1
  <2> QED
    BY <2>1 DEF ForgetKey, Revoke, TypeInv, TypeOK
<1>4. devices' \in [Realms -> [Conns -> Principals \cup {None}]]
  <2>1. devices \in [Realms -> [Conns -> Principals \cup {None}]]
    BY DEF TypeInv, TypeOK
  <2>2. CASE \E c \in Conns : ForgetKey(c)
    <3>1. PICK c \in Conns, r \in Realms : devices' = [devices EXCEPT ![r][c] = None]
      BY <2>2, Fields DEF ForgetKey
    <3> QED
      BY <2>1, <3>1
  <2> QED
    BY <2>1, <2>2 DEF Revoke, ExpireChallenge
<1>5. /\ store' \in [Realms -> [user: Principals \cup {None},
                                credentials: SUBSET (1..issued)]]
      /\ Owned'
  <2>1. CASE store' = store
    BY <2>1 DEF TypeInv, TypeOK, Owned
  <2>2. CASE \E r \in Realms : \E gone : Revoked(r, gone)
    BY <2>2 DEF TypeInv, TypeOK, Owned, Revoked
  <2> QED
    BY <2>1, <2>2, Realms0 DEF ForgetKey, Revoke, ExpireChallenge
<1>6. ChallengeStep
  <2>1. late \subseteq late'
    BY DEF ForgetKey, Revoke, ExpireChallenge
  <2> QED
    BY <1>1, <2>1 DEF ChallengeStep
<1> QED
  BY <1>1, <1>2, <1>3, <1>4, <1>5, <1>6
  DEF TypeInv, TypeOK, ConnsOK, OwnChallenge, StoreOK, Numbered, ghosts

LEMMA Initially == Init => TypeInv
<1> SUFFICES ASSUME Init PROVE TypeInv
  OBVIOUS
<1>1. ConnOK(NewConn, 0) /\ NewConn.at = "closed"
  <2>1. NewConn.at = "closed"
    BY DEF NewConn
  <2> QED
    BY <2>1, NewConnOK
<1>2. IsFiniteSet({}) /\ Cardinality({}) <= MaxChallenges
  BY FS_EmptySet, BoundAssumption
<1>3. ConnsOK
  BY <1>1 DEF Init, ConnsOK, ConnOK, OwnChallenge
<1>4. StoreOK
  BY <1>2 DEF Init, StoreOK, Numbered
<1>5. Owned
  BY DEF Init, Owned
<1>6. TypeOK
  BY <1>3, <1>4, BoundAssumption DEF Init, ConnsOK, StoreOK, TypeOK
<1> QED
  BY <1>3, <1>4, <1>5, <1>6 DEF TypeInv

LEMMA TypesKept == TypeInv /\ [Next]_vars => TypeInv' /\ ChallengeStep
<1>1. ASSUME TypeInv, Next PROVE TypeInv' /\ ChallengeStep
  BY <1>1, ConnectKeeps, AnswerKeeps, RelayKeeps, BeginKeeps, FinishesKeep,
     TicketKeeps, TablesKeep
  DEF Next, Answers
<1>2. ASSUME TypeInv, UNCHANGED vars PROVE TypeInv' /\ ChallengeStep
  <2>1. ChallengeStep
    BY <1>2 DEF vars, ChallengeStep
  <2> QED
    BY <1>2, <2>1
    DEF vars, ghosts, TypeInv, TypeOK, ConnsOK, OwnChallenge, StoreOK, Owned
<1> QED
  BY <1>1, <1>2

LEMMA TypesHold == Spec => []TypeInv
BY Initially, TypesKept, PTL DEF Spec

\* For any connections, profiles, realms and principals: pending challenges are
\* told apart and never more than the store of challenges holds, whatever
\* expires or gives way (_save_challenge, _take_challenge), and every connection,
\* passkey store and device key is of its type.
THEOREM ProfilesTypes == Spec => []TypeOK
<1>1. TypeInv => TypeOK
  BY DEF TypeInv
<1> QED
  BY <1>1, TypesHold, PTL

\* For any number of connections, realms and attempts: once a connection is
\* authorized somewhere, the profile a refusal falls back to is of a realm it is
\* authorized for (websocket_handler: previous_profile, authorized_realms).
THEOREM FallbackIsAuthorized == Spec => []FallbackAuthorized
<1>1. TypeInv => FallbackAuthorized
  BY DEF TypeInv, ConnsOK, Standing, FallbackAuthorized
<1> QED
  BY <1>1, TypesHold, PTL

-----------------------------------------------------------------------------
(* A challenge is found again *)

LEMMA ChallengeStays ==
    TypeInv /\ ChallengeKept /\ ChallengeStep => ChallengeKept'
<1> SUFFICES ASSUME TypeInv, ChallengeKept, ChallengeStep,
                    NEW d \in Conns, conn'[d].at = "passkey"
             PROVE  \/ Pending(conn[d].challenge)' # {}
                    \/ conn'[d].challenge \in late'
                    \/ issued' >= conn'[d].challenge + MaxChallenges
  BY DEF ChallengeKept
<1>1. /\ issued \in Nat /\ MaxChallenges \in Nat /\ StoreOK
      /\ \A c \in Conns : conn[c].challenge \in Nat
  BY BoundAssumption DEF TypeInv, TypeOK, ConnType
<1> DEFINE id == conn[d].challenge
<1>2. conn[d].at = "passkey" => \/ \E ch \in challenges : ch.id = id
                                \/ id \in late
                                \/ issued >= id + MaxChallenges
  BY DEF ChallengeKept, Pending
<1>3. CASE conn'[d] = conn[d] /\ challenges' = challenges /\ issued' = issued
  BY <1>2, <1>3 DEF ChallengeStep, Pending
<1>4. CASE \E c \in Conns :
             /\ conn[c].at = "passkey" /\ conn'[c].at # "passkey" /\ Others(c)
             /\ Take(conn[c].challenge) /\ issued' = issued
  <2>1. PICK c \in Conns :
             /\ conn[c].at = "passkey" /\ conn'[c].at # "passkey" /\ Others(c)
             /\ Take(conn[c].challenge) /\ issued' = issued
    BY <1>4
  <2>2. c # d /\ conn'[d] = conn[d]
    BY <2>1 DEF Others
  <2>3. conn[c].challenge # id
    BY <2>1, <2>2 DEF TypeInv, ConnsOK, OwnChallenge
  <2>4. \A ch \in challenges : ch.id = id => ch \in challenges'
    BY <2>1, <2>3 DEF Take, Pending
  <2> QED
    BY <1>2, <2>1, <2>2, <2>4 DEF ChallengeStep, Pending
<1>5. CASE \E c \in Conns, ch \in ChallengeType(issued + 1) :
             /\ ch.id = issued + 1 /\ conn'[c].challenge = issued + 1 /\ Others(c)
             /\ challenges' = SaveChallenge(challenges, ch)
             /\ issued' = issued + 1
  <2>1. PICK c \in Conns, ch \in ChallengeType(issued + 1) :
             /\ ch.id = issued + 1 /\ conn'[c].challenge = issued + 1 /\ Others(c)
             /\ challenges' = SaveChallenge(challenges, ch)
             /\ issued' = issued + 1
    BY <1>5
  <2>2. \A e \in challenges :
           e \in challenges' \/ e.id \in late \/ issued' >= e.id + MaxChallenges
    BY <1>1, <2>1, SaveKeepsStore
  <2>3. CASE d = c
    BY <2>1, <2>3 DEF SaveChallenge, Pending
  <2>4. CASE d # c
    <3>1. conn'[d] = conn[d]
      BY <2>1, <2>4 DEF Others
    <3>2. issued >= id + MaxChallenges => issued' >= id + MaxChallenges
      BY <1>1, <2>1
    <3> QED
      BY <1>2, <2>2, <3>1, <3>2 DEF ChallengeStep, Pending
  <2> QED
    BY <2>3, <2>4
<1> QED
  BY <1>3, <1>4, <1>5 DEF ChallengeStep

\* For any number of connections and challenges: while a connection waits for
\* its passkey, its challenge is pending, or it is past its time, or at least
\* MaxChallenges newer ones were issued (_save_challenge: an expired challenge
\* goes before a live one, the oldest before a newer one).
THEOREM ChallengesKept == Spec => []ChallengeKept
<1>1. Init => ChallengeKept
  BY DEF Init, NewConn, ChallengeKept
<1>2. TypeInv /\ ChallengeKept /\ [Next]_vars => ChallengeKept'
  BY TypesKept, ChallengeStays
<1> QED
  BY <1>1, <1>2, TypesHold, PTL DEF Spec

-----------------------------------------------------------------------------
(* Who gains what, and how *)

Gains(c, q) == Becomes(c, Authorized(conn[c], q)) /\ UNCHANGED <<store, devices, ghosts>>

\* A step takes a connection on or out, with nothing gained; or it is authorized
\* by a token or its key, or proves a passkey, of the owner or to become it; or a
\* ticket is issued or used; or only keys and passkeys go.
Onward(c) ==
    /\ \E s : Becomes(c, s) /\ Belongings(s) \in {Belongings(conn[c]), Belongings(NewConn)}
    /\ UNCHANGED <<store, devices, ghosts>>
ByToken(c) == Realm(c) \notin PasskeyRealms /\ \E q \in Principals : Gains(c, q)
ByKey(c) == Key(Realm(c), c) \in Principals /\ Gains(c, Key(Realm(c), c))
ByPasskey(c) ==
    /\ conn[c].at = "passkey" /\ UNCHANGED <<devices, enrolled>>
    /\ \E q \in Principals :
          /\ Proved(c, q)
          /\ \/ q = store[Realm(c)].user /\ store' = store
             \/ MayRegister(Realm(c), q) /\ store' = Stored(Realm(c), q, conn[c].challenge)
KeysGo(c) == ForgetKey(c) \/ Revoke(c)
Step(c) == \/ Onward(c) \/ ByToken(c) \/ ByKey(c) \/ ByPasskey(c)
           \/ IssueTicket(c) \/ UseTicket(c) \/ KeysGo(c)
ExpiresOnly == UNCHANGED <<store, devices, conn, ghosts>>

LEMMA OnwardSteps ==
    ASSUME TypeInv, NEW c \in Conns,
           \/ Connect(c) \/ SwitchProfile(c) \/ NoAnswer(c) \/ OpenBackend(c)
           \/ BackendCloses(c) \/ Disconnect(c)
           \/ BeginAuthentication(c) \/ BeginRegistration(c) \/ FinishFails(c)
    PROVE  Onward(c)
<1>1. /\ issued \in Nat /\ ConnOK(conn[c], issued) /\ ConnOK(NewConn, issued)
      /\ UNCHANGED <<store, devices>>
  BY Fields, NewConnOK
  DEF Connect, SwitchProfile, NoAnswer, OpenBackend, BackendCloses, Disconnect,
      BeginAuthentication, BeginRegistration, FinishFails, Failed
<1>2. ghosts' = ghosts
  BY DEF Connect, SwitchProfile, NoAnswer, OpenBackend, BackendCloses, Disconnect,
         BeginAuthentication, BeginRegistration, FinishFails, Failed, ghosts
<1>3. CASE \E s \in {NewConn, conn[c]}, p \in Profiles : Becomes(c, Selected(s, p))
  BY <1>1, <1>2, <1>3, SelectedOK DEF Onward
<1>4. CASE Becomes(c, Rejected(conn[c])) \/ Becomes(c, NewConn)
  BY <1>1, <1>2, <1>4, RejectedOK DEF Onward
<1>5. ASSUME NEW s, Becomes(c, s), Belongings(s) = Belongings(conn[c])
      PROVE  Onward(c)
  BY <1>1, <1>2, <1>5 DEF Onward
<1>6. \A at : Belongings([conn[c] EXCEPT !.at = at]) = Belongings(conn[c])
  BY <1>1 DEF ConnOK, ConnType, Belongings
<1>7. CASE Connect(c) \/ SwitchProfile(c)
  <2>1. \A p \in Reachable : p \in Profiles
    BY LoneAssumption DEF Reachable
  <2> QED
    BY <1>3, <1>7, <2>1 DEF Connect, SwitchProfile
<1>8. CASE OpenBackend(c)
  <2>1. PICK at : Becomes(c, [conn[c] EXCEPT !.at = at])
    BY <1>8 DEF OpenBackend
  <2> QED
    BY <1>5, <1>6, <2>1
<1>9. CASE BackendCloses(c)
  <2>1. conn[c].profile \in Profiles
    BY <1>1, <1>9 DEF BackendCloses, ConnOK, Standing
  <2>2. CASE Becomes(c, [conn[c] EXCEPT !.at = "down"])
    BY <1>5, <1>6, <2>2
  <2> QED
    BY <1>3, <1>9, <2>1, <2>2 DEF BackendCloses
<1>10. CASE BeginAuthentication(c)
  <2>1. PICK hasKey :
           Becomes(c, [conn[c] EXCEPT !.at = "passkey", !.mode = "authenticate",
                                      !.challenge = issued + 1, !.hasKey = hasKey])
    BY <1>10 DEF BeginAuthentication
  <2> DEFINE s == [conn[c] EXCEPT !.at = "passkey", !.mode = "authenticate",
                                  !.challenge = issued + 1, !.hasKey = hasKey]
  <2>2. Belongings(s) = Belongings(conn[c]) /\ Becomes(c, s)
    BY <1>1, <2>1 DEF ConnOK, ConnType, Belongings
  <2> HIDE DEF s
  <2> QED
    BY <1>5, <2>2
<1>11. CASE BeginRegistration(c)
  <2>1. PICK q, hasKey :
           \/ Becomes(c, Rejected(conn[c]))
           \/ Becomes(c, [conn[c] EXCEPT !.at = "passkey", !.mode = "register",
                                         !.challenge = issued + 1,
                                         !.bootstrap = q, !.hasKey = hasKey])
    BY <1>11 DEF BeginRegistration
  <2> DEFINE s == [conn[c] EXCEPT !.at = "passkey", !.mode = "register",
                                  !.challenge = issued + 1,
                                  !.bootstrap = q, !.hasKey = hasKey]
  <2>2. Belongings(s) = Belongings(conn[c])
    BY <1>1 DEF ConnOK, ConnType, Belongings
  <2>3. CASE Becomes(c, s)
    <3> HIDE DEF s
    <3> QED
      BY <1>5, <2>2, <2>3
  <2> QED
    BY <1>4, <2>1, <2>3
<1> QED
  BY <1>4, <1>7, <1>8, <1>9, <1>10, <1>11 DEF Disconnect, NoAnswer, FinishFails, Failed

LEMMA StepsSorted ==
    TypeInv /\ [Next]_vars => ExpiresOnly \/ \E c \in Conns : Step(c)
<1> SUFFICES ASSUME TypeInv, [Next]_vars
             PROVE  ExpiresOnly \/ \E c \in Conns : Step(c)
  OBVIOUS
<1>1. CASE ExpireChallenge \/ UNCHANGED vars
  BY <1>1 DEF ExpireChallenge, vars, ExpiresOnly
<1>2. ASSUME NEW c \in Conns, TokenAnswered(c) \/ DeviceKeyAnswered(c)
      PROVE  Step(c)
  <2>1. /\ issued \in Nat /\ ConnOK(conn[c], issued) /\ Realm(c) \in Realms
        /\ PrincipalsOf[Realm(c)] \subseteq Principals
        /\ UNCHANGED <<store, devices, ghosts>>
    BY <1>2, Fields DEF TokenAnswered, DeviceKeyAnswered
  <2>2. DeviceKeyAnswered(c) => ByKey(c)
    <3>1. Key(Realm(c), c) \in Principals \cup {None}
      BY <2>1 DEF Key, TypeInv, TypeOK
    <3> QED
      BY <2>1, <3>1 DEF DeviceKeyAnswered, ByKey, Gains
  <2>3. TokenAnswered(c) => ByToken(c) \/ Onward(c)
    <3>1. Becomes(c, Rejected(conn[c])) => Onward(c)
      BY <2>1, RejectedOK DEF Onward
    <3>2. TokenAnswered(c) => Realm(c) \notin PasskeyRealms
      BY <2>1 DEF TokenAnswered, ConnOK, Standing, Realm
    <3> QED
      BY <2>1, <3>1, <3>2 DEF TokenAnswered, ByToken, Gains
  <2> QED
    BY <1>2, <2>2, <2>3 DEF Step
<1>3. ASSUME NEW c \in Conns, FinishAuthentication(c) \/ FinishRegistration(c)
      PROVE  Step(c)
  <2>1. /\ issued \in Nat /\ ConnOK(conn[c], issued) /\ Realm(c) \in Realms
        /\ conn[c].at = "passkey" /\ UNCHANGED <<devices, enrolled>>
    BY <1>3, Fields DEF FinishAuthentication, FinishRegistration
  <2>2. CASE Failed(c)
    BY <2>1, <2>2, RejectedOK DEF Failed, Onward, Step, ghosts
  <2>3. store[Realm(c)].credentials # {} => store[Realm(c)].user \in Principals
    BY <2>1 DEF TypeInv, TypeOK, Owned
  <2>4. FinishAuthentication(c) => Failed(c) \/ ByPasskey(c)
    BY <2>1, <2>3 DEF FinishAuthentication, ByPasskey
  <2>5. FinishRegistration(c) => Failed(c) \/ ByPasskey(c)
    <3>1. conn[c].mode = "register" => conn[c].bootstrap \in Principals
      BY <2>1 DEF ConnOK, Standing
    <3> QED
      BY <2>1, <3>1 DEF FinishRegistration, ByPasskey
  <2> QED
    BY <1>3, <2>2, <2>4, <2>5 DEF Step
<1> QED
  BY <1>1, <1>2, <1>3, OnwardSteps DEF Next, Answers, Step, KeysGo

-----------------------------------------------------------------------------
(* A realm has one owner *)

\* Who owns a realm stays its owner.
LEMMA OwnerStays ==
    TypeInv /\ [Next]_vars =>
        \A r \in Realms : store[r].user # None => store'[r].user = store[r].user
<1> SUFFICES ASSUME TypeInv, [Next]_vars, NEW r \in Realms, store[r].user # None
             PROVE  store'[r].user = store[r].user
  OBVIOUS
<1>1. store \in [Realms -> [user: Principals \cup {None},
                            credentials: SUBSET (1..issued)]]
  BY DEF TypeInv, TypeOK
<1>2. CASE store' = store
  BY <1>2
<1>3. ASSUME NEW c \in Conns, ByPasskey(c) PROVE store'[r].user = store[r].user
  <2>1. Realm(c) \in Realms
    BY <1>3, Fields DEF ByPasskey
  <2>2. PICK q \in Principals :
          \/ store' = store
          \/ MayRegister(Realm(c), q) /\ store' = Stored(Realm(c), q, conn[c].challenge)
    BY <1>3 DEF ByPasskey
  <2> QED
    BY <1>1, <2>1, <2>2 DEF MayRegister, Stored
<1>4. ASSUME NEW c \in Conns, KeysGo(c) PROVE store'[r].user = store[r].user
  <2>1. store' = store \/ \E gone : Revoked(Realm(c), gone)
    BY <1>4 DEF KeysGo, ForgetKey, Revoke
  <2> QED
    BY <1>1, <2>1 DEF Revoked
<1> QED
  BY <1>2, <1>3, <1>4, StepsSorted
  DEF ExpiresOnly, Step, Onward, ByToken, ByKey, Gains, IssueTicket, UseTicket

\* Whatever a connection has for a realm is the owner's.
Within(s, r, u) ==
    /\ s.authorized[r] \in {None, u}
    /\ s.enrollments[r].principal \in {None, u}
    /\ \A t \in s.tickets : t.realm = r => t.principal \in {None, u}

LEMMA ProvedWithin ==
    ASSUME TypeInv, NEW c \in Conns, conn[c].at = "passkey", NEW q \in Principals,
           Proved(c, q), NEW r \in Realms, NEW u, Within(conn[c], r, u),
           r = Realm(c) => q = u
    PROVE  \E s : Becomes(c, s) /\ Within(s, r, u)
<1> DEFINE s == Authorized(conn[c], q)
           grant == [realm |-> Realm(c), profile |-> conn[c].profile, principal |-> q]
           t == [s EXCEPT !.enrollments[Realm(c)] = grant]
<1>1. issued \in Nat /\ ConnOK(conn[c], issued) /\ Realm(c) \in Realms
  BY Fields
<1>2. Becomes(c, s) \/ Becomes(c, t)
  BY DEF Proved
<1>3. s \in ConnType(issued) /\ s.enrollments = conn[c].enrollments
      /\ s.tickets = conn[c].tickets
      /\ s.authorized = [conn[c].authorized EXCEPT ![Realm(c)] = q]
  BY <1>1, AuthorizedOK DEF ConnOK, ConnType, Authorized, Realm
<1>4. Within(s, r, u)
  BY <1>1, <1>3 DEF Within, ConnOK, ConnType
<1>5. grant.principal = q
  OBVIOUS
<1> HIDE DEF s, grant
<1>6. /\ t.enrollments = [s.enrollments EXCEPT ![Realm(c)] = grant]
      /\ t.tickets = s.tickets /\ t.authorized = s.authorized
  BY <1>3 DEF ConnType
<1>7. Within(t, r, u)
  BY <1>1, <1>3, <1>4, <1>5, <1>6 DEF Within, ConnType
<1> HIDE DEF t
<1> QED
  BY <1>2, <1>4, <1>7

\* A step of a connection gives it nothing for a realm but what is the owner's,
\* and leaves the keys of the realm the owner's.
LEMMA StepWithin ==
    ASSUME TypeInv, NEW c \in Conns, Step(c), NEW r \in PasskeyRealms,
           NEW u \in Principals \cup {None}, u = store'[r].user,
           store[r].user # None => store[r].user = u,
           Within(conn[c], r, u), \A d \in Conns : devices[r][d] \in {None, u}
    PROVE  /\ \E s : Becomes(c, s) /\ Within(s, r, u)
           /\ \A d \in Conns : devices'[r][d] \in {None, u}
<1>1. /\ issued \in Nat /\ ConnOK(conn[c], issued) /\ r \in Realms
      /\ devices \in [Realms -> [Conns -> Principals \cup {None}]]
  BY Fields, Realms0 DEF TypeInv, TypeOK
<1>2. Becomes(c, conn[c]) <=> conn' = conn
  BY DEF Becomes, TypeInv, TypeOK
<1>3. CASE Onward(c)
  <2>1. Within(NewConn, r, u)
    BY <1>1 DEF Within, NewConn, NoEnrollment
  <2>2. PICK s : Becomes(c, s)
                 /\ Belongings(s) \in {Belongings(conn[c]), Belongings(NewConn)}
    BY <1>3 DEF Onward
  <2>3. Within(s, r, u)
    BY <2>1, <2>2 DEF Within, Belongings
  <2> QED
    BY <1>3, <2>2, <2>3 DEF Onward
<1>4. ASSUME NEW q \in Principals, Gains(c, q), r = Realm(c) => q = u
      PROVE  /\ \E s : Becomes(c, s) /\ Within(s, r, u)
             /\ \A d \in Conns : devices'[r][d] \in {None, u}
  <2>1. Within(Authorized(conn[c], q), r, u)
    BY <1>1, <1>4 DEF Within, Authorized, ConnOK, ConnType, Realm
  <2> QED
    BY <1>4, <2>1 DEF Gains
<1>5. CASE ByToken(c)
  BY <1>4, <1>5 DEF ByToken
<1>6. CASE ByKey(c)
  <2>1. r = Realm(c) => Key(Realm(c), c) = u
    BY <1>6, Realms0 DEF ByKey, Key
  <2> QED
    BY <1>4, <1>6, <2>1 DEF ByKey
<1>7. CASE ByPasskey(c)
  <2>1. PICK q \in Principals :
          /\ Proved(c, q)
          /\ \/ q = store[Realm(c)].user /\ store' = store
             \/ MayRegister(Realm(c), q) /\ store' = Stored(Realm(c), q, conn[c].challenge)
    BY <1>7 DEF ByPasskey
  <2>2. r = Realm(c) => q = u
    BY <1>1, <2>1 DEF Stored, TypeInv, TypeOK
  <2> QED
    BY <1>1, <1>7, <2>1, <2>2, ProvedWithin DEF ByPasskey
<1>8. CASE IssueTicket(c)
  <2> DEFINE grant == conn[c].enrollments[Realm(c)]
             s == [conn[c] EXCEPT !.sent = TRUE, !.tickets = @ \cup {grant},
                                  !.enrollments[Realm(c)] = NoEnrollment]
  <2>1. /\ Becomes(c, s) /\ devices' = devices /\ conn[c].at = "relay"
        /\ grant.profile = conn[c].profile
    BY <1>8 DEF IssueTicket
  <2>2. Realm(c) \in Realms /\ conn[c].profile \in Profiles
    BY <1>1, <2>1, Fields DEF ConnOK, Standing
  <2>3. grant.realm = Realm(c)
    BY <1>1, <2>1, <2>2, Realms0 DEF ConnOK, Filed, NoEnrollment
  <2>4. /\ s.tickets = conn[c].tickets \cup {grant}
        /\ s.enrollments = [conn[c].enrollments EXCEPT ![Realm(c)] = NoEnrollment]
        /\ s.authorized = conn[c].authorized
    BY <1>1 DEF ConnOK, ConnType
  <2>5. grant.realm = r => grant.principal \in {None, u}
    BY <2>3 DEF Within
  <2> HIDE DEF grant, s
  <2>6. Within(s, r, u)
    <3>1. s.enrollments[r] \in {NoEnrollment, conn[c].enrollments[r]}
      BY <1>1, <2>2, <2>4 DEF ConnOK, ConnType
    <3> QED
      BY <2>4, <2>5, <3>1 DEF Within, NoEnrollment
  <2> QED
    BY <2>1, <2>6
<1>9. CASE UseTicket(c)
  <2>1. PICK ticket \in conn[c].tickets :
          /\ Becomes(c, [conn[c] EXCEPT !.tickets = @ \ {ticket}])
          /\ \/ devices' = [devices EXCEPT ![ticket.realm][c] = ticket.principal]
             \/ devices' = devices
    BY <1>9 DEF UseTicket, RegisterKey
  <2> DEFINE s == [conn[c] EXCEPT !.tickets = @ \ {ticket}]
  <2>2. /\ s.tickets = conn[c].tickets \ {ticket}
        /\ s.enrollments = conn[c].enrollments /\ s.authorized = conn[c].authorized
    BY <1>1 DEF ConnOK, ConnType
  <2>3. ticket.realm = r => ticket.principal \in {None, u}
    BY DEF Within
  <2>4. Becomes(c, s)
    BY <2>1
  <2>5. \A d \in Conns : devices'[r][d] \in {devices[r][d], None, u}
    BY <1>1, <2>1, <2>3
  <2> HIDE DEF s
  <2>6. Within(s, r, u)
    BY <2>2 DEF Within
  <2> QED
    BY <2>4, <2>5, <2>6
<1>10. CASE KeysGo(c)
  <2>1. conn' = conn
    BY <1>10 DEF KeysGo, ForgetKey, Revoke
  <2>2. devices' = devices \/ devices' = [devices EXCEPT ![Realm(c)][c] = None]
    BY <1>10 DEF KeysGo, ForgetKey, Revoke
  <2>3. \A d \in Conns : devices'[r][d] \in {devices[r][d], None}
    BY <1>1, <2>2
  <2> QED
    BY <1>2, <2>1, <2>3
<1> QED
  BY <1>3, <1>5, <1>6, <1>7, <1>8, <1>9, <1>10 DEF Step

LEMMA PrincipalStays ==
    TypeInv /\ TypeInv' /\ RealmPrincipal /\ [Next]_vars => RealmPrincipal'
<1> SUFFICES ASSUME TypeInv, TypeInv', RealmPrincipal, [Next]_vars,
                    NEW r \in PasskeyRealms
             PROVE  /\ store'[r].credentials # {} => store'[r].user # None
                    /\ \A c \in Conns : /\ Within(conn'[c], r, store'[r].user)
                                        /\ devices'[r][c] \in {None, store'[r].user}
  BY DEF RealmPrincipal, Owns, Within
<1> DEFINE u == store'[r].user
<1>1. r \in Realms /\ u \in Principals \cup {None}
      /\ (store'[r].credentials # {} => store'[r].user # None)
  BY Realms0 DEF TypeInv, TypeOK, Owned
<1>2. store[r].user # None => store[r].user = u
  BY <1>1, OwnerStays
<1>3. \A c \in Conns : Within(conn[c], r, u) /\ devices[r][c] \in {None, u}
  BY <1>2 DEF RealmPrincipal, Owns, Within
<1>4. CASE ExpiresOnly
  BY <1>1, <1>3, <1>4 DEF ExpiresOnly
<1>5. ASSUME NEW c \in Conns, Step(c)
      PROVE  \A d \in Conns : Within(conn'[d], r, u) /\ devices'[r][d] \in {None, u}
  <2> HIDE DEF u
  <2>1. u = store'[r].user
    BY DEF u
  <2>2. /\ \E s : Becomes(c, s) /\ Within(s, r, u)
        /\ \A d \in Conns : devices'[r][d] \in {None, u}
    BY <1>1, <1>2, <1>3, <1>5, <2>1, StepWithin
  <2>3. conn \in [Conns -> ConnType(issued)]
    BY DEF TypeInv, TypeOK
  <2> QED
    BY <1>3, <2>2, <2>3 DEF Becomes
<1> QED
  BY <1>1, <1>4, <1>5, StepsSorted

\* For any connections, profiles, realms and principals: a realm with passkeys
\* belongs to one principal, and whoever is authorized in it, has a device key,
\* a ticket or a pending enrollment for it, is that one (begin_registration,
\* finish_registration, RealmDeviceKeyRegistry).
THEOREM OneOwner == Spec => []RealmPrincipal
<1>1. Init => RealmPrincipal
  BY Realms0 DEF Init, NewConn, NoEnrollment, RealmPrincipal, Owns
<1>2. TypeInv /\ TypeInv' /\ RealmPrincipal /\ [Next]_vars => RealmPrincipal'
  BY PrincipalStays
<1> QED
  BY <1>1, <1>2, TypesHold, PTL DEF Spec

\* The owner of a realm never changes, whoever bootstraps after its last passkey
\* is revoked, for any number of connections.
THEOREM OwnerNeverChanges == Spec => RealmUserFixed
<1>1. TypeInv /\ [Next]_vars =>
         [\A r \in Realms : store[r].user # None => store'[r].user = store[r].user]_vars
  BY OwnerStays
<1> QED
  BY <1>1, TypesHold, PTL DEF Spec, RealmUserFixed

-----------------------------------------------------------------------------
(* One device key for one ceremony *)

\* The enrollments a connection may still turn into a key of its device.
TicketsFor(s, r) == {t \in s.tickets : t.realm = r}
Waiting(s, r) == IF s.enrollments[r] # NoEnrollment THEN 1 ELSE 0
Held(s, r) == Cardinality(TicketsFor(s, r)) + Waiting(s, r)

LEMMA HeldNumber ==
    ASSUME NEW s, IsFiniteSet(s.tickets), NEW r
    PROVE  IsFiniteSet(TicketsFor(s, r)) /\ Cardinality(TicketsFor(s, r)) \in Nat
           /\ Waiting(s, r) \in 0..1 /\ Held(s, r) \in Nat
<1>1. IsFiniteSet(TicketsFor(s, r)) /\ Cardinality(TicketsFor(s, r)) \in Nat
  BY FS_Subset, FS_CardinalityType DEF TicketsFor
<1>2. Waiting(s, r) \in 0..1
  BY DEF Waiting
<1> QED
  BY <1>1, <1>2 DEF Held

LEMMA SameHeld ==
    ASSUME NEW s, NEW t, t.tickets = s.tickets, t.enrollments = s.enrollments, NEW r
    PROVE  Held(t, r) = Held(s, r)
BY DEF Held, TicketsFor, Waiting

\* What a step of a connection adds to its keys and to what it may still enroll,
\* a ceremony has paid for.
Paid(c, r, s) ==
    /\ conn' = [conn EXCEPT ![c] = s]
    /\ enrolled'[c][r] + Held(s, r) - ceremonies'[c][r]
          <= enrolled[c][r] + Held(conn[c], r) - ceremonies[c][r]
    /\ \A d \in Conns \ {c} : /\ enrolled'[d] = enrolled[d]
                              /\ ceremonies'[d] = ceremonies[d]

LEMMA StepPaid ==
    ASSUME TypeInv, NEW c \in Conns, Step(c), NEW r \in Realms
    PROVE  \E s : Paid(c, r, s)
<1>1. /\ issued \in Nat /\ ConnOK(conn[c], issued)
      /\ ceremonies \in [Conns -> [Realms -> Nat]]
      /\ enrolled \in [Conns -> [Realms -> Nat]]
      /\ conn = [conn EXCEPT ![c] = conn[c]]
  BY Fields DEF TypeInv, TypeOK
<1>2. /\ enrolled[c][r] \in Nat /\ ceremonies[c][r] \in Nat
      /\ IsFiniteSet(TicketsFor(conn[c], r))
      /\ Cardinality(TicketsFor(conn[c], r)) \in Nat
      /\ Waiting(conn[c], r) \in 0..1 /\ Held(conn[c], r) \in Nat
  BY <1>1, HeldNumber DEF ConnOK, Filed
<1>3. ASSUME NEW s, Becomes(c, s), ghosts' = ghosts,
             Held(s, r) \in Nat, Held(s, r) <= Held(conn[c], r)
      PROVE  \E t : Paid(c, r, t)
  <2>1. Paid(c, r, s)
    BY <1>2, <1>3 DEF Becomes, ghosts, Paid
  <2> QED
    BY <2>1
<1>4. CASE Onward(c)
  <2>1. PICK s : Becomes(c, s)
                 /\ Belongings(s) \in {Belongings(conn[c]), Belongings(NewConn)}
    BY <1>4 DEF Onward
  <2>2. Held(NewConn, r) = 0
    <3>1. TicketsFor(NewConn, r) = {} /\ Waiting(NewConn, r) = 0
      BY DEF TicketsFor, Waiting, NewConn
    <3> QED
      BY <3>1, FS_EmptySet DEF Held
  <2>3. Held(s, r) \in {Held(conn[c], r), Held(NewConn, r)}
    <3>1. \E u \in {conn[c], NewConn} :
             s.tickets = u.tickets /\ s.enrollments = u.enrollments
      BY <2>1 DEF Belongings
    <3> QED
      BY <3>1, SameHeld
  <2>4. ghosts' = ghosts
    BY <1>4 DEF Onward
  <2>5. Held(s, r) \in Nat /\ Held(s, r) <= Held(conn[c], r)
    BY <1>2, <2>2, <2>3
  <2> QED
    BY <1>3, <2>1, <2>4, <2>5
<1>5. CASE \E q \in Principals : Gains(c, q)
  <2>1. PICK q \in Principals : Gains(c, q)
    BY <1>5
  <2>2. Held(Authorized(conn[c], q), r) = Held(conn[c], r)
    <3>1. Authorized(conn[c], q).tickets = conn[c].tickets
          /\ Authorized(conn[c], q).enrollments = conn[c].enrollments
      BY <1>1 DEF Authorized, ConnOK, ConnType
    <3> QED
      BY <3>1, SameHeld
  <2> QED
    BY <1>2, <1>3, <2>1, <2>2 DEF Gains
<1>6. CASE ByPasskey(c)
  <2>1. PICK q \in Principals : Proved(c, q)
    BY <1>6 DEF ByPasskey
  <2> DEFINE s == Authorized(conn[c], q)
             grant == [realm |-> Realm(c), profile |-> conn[c].profile, principal |-> q]
             t == [s EXCEPT !.enrollments[Realm(c)] = grant]
  <2>2. /\ Becomes(c, s) \/ Becomes(c, t)
        /\ ceremonies' = [ceremonies EXCEPT ![c][Realm(c)] = @ + 1]
        /\ enrolled' = enrolled
    BY <1>6, <2>1 DEF Proved, ByPasskey
  <2>3. Realm(c) \in Realms
    BY <1>6, Fields DEF ByPasskey
  <2>4. s \in ConnType(issued) /\ s.enrollments = conn[c].enrollments
        /\ s.tickets = conn[c].tickets
    BY <1>1, <1>6, AuthorizedOK DEF ByPasskey, ConnOK
  <2> HIDE DEF s, grant
  <2>5. /\ t.enrollments = [s.enrollments EXCEPT ![Realm(c)] = grant]
        /\ t.tickets = s.tickets
    BY <2>4 DEF ConnType
  <2>6. ceremonies'[c][r] = IF r = Realm(c) THEN ceremonies[c][r] + 1
                                            ELSE ceremonies[c][r]
    BY <1>1, <2>2, <2>3
  <2>7. /\ \A d \in Conns \ {c} : ceremonies'[d] = ceremonies[d]
        /\ ceremonies'[c][r] \in Nat
    BY <1>1, <1>2, <2>2, <2>6
  <2>8. Held(s, r) = Held(conn[c], r)
    BY <2>4, SameHeld
  <2>9. /\ Waiting(t, r) \in 0..1 /\ TicketsFor(t, r) = TicketsFor(conn[c], r)
        /\ r # Realm(c) => Waiting(t, r) = Waiting(conn[c], r)
    BY <2>3, <2>4, <2>5 DEF Waiting, TicketsFor, ConnType
  <2>10. /\ Held(t, r) \in Nat
         /\ Held(t, r) <= Held(conn[c], r) + (IF r = Realm(c) THEN 1 ELSE 0)
    BY <1>2, <2>9 DEF Held
  <2> HIDE DEF t
  <2>11. CASE Becomes(c, s)
    <3>1. Paid(c, r, s)
      BY <1>2, <2>2, <2>6, <2>7, <2>8, <2>11 DEF Becomes, Paid
    <3> QED
      BY <3>1
  <2>12. CASE Becomes(c, t)
    <3>1. /\ Held(t, r) - ceremonies'[c][r] <= Held(conn[c], r) - ceremonies[c][r]
          /\ enrolled'[c][r] = enrolled[c][r]
      BY <1>2, <2>2, <2>6, <2>7, <2>10
    <3>2. Paid(c, r, t)
      BY <1>2, <2>2, <2>7, <2>10, <2>12, <3>1 DEF Becomes, Paid
    <3> QED
      BY <3>2
  <2> QED
    BY <2>2, <2>11, <2>12
<1>7. CASE IssueTicket(c)
  <2> DEFINE grant == conn[c].enrollments[Realm(c)]
             s == [conn[c] EXCEPT !.sent = TRUE, !.tickets = @ \cup {grant},
                                  !.enrollments[Realm(c)] = NoEnrollment]
  <2>1. /\ Becomes(c, s) /\ ghosts' = ghosts /\ conn[c].at = "relay"
        /\ grant.profile = conn[c].profile
    BY <1>7 DEF IssueTicket
  <2>2. Realm(c) \in Realms /\ conn[c].profile \in Profiles
    BY <1>1, <2>1, Fields DEF ConnOK, Standing
  <2>3. grant # NoEnrollment
    BY <2>1, <2>2, Realms0 DEF NoEnrollment
  <2>4. grant.realm = Realm(c)
    BY <1>1, <2>2, <2>3 DEF ConnOK, Filed
  <2> HIDE DEF grant
  <2>5. /\ s.tickets = conn[c].tickets \cup {grant}
        /\ s.enrollments = [conn[c].enrollments EXCEPT ![Realm(c)] = NoEnrollment]
    BY <1>1 DEF ConnOK, ConnType
  <2> HIDE DEF s
  <2>6. CASE r = Realm(c)
    <3>1. TicketsFor(s, r) = TicketsFor(conn[c], r) \cup {grant}
      BY <2>4, <2>5, <2>6 DEF TicketsFor
    <3>2. Cardinality(TicketsFor(s, r)) \in {Cardinality(TicketsFor(conn[c], r)),
                                             Cardinality(TicketsFor(conn[c], r)) + 1}
      BY <1>2, <3>1, FS_AddElement
    <3>3. Waiting(s, r) = 0
      BY <1>1, <2>2, <2>5, <2>6 DEF Waiting, ConnOK, ConnType
    <3>4. Waiting(conn[c], r) = 1
      BY <2>3, <2>6 DEF Waiting, grant
    <3>5. Held(s, r) \in Nat /\ Held(s, r) <= Held(conn[c], r)
      BY <1>2, <3>2, <3>3, <3>4 DEF Held
    <3> QED
      BY <1>3, <2>1, <3>5
  <2>7. CASE r # Realm(c)
    <3>1. TicketsFor(s, r) = TicketsFor(conn[c], r)
      BY <2>4, <2>5, <2>7 DEF TicketsFor
    <3>2. Waiting(s, r) = Waiting(conn[c], r)
      BY <1>1, <2>5, <2>7 DEF Waiting, ConnOK, ConnType
    <3>3. Held(s, r) = Held(conn[c], r)
      BY <3>1, <3>2 DEF Held
    <3> QED
      BY <1>2, <1>3, <2>1, <3>3
  <2> QED
    BY <2>6, <2>7
<1>8. CASE UseTicket(c)
  <2>1. PICK ticket \in conn[c].tickets :
          /\ Becomes(c, [conn[c] EXCEPT !.tickets = @ \ {ticket}])
          /\ \/ enrolled' = [enrolled EXCEPT ![c][ticket.realm] = @ + 1]
             \/ enrolled' = enrolled
    BY <1>8 DEF UseTicket
  <2> DEFINE s == [conn[c] EXCEPT !.tickets = @ \ {ticket}]
  <2>2. /\ s.tickets = conn[c].tickets \ {ticket}
        /\ s.enrollments = conn[c].enrollments
    BY <1>1 DEF ConnOK, ConnType
  <2>3. Becomes(c, s) /\ ceremonies' = ceremonies
    BY <1>8, <2>1 DEF UseTicket
  <2>4. Waiting(s, r) = Waiting(conn[c], r)
    BY <2>2 DEF Waiting
  <2>5. enrolled'[c][r] \in {enrolled[c][r],
                             IF r = ticket.realm THEN enrolled[c][r] + 1
                                                 ELSE enrolled[c][r]}
        /\ \A d \in Conns \ {c} : enrolled'[d] = enrolled[d]
    BY <1>1, <2>1
  <2> HIDE DEF s
  <2>6. CASE r = ticket.realm
    <3>1. TicketsFor(s, r) = TicketsFor(conn[c], r) \ {ticket}
          /\ ticket \in TicketsFor(conn[c], r)
      BY <2>2, <2>6 DEF TicketsFor
    <3>2. Cardinality(TicketsFor(s, r)) = Cardinality(TicketsFor(conn[c], r)) - 1
      BY <1>2, <3>1, FS_RemoveElement
    <3>3. Held(s, r) = Held(conn[c], r) - 1
      BY <1>2, <2>4, <3>2 DEF Held
    <3> QED
      <4>1. Paid(c, r, s)
        BY <1>2, <2>3, <2>5, <2>6, <3>3 DEF Becomes, Paid
      <4> QED
        BY <4>1
  <2>7. CASE r # ticket.realm
    <3>1. TicketsFor(s, r) = TicketsFor(conn[c], r)
      BY <2>2, <2>7 DEF TicketsFor
    <3>2. Held(s, r) = Held(conn[c], r)
      BY <2>4, <3>1 DEF Held
    <3> QED
      <4>1. Paid(c, r, s)
        BY <1>2, <2>3, <2>5, <2>7, <3>2 DEF Becomes, Paid
      <4> QED
        BY <4>1
  <2> QED
    BY <2>6, <2>7
<1>9. CASE KeysGo(c)
  <2>1. conn' = conn /\ ghosts' = ghosts
    BY <1>9 DEF KeysGo, ForgetKey, Revoke
  <2> QED
    BY <1>1, <1>2, <1>3, <2>1 DEF Becomes
<1>10. ByToken(c) \/ ByKey(c) => \E q \in Principals : Gains(c, q)
  BY DEF ByToken, ByKey
<1> QED
  BY <1>4, <1>5, <1>6, <1>7, <1>8, <1>9, <1>10 DEF Step

LEMMA EnrollmentsHeld ==
    TypeInv => \A d \in Conns, r \in Realms :
                  Enrollments(d, r) = enrolled[d][r] + Held(conn[d], r)
<1> SUFFICES ASSUME TypeInv, NEW d \in Conns, NEW r \in Realms
             PROVE  Enrollments(d, r) = enrolled[d][r] + Held(conn[d], r)
  OBVIOUS
<1>1. IsFiniteSet(conn[d].tickets) /\ enrolled[d][r] \in Nat
  BY DEF TypeInv, TypeOK, ConnsOK, Filed
<1>2. Enrollments(d, r) = enrolled[d][r] + Cardinality(TicketsFor(conn[d], r))
                            + Waiting(conn[d], r)
  BY DEF Enrollments, TicketsFor, Waiting
<1>3. Cardinality(TicketsFor(conn[d], r)) \in Nat /\ Waiting(conn[d], r) \in 0..1
  BY <1>1, HeldNumber
<1> QED
  BY <1>1, <1>2, <1>3 DEF Held

LEMMA EnrolledStays ==
    TypeInv /\ TypeInv' /\ EnrolledOncePerCeremony /\ [Next]_vars
      => EnrolledOncePerCeremony'
<1> SUFFICES ASSUME TypeInv, TypeInv', EnrolledOncePerCeremony, [Next]_vars,
                    NEW d \in Conns, NEW r \in Realms
             PROVE  enrolled'[d][r] + Held(conn'[d], r) <= ceremonies'[d][r]
  <2>1. TypeInv' => (\A d \in Conns, r \in Realms :
                        Enrollments(d, r) = enrolled[d][r] + Held(conn[d], r))'
    BY EnrollmentsHeld, PTL
  <2> QED
    BY <2>1 DEF EnrolledOncePerCeremony
<1>1. /\ IsFiniteSet(conn[d].tickets) /\ IsFiniteSet(conn'[d].tickets)
      /\ conn \in [Conns -> ConnType(issued)]
  BY DEF TypeInv, TypeOK, ConnsOK, Filed
<1>2. /\ enrolled[d][r] \in Nat /\ ceremonies[d][r] \in Nat
      /\ enrolled'[d][r] \in Nat /\ ceremonies'[d][r] \in Nat
      /\ Held(conn[d], r) \in Nat /\ Held(conn'[d], r) \in Nat
  BY <1>1, HeldNumber DEF TypeInv, TypeOK
<1>3. enrolled[d][r] + Held(conn[d], r) <= ceremonies[d][r]
  <2>1. Enrollments(d, r) <= ceremonies[d][r]
    BY DEF EnrolledOncePerCeremony
  <2> QED
    BY <2>1, EnrollmentsHeld
<1>4. CASE ExpiresOnly
  BY <1>3, <1>4 DEF ExpiresOnly, ghosts
<1>5. ASSUME NEW c \in Conns, Step(c)
      PROVE  enrolled'[d][r] + Held(conn'[d], r) <= ceremonies'[d][r]
  <2>1. PICK s : Paid(c, r, s)
    BY <1>5, StepPaid
  <2>2. CASE c = d
    <3>1. conn'[d] = s
      BY <1>1, <2>1, <2>2 DEF Paid
    <3>2. enrolled'[d][r] + Held(conn'[d], r) - ceremonies'[d][r]
            <= enrolled[d][r] + Held(conn[d], r) - ceremonies[d][r]
      BY <2>1, <2>2, <3>1 DEF Paid
    <3> QED
      BY <1>2, <1>3, <3>2
  <2>3. CASE c # d
    <3>1. conn'[d] = conn[d] /\ enrolled'[d] = enrolled[d] /\ ceremonies'[d] = ceremonies[d]
      BY <1>1, <2>1, <2>3 DEF Paid
    <3> QED
      BY <1>3, <3>1
  <2> QED
    BY <2>2, <2>3
<1> QED
  BY <1>4, <1>5, StepsSorted

\* For any connections, profiles and realms: the keys a device has registered
\* over a connection, with the tickets and enrollments that may still become one,
\* are never more than the passkeys proved on it for that realm (PendingDevice-
\* Enrollment, realm_enrollments, pending_enrollments).
THEOREM EnrolledOnce == Spec => []EnrolledOncePerCeremony
<1>1. Init => EnrolledOncePerCeremony
  <2> SUFFICES ASSUME Init, NEW c \in Conns, NEW r \in Realms
               PROVE  Enrollments(c, r) <= ceremonies[c][r]
    BY DEF EnrolledOncePerCeremony
  <2>1. {t \in conn[c].tickets : t.realm = r} = {}
        /\ conn[c].enrollments[r] = NoEnrollment
    BY DEF Init, NewConn
  <2>2. Cardinality({t \in conn[c].tickets : t.realm = r}) = 0
    BY <2>1, FS_EmptySet
  <2>3. enrolled[c][r] = 0 /\ ceremonies[c][r] = 0
    BY DEF Init
  <2> QED
    BY <2>1, <2>2, <2>3 DEF Enrollments
<1>2. TypeInv /\ TypeInv' /\ EnrolledOncePerCeremony /\ [Next]_vars
        => EnrolledOncePerCeremony'
  BY EnrolledStays
<1> QED
  BY <1>1, <1>2, TypesHold, PTL DEF Spec
=============================================================================
