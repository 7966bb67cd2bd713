------------------------------ MODULE Profiles ------------------------------
(***************************************************************************)
(* Who a connection may act as: the profile proxy (src/proxy.py) and the   *)
(* terminal server used without it (src/server.py), over the passkey store *)
(* (src/webauthn_auth.py) and the device keys.                             *)
(*                                                                         *)
(* A connection authenticates once for each realm it visits, with the key  *)
(* of its device, with a passkey, or, while the realm has no passkey, with *)
(* a token or identity that only lets it register one.  Ceremonies of      *)
(* several connections interleave at every message.  A device that just    *)
(* proved a passkey gets one ticket to register its own key.               *)
(*                                                                         *)
(* Signatures, tokens and nonces are left out: an answer is good or it is  *)
(* not.  Credentials are the numbers of the challenges they answered.      *)
(***************************************************************************)
EXTENDS Integers, FiniteSets

CONSTANTS
    Conns,          \* connections, each of one device
    Profiles,       \* profiles of the proxy, and the one of a lone server
    LoneProfile,    \* the one profile of a server used without the proxy
    RealmOf,        \* the auth realm of a profile
    PasskeyRealms,  \* realms with device_key_auth
    Principals,     \* principals
    PrincipalsOf,   \* those a token or an identity stands for, by realm
    None,           \* stands for no principal, realm, profile or credential
    MaxChallenges,  \* pending challenges kept (1024 in the code)
    MaxAttempts,    \* bound on the authentications begun
    MaxEvents       \* bound on failures, expiries and other disturbances

Realms == {RealmOf[p] : p \in Profiles}

ASSUME RealmAssumption == /\ PasskeyRealms \subseteq Realms
                          /\ DOMAIN RealmOf = Profiles
                          /\ None \notin Realms \cup Principals \cup Profiles
ASSUME LoneAssumption ==
    /\ LoneProfile \in Profiles /\ RealmOf[LoneProfile] \in PasskeyRealms
    /\ \E q \in Principals : PrincipalsOf[RealmOf[LoneProfile]] = {q}
ASSUME PrincipalsAssumption == PrincipalsOf \in [Realms -> SUBSET Principals]
ASSUME BoundAssumption == /\ MaxChallenges \in Nat \ {0}
                          /\ MaxAttempts \in Nat /\ MaxEvents \in Nat

VARIABLES
    lone,        \* whether the server is used without the proxy
    challenges,  \* pending challenges of PasskeyAuth, numbered as issued
    issued,      \* challenges issued so far
    late,        \* challenges older than their time to live
    store,       \* the passkey store of each realm
    devices,     \* the principal each device key is registered for, by realm
    conn,        \* what a connection is doing, as whom
    attempts,    \* authentications begun so far
    spent,       \* disturbances so far
    ceremonies,  \* passkey ceremonies completed, for each connection and realm
    enrolled     \* device keys registered, for each connection and realm

ghosts == <<ceremonies, enrolled>>
vars == <<lone, challenges, issued, late, store, devices, conn, attempts, spent, ghosts>>

-----------------------------------------------------------------------------
(* State *)

NoEnrollment == [realm |-> None, profile |-> None, principal |-> None]
Grants == [realm: Realms, profile: Profiles, principal: Principals]

\* authorized, enrollments and tickets are authorized_realms, realm_enrollments
\* and pending_enrollments; sent is enrollment_sent of the current relay.
NewConn ==
    [at |-> "closed", profile |-> None, previous |-> None,
     authorized |-> [r \in Realms |-> None],
     enrollments |-> [r \in Realms |-> NoEnrollment], tickets |-> {},
     sent |-> FALSE, mode |-> "none", challenge |-> 0, bootstrap |-> None,
     hasKey |-> FALSE]

Init ==
    /\ lone \in BOOLEAN
    /\ challenges = {}
    /\ late = {}
    /\ issued = 0
    /\ store = [r \in Realms |-> [user |-> None, credentials |-> {}]]
    /\ devices = [r \in Realms |-> [c \in Conns |-> None]]
    /\ conn = [c \in Conns |-> NewConn]
    /\ attempts = 0
    /\ spent = 0
    /\ ceremonies = [c \in Conns |-> [r \in Realms |-> 0]]
    /\ enrolled = [c \in Conns |-> [r \in Realms |-> 0]]

Realm(c) == RealmOf[conn[c].profile]
\* Key(r, c) is the principal the key of a device authenticates in a realm.
Key(r, c) == devices[r][c]
RegisterKey(r, c, q) == devices' = [devices EXCEPT ![r][c] = q]
Revoked(r, gone) == store' = [store EXCEPT ![r].credentials = @ \ gone]
Disturb == spent < MaxEvents /\ spent' = spent + 1

-----------------------------------------------------------------------------
(* Pending challenges *)

Fresh(pending) == {ch \in pending : ch.id \notin late}
Newest(pending, n) ==
    {ch \in pending : Cardinality({d \in pending : d.id > ch.id}) < n}

\* Mutant: one challenge too many is kept.
SavesOneMore(pending, challenge) ==
    Newest(Fresh(pending), MaxChallenges) \cup {challenge}

\* Mutant: a full store refuses room to all but the oldest challenges.
DropsNewest(pending, challenge) ==
    {ch \in Fresh(pending) :
        Cardinality({d \in Fresh(pending) : d.id < ch.id}) < MaxChallenges - 1}
      \cup {challenge}

\* Those past their time go, then the oldest while there are too many.
SaveChallenge(pending, challenge) ==
    Newest(Fresh(pending), MaxChallenges - 1) \cup {challenge}

\* An authentication issues one challenge at most, so that the bound on the
\* authentications begun bounds the challenges; one that asked again and again
\* would stop here and break AttemptsEnd.
Issue(c, purpose, principal) ==
    /\ issued < MaxAttempts
    /\ issued' = issued + 1
    /\ challenges' = SaveChallenge(challenges,
           [id |-> issued + 1, purpose |-> purpose, realm |-> Realm(c),
            principal |-> principal, binding |-> c])

\* A challenge is taken out before anything about it is checked.
Pending(id) == {ch \in challenges : ch.id = id}
Take(id) == challenges' = challenges \ Pending(id)
Matches(ch, c, purpose) ==
    /\ ch.purpose = purpose
    /\ ch.realm = Realm(c)
    /\ ch.binding = c
    /\ ch.id \notin late

\* The clock passes the time to live of the oldest challenges.
ExpireChallenge ==
    /\ Disturb
    /\ late # 1..issued
    /\ \E n \in 1..issued : late \subseteq 1..n /\ late' = 1..n
    /\ UNCHANGED <<lone, challenges, issued, store, devices, conn, attempts,
                   ghosts>>

-----------------------------------------------------------------------------
(* A connection chooses a profile, and authenticates if it has to *)

\* Mutant: the previous profile is noted before the new one is authorized.
SelectedNotesFirst(s, profile) ==
    LET t == [s EXCEPT !.profile = profile, !.sent = FALSE, !.mode = "none",
                       !.challenge = 0, !.bootstrap = None, !.hasKey = FALSE,
                       !.previous = profile]
    IN IF s.authorized[RealmOf[profile]] # None THEN [t EXCEPT !.at = "opening"]
       ELSE [t EXCEPT !.at = IF RealmOf[profile] \in PasskeyRealms
                             THEN "device" ELSE "token"]

\* The top of the loop of websocket_handler: a profile of a realm this
\* connection is authorized for is relayed at once.
Selected(s, profile) ==
    LET t == [s EXCEPT !.profile = profile, !.sent = FALSE, !.mode = "none",
                       !.challenge = 0, !.bootstrap = None, !.hasKey = FALSE]
    IN IF s.authorized[RealmOf[profile]] # None
       THEN [t EXCEPT !.at = "opening", !.previous = profile]
       ELSE [t EXCEPT !.at = IF RealmOf[profile] \in PasskeyRealms
                             THEN "device" ELSE "token"]

\* Mutant: a principal is remembered for the connection, not for the realm.
AuthorizedEverywhere(s, principal) ==
    [s EXCEPT !.authorized = [r \in Realms |-> principal],
              !.at = "opening", !.previous = s.profile]

\* Authenticated: remember the realm and relay.
Authorized(s, principal) ==
    [s EXCEPT !.authorized[RealmOf[s.profile]] = principal,
              !.at = "opening", !.previous = s.profile]
\* Mutant: the profile that was refused is asked for again.
RejectedAgain(s) ==
    IF \A r \in Realms : s.authorized[r] = None THEN NewConn
    ELSE Selected(s, s.profile)

\* auth-error: back to the profile before, or out.
Rejected(s) ==
    IF \A r \in Realms : s.authorized[r] = None THEN NewConn
    ELSE Selected(s, s.previous)

\* switch-profile and websocket_handler fall back to a profile that exists.
Reachable == IF lone THEN {LoneProfile} ELSE Profiles \ {LoneProfile}
Becomes(c, s) == conn' = [conn EXCEPT ![c] = s]

Connect(c) ==
    /\ conn[c].at = "closed" /\ attempts < MaxAttempts
    /\ attempts' = attempts + 1
    /\ \E p \in Reachable : Becomes(c, Selected(NewConn, p))
    /\ UNCHANGED <<lone, challenges, issued, late, store, devices, spent, ghosts>>

\* switch-profile, or retry-profile while the backend is down.
SwitchProfile(c) ==
    /\ conn[c].at \in {"relay", "down"} /\ ~lone
    /\ attempts < MaxAttempts
    /\ attempts' = attempts + 1
    /\ \E p \in Reachable : Becomes(c, Selected(conn[c], p))
    /\ UNCHANGED <<lone, challenges, issued, late, store, devices, spent, ghosts>>

\* A realm without passkeys: a good token or identity is enough.
TokenAnswered(c) ==
    /\ conn[c].at = "token"
    /\ \/ \E q \in PrincipalsOf[Realm(c)] : Becomes(c, Authorized(conn[c], q))
       \/ Becomes(c, Rejected(conn[c]))
    /\ UNCHANGED <<lone, challenges, issued, late, store, devices, attempts, spent, ghosts>>

\* The key of the device answers the challenge, and the browser does not ask
\* for a passkey.
DeviceKeyAnswered(c) ==
    /\ conn[c].at = "device"
    /\ Key(Realm(c), c) # None
    /\ Becomes(c, Authorized(conn[c], Key(Realm(c), c)))
    /\ UNCHANGED <<lone, challenges, issued, late, store, devices, attempts, spent, ghosts>>

\* Otherwise the realm's passkeys decide: if it has any, one must be shown.
BeginAuthentication(c) ==
    /\ conn[c].at = "device"
    /\ store[Realm(c)].credentials # {}
    /\ Issue(c, "authenticate", store[Realm(c)].user)
    /\ \E hasKey \in {FALSE, Key(Realm(c), c) # None} :
          Becomes(c, [conn[c] EXCEPT !.at = "passkey", !.mode = "authenticate",
                                     !.challenge = issued + 1, !.hasKey = hasKey])
    /\ UNCHANGED <<lone, late, store, devices, attempts, spent, ghosts>>

\* Mutant: a realm whose passkeys are all revoked has no owner.
MayRegisterEmpty(r, q) == store[r].credentials = {} \/ store[r].user \in {None, q}

\* If it has none, a token or identity may register the first one, for the
\* principal the realm belongs to if it belongs to one.
MayRegister(r, q) == store[r].user \in {None, q}
BeginRegistration(c) ==
    /\ conn[c].at = "device"
    /\ store[Realm(c)].credentials = {}
    /\ \E q \in PrincipalsOf[Realm(c)], hasKey \in {FALSE, Key(Realm(c), c) # None} :
          IF MayRegister(Realm(c), q)
          THEN /\ Issue(c, "register", q)
               /\ Becomes(c, [conn[c] EXCEPT !.at = "passkey", !.mode = "register",
                                             !.challenge = issued + 1,
                                             !.bootstrap = q, !.hasKey = hasKey])
          ELSE /\ Becomes(c, Rejected(conn[c]))
               /\ UNCHANGED <<challenges, issued>>
    /\ UNCHANGED <<lone, late, store, devices, attempts, spent, ghosts>>

\* No answer in time, or not the answer that was asked for.
NoAnswer(c) ==
    /\ conn[c].at \in {"device", "passkey"}
    /\ Becomes(c, Rejected(conn[c]))
    /\ UNCHANGED <<lone, challenges, issued, late, store, devices, attempts, spent, ghosts>>

\* A passkey was proved: authorize, and remember that the device may enroll
\* its own key if it has none: the proxy saw whether it does when the ceremony
\* began, the lone server looks now.
Proved(c, principal) ==
    LET s == Authorized(conn[c], principal)
        grant == [realm |-> Realm(c), profile |-> conn[c].profile,
                  principal |-> principal]
        hasKey == IF lone THEN Key(Realm(c), c) # None ELSE conn[c].hasKey
    IN /\ Becomes(c, IF hasKey THEN s
                     ELSE [s EXCEPT !.enrollments[Realm(c)] = grant])
       /\ ceremonies' = [ceremonies EXCEPT ![c][Realm(c)] = @ + 1]

Failed(c) == Becomes(c, Rejected(conn[c])) /\ UNCHANGED <<store, ceremonies>>

\* finish_authentication: the credential must still be in the store, and the
\* new counter must reach the disk.
FinishAuthentication(c) ==
    /\ conn[c].at = "passkey" /\ conn[c].mode = "authenticate"
    /\ Take(conn[c].challenge)
    /\ IF /\ \E ch \in Pending(conn[c].challenge) : Matches(ch, c, "authenticate")
          /\ store[Realm(c)].credentials # {}
       THEN Proved(c, store[Realm(c)].user) /\ store' = store
       ELSE Failed(c)
    /\ UNCHANGED <<lone, issued, late, devices, attempts, spent, enrolled>>

Stored(r, q, credential) ==
    [store EXCEPT ![r] = [user |-> q, credentials |-> @.credentials \cup {credential}]]
\* finish_registration: the realm must not have got another principal since.
FinishRegistration(c) ==
    LET q == conn[c].bootstrap IN
    /\ conn[c].at = "passkey" /\ conn[c].mode = "register"
    /\ Take(conn[c].challenge)
    /\ IF /\ \E ch \in Pending(conn[c].challenge) : Matches(ch, c, "register")
          /\ MayRegister(Realm(c), q)
       THEN /\ store' = Stored(Realm(c), q, conn[c].challenge)
            /\ Proved(c, q)
       ELSE Failed(c)
    /\ UNCHANGED <<lone, issued, late, devices, attempts, spent, enrolled>>

\* The store cannot be written, or the credential shown is not in it.
FinishFails(c) ==
    /\ Disturb
    /\ conn[c].at = "passkey"
    /\ Take(conn[c].challenge)
    /\ Failed(c)
    /\ UNCHANGED <<lone, issued, late, devices, attempts, enrolled>>

-----------------------------------------------------------------------------
(* Relaying *)

\* The backend of the profile accepts the connection, or it is unavailable; a
\* server alone has no backend.
OpenBackend(c) ==
    /\ conn[c].at = "opening"
    /\ \/ Becomes(c, [conn[c] EXCEPT !.at = "relay"]) /\ spent' = spent
       \/ ~lone /\ Disturb /\ Becomes(c, [conn[c] EXCEPT !.at = "down"])
    /\ UNCHANGED <<lone, challenges, issued, late, store, devices, attempts, ghosts>>

\* Mutant: the enrollment is not cleared when its ticket is handed out.
IssueTicketKeeps(c) ==
    LET grant == conn[c].enrollments[Realm(c)] IN
    /\ conn[c].at = "relay" /\ ~conn[c].sent
    /\ grant.profile = conn[c].profile
    /\ Becomes(c, [conn[c] EXCEPT !.sent = TRUE, !.tickets = @ \cup {grant}])
    /\ UNCHANGED <<lone, challenges, issued, late, store, devices, attempts, spent, ghosts>>

\* ready of the backend: hand out the ticket the passkey ceremony earned.
IssueTicket(c) ==
    LET grant == conn[c].enrollments[Realm(c)] IN
    /\ conn[c].at = "relay" /\ ~conn[c].sent
    /\ grant.profile = conn[c].profile
    /\ Becomes(c, [conn[c] EXCEPT !.sent = TRUE, !.tickets = @ \cup {grant},
                                  !.enrollments[Realm(c)] = NoEnrollment])
    /\ UNCHANGED <<lone, challenges, issued, late, store, devices, attempts, spent, ghosts>>

\* register-key: the ticket is used whatever the answer is worth; the
\* browser answers on whatever profile it is by now.
UseTicket(c) ==
    /\ conn[c].at = "relay"
    /\ \E ticket \in conn[c].tickets :
          /\ Becomes(c, [conn[c] EXCEPT !.tickets = @ \ {ticket}])
          /\ \/ /\ RegisterKey(ticket.realm, c, ticket.principal)
                /\ enrolled' = [enrolled EXCEPT ![c][ticket.realm] = @ + 1]
                /\ spent' = spent
             \/ Disturb /\ UNCHANGED <<devices, enrolled>>
    /\ UNCHANGED <<lone, challenges, issued, late, store, attempts, ceremonies>>

\* forget-key: only a key of the principal the connection acts as.
ForgetKey(c) ==
    /\ Disturb
    /\ conn[c].at = "relay"
    /\ Key(Realm(c), c) \in {conn[c].authorized[Realm(c)]} \ {None}
    /\ devices' = [devices EXCEPT ![Realm(c)][c] = None]
    /\ UNCHANGED <<lone, challenges, issued, late, store, conn, attempts, ghosts>>

\* revoke-credential, revoke-all-credentials, and the cascade of rotate-token:
\* the owner of the realm stays what it was.
Revoke(c) ==
    /\ Disturb
    /\ conn[c].at \in {"relay", "down"} /\ ~lone
    /\ Realm(c) \in PasskeyRealms
    /\ MayRegister(Realm(c), conn[c].authorized[Realm(c)])
    /\ \E gone \in (SUBSET store[Realm(c)].credentials) \ {{}} :
          /\ Cardinality(gone) = 1 \/ gone = store[Realm(c)].credentials
          /\ Revoked(Realm(c), gone)
    /\ UNCHANGED <<lone, challenges, issued, late, devices, conn, attempts, ghosts>>

\* The backend closes: with session-closing the profile is opened again.
BackendCloses(c) ==
    /\ Disturb
    /\ conn[c].at = "relay" /\ ~lone
    /\ \/ Becomes(c, Selected(conn[c], conn[c].profile))
       \/ Becomes(c, [conn[c] EXCEPT !.at = "down"])
    /\ UNCHANGED <<lone, challenges, issued, late, store, devices, attempts, ghosts>>

\* The connection is lost: all it had is forgotten; its challenge is not.
Disconnect(c) ==
    /\ Disturb
    /\ conn[c].at # "closed"
    /\ Becomes(c, NewConn)
    /\ UNCHANGED <<lone, challenges, issued, late, store, devices, attempts, ghosts>>

-----------------------------------------------------------------------------
Answers(c) ==
    \/ TokenAnswered(c) \/ DeviceKeyAnswered(c) \/ BeginAuthentication(c)
    \/ BeginRegistration(c) \/ NoAnswer(c) \/ FinishAuthentication(c)
    \/ FinishRegistration(c) \/ OpenBackend(c)
Next ==
    \/ \E c \in Conns :
          \/ Connect(c) \/ SwitchProfile(c) \/ Answers(c) \/ FinishFails(c)
          \/ IssueTicket(c) \/ UseTicket(c) \/ ForgetKey(c) \/ Revoke(c)
          \/ BackendCloses(c) \/ Disconnect(c)
    \/ ExpireChallenge

Spec == Init /\ [][Next]_vars
\* Every wait for an answer has a timeout.
FairSpec == Spec /\ WF_vars(\E c \in Conns : Answers(c))

-----------------------------------------------------------------------------
(* Properties *)

ConnType(n) ==
    [at: {"closed", "device", "token", "passkey", "opening", "relay", "down"},
     profile: Profiles \cup {None}, previous: Profiles \cup {None},
     authorized: [Realms -> Principals \cup {None}],
     enrollments: [Realms -> Grants \cup {NoEnrollment}],
     tickets: SUBSET Grants, sent: BOOLEAN,
     mode: {"none", "authenticate", "register"}, challenge: 0..n,
     bootstrap: Principals \cup {None}, hasKey: BOOLEAN]

ChallengeType(n) ==
    [id: 1..n, purpose: {"register", "authenticate"}, realm: PasskeyRealms,
     principal: Principals, binding: Conns]

\* The shape of the state: pending challenges are told apart by their numbers,
\* and never more than the store of challenges holds.
TypeOK ==
    /\ lone \in BOOLEAN /\ issued \in Nat /\ late \in SUBSET (1..issued)
    /\ challenges \subseteq ChallengeType(issued)
    /\ \A d, e \in challenges : d.id = e.id => d = e
    /\ Cardinality(challenges) <= MaxChallenges
    /\ store \in [Realms -> [user: Principals \cup {None},
                            credentials: SUBSET (1..issued)]]
    /\ devices \in [Realms -> [Conns -> Principals \cup {None}]]
    /\ conn \in [Conns -> ConnType(issued)]
    /\ attempts \in 0..MaxAttempts /\ spent \in 0..MaxEvents
    /\ ceremonies \in [Conns -> [Realms -> Nat]]
    /\ enrolled \in [Conns -> [Realms -> Nat]]

\* A realm with passkeys belongs to one principal (_load_store_unlocked refuses
\* a store that says otherwise): whoever is authorized in it, has a device key,
\* a ticket or a pending enrollment for it, is its owner, however the
\* ceremonies of two connections that both began with an empty store, and the
\* revocations between, interleave.
Owns(r, q) == q \in {None, store[r].user}
RealmPrincipal ==
    \A r \in PasskeyRealms :
       /\ store[r].credentials # {} => store[r].user # None
       /\ \A c \in Conns :
             /\ Owns(r, conn[c].authorized[r])
             /\ Owns(r, devices[r][c])
             /\ Owns(r, conn[c].enrollments[r].principal)
             /\ \A t \in conn[c].tickets : t.realm = r => Owns(r, t.principal)

\* The owner of a realm never changes, not even when its last passkey is
\* revoked and another principal bootstraps (begin_registration and
\* finish_registration both compare realmUser).
RealmUserFixed ==
    [][\A r \in Realms : store[r].user # None => store'[r].user = store[r].user]_vars

\* When a profile is refused the connection goes back to the previous one, and
\* "continue" runs its loop again: that profile's realm is one the connection
\* is authorized for, or the loop would ask again and again.
FallbackAuthorized ==
    \A c \in Conns :
       (\E r \in Realms : conn[c].authorized[r] # None) =>
          /\ conn[c].previous # None
          /\ conn[c].authorized[RealmOf[conn[c].previous]] # None

\* A device registers its key at most once for a passkey proved on its own
\* connection, across profiles of one realm, relays that reopen and reconnects.
Enrollments(c, r) ==
    enrolled[c][r] + Cardinality({t \in conn[c].tickets : t.realm = r})
       + (IF conn[c].enrollments[r] # NoEnrollment THEN 1 ELSE 0)
EnrolledOncePerCeremony ==
    \A c \in Conns, r \in Realms : Enrollments(c, r) <= ceremonies[c][r]

\* A connection that waits for its passkey finds its challenge again unless its
\* time is over or a full store gave way to newer ones: an expired challenge
\* never takes the place of a live one.
ChallengeKept ==
    \A c \in Conns :
       conn[c].at = "passkey" =>
          LET id == conn[c].challenge IN
          \/ Pending(id) # {}
          \/ id \in late
          \/ issued >= id + MaxChallenges

\* Whatever is answered, or not answered in time, every connection is relayed,
\* told that its profile is down, or closed: no refusal leads back to itself.
AttemptsEnd ==
    []<>(\A c \in Conns : conn[c].at \in {"closed", "relay", "down"})
=============================================================================
