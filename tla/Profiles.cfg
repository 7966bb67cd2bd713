SPECIFICATION FairSpec
CONSTANTS
    c1 = c1
    c2 = c2
    work = work
    mail = mail
    news = news
    alone = alone
    q1 = q1
    q2 = q2
    None = None
    Conns <- TwoConns
    Profiles <- AllProfiles
    LoneProfile = alone
    RealmOf <- ProfileRealms
    PasskeyRealms <- TwoPasskeyRealms
    Principals <- TwoPrincipals
    PrincipalsOf <- RealmPrincipals
    MaxChallenges = 2
    MaxAttempts = 3
    MaxEvents = 2
INVARIANTS
    TypeOK
    RealmPrincipal
    FallbackAuthorized
    EnrolledOncePerCeremony
    ChallengeKept
PROPERTIES
    RealmUserFixed
    AttemptsEnd
CHECK_DEADLOCK FALSE
