SPECIFICATION FairSpec
\* The server stops for good.
CHECK_DEADLOCK FALSE
CONSTANTS
    r1 = r1
    r2 = r2
    n1 = n1
    n2 = n2
    good = good
    expired = expired
    stranger = stranger
    odd = odd
    Requests <- MCRequests
    Notices <- MCNotices
    Certificates <- MCCertificates
    Valid <- MCValid
    Anchored <- MCAnchored
    BadExtensions <- MCBadExtensions
    TrustedProxies = TRUE
INVARIANTS
    OnlyVerifiedPeers
    NothingVanishes
PROPERTIES
    EveryRequestIsServed
