SPECIFICATION FairSpec
CONSTANTS
    CallIds = {a}
    Intervals = {0, 1, 2}
    MaxInterval = 2
    ExpiresHeaders <- MCExpires
    MinSubscription = 2
    DefaultSubscription = 3
    MaxSubscription = 6
    MaxSubscriptions = 2
    MaxVersion = 4
    MaxOrphans = 1
    MinInterval = 2
INVARIANTS
    ChangeInFlight
    Timely
    ShutdownAnnouncedUnfiltered
PROPERTIES
    ImplementsSip
    ExpiredIsDropped
