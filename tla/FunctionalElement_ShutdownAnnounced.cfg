SPECIFICATION Spec
CONSTANTS
    CallIds = {a}
    Intervals = {2}
    MaxInterval = 2
    ExpiresHeaders <- MCExpires
    MinSubscription = 2
    DefaultSubscription = 3
    MaxSubscription = 6
    MaxSubscriptions = 2
    MaxVersion = 3
    MaxOrphans = 1
    MinInterval = 0
INVARIANT ShutdownAnnounced
