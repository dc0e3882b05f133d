\* Two clients of one package, the table holds both.
SPECIFICATION Spec
CONSTANTS
    CallIds = {a, b}
    Packages = {element}
    Intervals = {0, 2}
    MaxInterval = 2
    ExpiresHeaders <- MCExpires
    MinSubscription = 2
    DefaultSubscription = 3
    MaxSubscription = 5
    MaxSubscriptions = 2
    MaxVersion = 3
    MaxOrphans = 1
    Loops = {TRUE}
    Restartable = FALSE
SYMMETRY Symmetric
INVARIANTS
    NoMissedAnnouncement
    HeartbeatArmed
PROPERTIES
    NeverBackwards
    MinIntervalKept
    OnlyCurrentSubscriptions
