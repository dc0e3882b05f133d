\* Two clients compete for one place and may change packages; callers off the event
\* loop, stop() followed by start().
SPECIFICATION Spec
CONSTANTS
    CallIds = {a, b}
    Packages = {element, service}
    Intervals = {0, 1}
    MaxInterval = 1
    ExpiresHeaders <- MCExpiresFew
    MinSubscription = 1
    DefaultSubscription = 2
    MaxSubscription = 2
    MaxSubscriptions = 1
    MaxVersion = 2
    MaxOrphans = 1
    Loops = {TRUE, FALSE}
    Restartable = TRUE
SYMMETRY Symmetric
INVARIANTS
    IInv
    CapacityRespected
