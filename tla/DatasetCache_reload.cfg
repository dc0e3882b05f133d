SPECIFICATION FairSpec
\* The process may be down for good, and the watcher may sleep for ever.
CHECK_DEADLOCK FALSE
CONSTANTS
    Broken = {3}
    MaxVersion = 5
    MaxStarts = 2
INVARIANTS
    HitIsExact
    SeenIsLoaded
    ReloadingIsHonest
PROPERTIES
    ChangeIsLoaded
