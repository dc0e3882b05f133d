\* Callers on and off the event loop, a window of three ticks.
SPECIFICATION Spec
CONSTANTS
    Bundles = {normal, disruption, goingDown}
    MinInterval = 3
    Loops = {TRUE, FALSE}
INVARIANTS
    ChangeIsScheduled
    IInv
PROPERTIES
    NeverStarved
    ImplementsPublisher
