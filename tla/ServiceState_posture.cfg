SPECIFICATION ServiceSpec
CONSTANTS
    Bundles <- ServiceBundles
    Loops = {TRUE, FALSE}
    States = {normal, partial, down}
    Normal = normal
    Postures = {green, orange, red}
    Green = green
    InitialPosture = red
    Supported = TRUE
    MinInterval = 2
INVARIANTS
    PostureKept
