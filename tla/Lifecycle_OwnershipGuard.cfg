SPECIFICATION Spec
CONSTANTS
    FEBundles <- MCFEBundles
    MinInterval = 0
    AutoRecover = TRUE
    Debounce = 2
PROPERTY OwnershipGuard
