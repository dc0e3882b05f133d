\* The verification of one event or peer ends.
SPECIFICATION Spec
CHECK_DEADLOCK FALSE
CONSTANTS
    leaf = leaf
    old = old
    mid = mid
    cross = cross
    root = root
    other = other
    Certs = {leaf, old, mid, cross, root, other}
    IssuedBy <- MCIssuedBy
    Key <- MCKey
    Valid = {leaf, mid, cross, root, other}
    Trusts <- MCTrusts
    Chains <- MCChains
INVARIANTS
    NeverOutOfRounds
    Sound
    Complete
    OrderedAccepted
    Genuine
    RoundTrip
