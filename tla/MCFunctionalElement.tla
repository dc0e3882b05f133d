------------------------- MODULE MCFunctionalElement -------------------------
EXTENDS FunctionalElement, TLC
\* Expires headers: unsubscribe, accepted.
MCExpires == {0, 6}
Symmetric == Permutations(CallIds)
=============================================================================
