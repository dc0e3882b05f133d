---------------------------- MODULE MCSipNotifier ----------------------------
EXTENDS SipNotifier, TLC
\* The Expires headers tried: none, unsubscribe, too brief, accepted, clamped.
MCExpires == {NoExpires, 0, 1, 2, 6}
MCExpiresFew == {0, 1, 4}
Symmetric == Permutations(CallIds)
=============================================================================
