------------------------- MODULE CoalescingPublisher -------------------------
(***************************************************************************)
(* What a state notifier promises its callbacks, whatever its rate filter  *)
(* does: every announcement carries the state current at that moment,      *)
(* changes that come too fast may be merged, and the latest one is never   *)
(* left unannounced.  StateNotifier is shown to implement this; the        *)
(* environment of SipNotifier is this specification, one per package.      *)
(***************************************************************************)
CONSTANT Bundles        \* the state bundles that can be published

VARIABLES
    store,              \* the authoritative current bundle
    published           \* the bundle of the latest announcement

abstractVars == <<store, published>>

Init ==
    /\ store \in Bundles
    /\ published = store

\* A change is announced at once or left for later.
Change(b) ==
    /\ b # store
    /\ store' = b
    /\ published' \in {published, b}

\* An announcement carries the current bundle.
Announce ==
    /\ published' = store
    /\ UNCHANGED store

Next == (\E b \in Bundles : Change(b)) \/ Announce

Spec == Init /\ [][Next]_abstractVars /\ WF_abstractVars(Announce)
=============================================================================
