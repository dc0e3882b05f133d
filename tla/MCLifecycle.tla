----------------------------- MODULE MCLifecycle -----------------------------
EXTENDS Lifecycle
\* A disruption and a maintenance state the FE sets itself, and its return to normal.
MCFEBundles ==
    {[state |-> "ServiceDisruption", reason |-> "FE"],
     [state |-> "ScheduledMaintenance", reason |-> "FE"],
     Default}
=============================================================================
