------------------------------ MODULE MCWorker ------------------------------
EXTENDS Worker
\* A disruption the FE sets itself, and its return to normal.
MCFEBundles == {[state |-> "ServiceDisruption", reason |-> "FE"], Default}
=============================================================================
