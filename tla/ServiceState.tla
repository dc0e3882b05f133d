----------------------------- MODULE ServiceState -----------------------------
(***************************************************************************)
(* ServiceStateNotifier: a bundle with two parts, the service state and    *)
(* the security posture, each with a setter that reads the stored bundle   *)
(* and writes it back with its own part replaced.  The rate filter is the  *)
(* same as that of ElementStateNotifier, so this module extends its model. *)
(* The lifespan resets the store when the server starts, after create_app  *)
(* has built and seeded the notifier.                                      *)
(***************************************************************************)
EXTENDS StateNotifier

CONSTANTS
    States,         \* service states (with their reasons)
    Normal,         \* the default one
    Postures,       \* security postures (with their reasons)
    Green,          \* the posture reported when the store has none
    InitialPosture, \* initial_security_posture
    Supported       \* supports_security_posture

NoPosture == "none"     \* security_posture is None
ServiceBundles == [state : States, posture : Postures \cup {NoPosture}]

ASSUME StatesAssumption == Normal \in States
ASSUME PosturesAssumption == {Green, InitialPosture} \subseteq Postures
ASSUME NoPostureAssumption == NoPosture \notin Postures
ASSUME SupportedAssumption == Supported \in BOOLEAN
ASSUME BundlesAssumption == Bundles = ServiceBundles

VARIABLES
    up,             \* has the lifespan started?
    declared        \* history: the posture the FE gave last, NoPosture before
                    \* it gave one to the running server

serviceVars == <<store, elapsed, pending, timer, published, notified, up, declared>>

\* Types of the store's bundle and of the notifier's filter.
ServiceTypeOK ==
    /\ TypeOK
    /\ up \in BOOLEAN
    /\ declared \in Postures \cup {NoPosture}

\* The notifier's __init__ seeds the posture of an FE that tracks one.
ServiceInit ==
    /\ Init
    /\ store = [state |-> Normal, posture |-> IF Supported THEN InitialPosture ELSE NoPosture]
    /\ up = FALSE
    /\ declared = NoPosture

----
\* The lifespan's reset: the default bundle, past the notifier.
Boot ==
    /\ ~up
    /\ up' = TRUE
    /\ store' = [state |-> Normal, posture |-> NoPosture]
    /\ Silent
    /\ UNCHANGED <<elapsed, pending, timer, declared>>

\* A faulty variant of SetServiceState: the posture is left out of the new bundle.
SetServiceStatePostureDropped(state) ==
    /\ SetState([state |-> state, posture |-> NoPosture], up)
    /\ UNCHANGED <<up, declared>>

\* Callers run on the event loop once there is one.
SetServiceState(state) ==
    /\ SetState([store EXCEPT !.state = state], up)
    /\ UNCHANGED <<up, declared>>

SetSecurityPosture(posture) ==
    /\ SetState([store EXCEPT !.posture = posture], up)
    /\ declared' = IF up THEN posture ELSE declared
    /\ UNCHANGED up

NotifierStep ==
    /\ DeferredDispatch \/ Tick
    /\ UNCHANGED <<up, declared>>

ServiceNext ==
    \/ Boot
    \/ \E s \in States : SetServiceState(s)
    \/ \E p \in Postures : SetSecurityPosture(p)
    \/ NotifierStep

ServiceSpec == ServiceInit /\ [][ServiceNext]_serviceVars

----
\* get_notify_body's securityPosture.
ReportedPosture(bundle) == IF bundle.posture = NoPosture THEN Green ELSE bundle.posture

\* A posture given to the running server survives every later state change: it is the
\* one GET /ServiceState reports and, unless a dispatch is scheduled, the one
\* subscribers were given last.
PostureKept ==
    Supported /\ declared # NoPosture =>
        /\ ReportedPosture(store) = declared
        /\ timer = NoTimer => ReportedPosture(published) = declared

\* The strengthening that is inductive, stored bundles instead of reported ones: the
\* reset leaves no posture, so the first one given to the running server is a change.
ServiceInv ==
    /\ ServiceTypeOK
    /\ FlagMeansTimer
    /\ declared # NoPosture =>
           /\ up
           /\ store.posture = declared
           /\ timer = NoTimer => published.posture = declared
    /\ up /\ declared = NoPosture => store.posture = NoPosture
=============================================================================
