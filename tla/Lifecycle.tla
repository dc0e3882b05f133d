------------------------------ MODULE Lifecycle ------------------------------
(***************************************************************************)
(* The ASGI lifespan of one worker and its NTP health loop, the two        *)
(* writers of ElementState inside the library, beside the writes of the    *)
(* functional element built on it (the FE).  They share one                *)
(* ElementStateNotifier, modelled by StateNotifier.                        *)
(*                                                                         *)
(* One action is what runs between two awaits of a coroutine.              *)
(***************************************************************************)
EXTENDS Integers

CONSTANTS
    FEBundles,      \* the bundles the FE itself sets
    MinInterval,    \* min_notify_interval of the ElementStateNotifier
    AutoRecover,    \* ntp_auto_recover
    Debounce        \* ntp_recover_debounce

ASSUME AutoRecoverAssumption == AutoRecover \in BOOLEAN
ASSUME DebounceAssumption == Debounce \in Nat

\* The bundles the library sets.
Default == [state |-> "Normal", reason |-> ""]
StartupComplete == [state |-> "Normal", reason |-> "Startup complete"]
HookFailed == [state |-> "ServiceDisruption", reason |-> "Startup hook failed"]
NtpDrift == [state |-> "ServiceDisruption", reason |-> "NTP drift"]
PlannedShutdown == [state |-> "GoingDown", reason |-> "Planned shutdown"]

Bundles ==
    FEBundles \cup {Default, StartupComplete, HookFailed, NtpDrift, PlannedShutdown}

VARIABLES
    \* the ElementStateNotifier
    store, elapsed, pending, timer, published, notified,
    \* the lifespan
    pc,             \* where it is: "boot", "hook", "serving", "stopping", "down"
    leader,         \* is_leader, read once when the lifespan starts
    ntpHealthy,     \* what ntp_client.is_healthy would return now
    \* _ntp_health_loop
    ntpLoop,        \* is its task alive?
    ntpOwns,        \* ntp_owns_disruption
    streak,         \* consecutive_healthy
    \* history
    author,         \* who wrote the bundle in the store
    healthyChecks   \* healthy checks since the last unhealthy one, capped at Debounce

notifierVars == <<store, elapsed, pending, timer, published, notified>>
loopVars == <<ntpLoop, ntpOwns, streak, healthyChecks>>
vars == <<store, elapsed, pending, timer, published, notified, pc, leader, ntpHealthy,
          ntpLoop, ntpOwns, streak, author, healthyChecks>>

Notifier == INSTANCE StateNotifier WITH Loops <- {TRUE}

Writers == {"lifespan", "ntp", "fe"}

\* Types; the streak of healthy checks never exceeds the debounce.
TypeOK ==
    /\ Notifier!TypeOK
    /\ pc \in {"boot", "hook", "serving", "stopping", "down"}
    /\ leader \in BOOLEAN
    /\ ntpHealthy \in BOOLEAN
    /\ ntpLoop \in BOOLEAN
    /\ ntpOwns \in BOOLEAN
    /\ streak \in 0..Debounce
    /\ author \in Writers
    /\ healthyChecks \in 0..Debounce

Init ==
    /\ Notifier!Init
    /\ store = Default
    /\ pc = "boot"
    /\ leader \in BOOLEAN
    /\ ntpHealthy \in BOOLEAN
    /\ ntpLoop = FALSE
    /\ ntpOwns = FALSE
    /\ streak = 0
    /\ author = "lifespan"
    /\ healthyChecks = 0

----
\* element_notifier.set_state, by one of the writers; nothing for the stored bundle.
SetState(bundle, writer) ==
    \/ /\ bundle = store
       /\ Notifier!Silent
       /\ UNCHANGED <<store, elapsed, pending, timer, author>>
    \/ /\ Notifier!SetState(bundle, TRUE)
       /\ author' = writer

WritesNothing == Notifier!Silent /\ UNCHANGED <<store, elapsed, pending, timer, author>>

\* The lifespan up to the startup hook's first await: reset the store, without the
\* notifier, and start the leader's singletons.
Boot ==
    /\ pc = "boot"
    /\ pc' = "hook"
    /\ store' = Default
    /\ author' = "lifespan"
    /\ Notifier!Silent
    /\ UNCHANGED <<elapsed, pending, timer, leader, ntpHealthy>>
    /\ UNCHANGED loopVars

\* The startup hook returns or raises: the leader publishes the outcome and creates
\* the health task.
HookDone(ok) ==
    /\ pc = "hook"
    /\ pc' = "serving"
    /\ IF leader
       THEN SetState(IF ok THEN StartupComplete ELSE HookFailed, "lifespan")
       ELSE WritesNothing
    /\ ntpLoop' = leader
    /\ UNCHANGED <<leader, ntpHealthy, ntpOwns, streak, healthyChecks>>

\* A faulty variant: the health loop outlives the announcement.
ShutdownLoopKept ==
    /\ pc = "serving"
    /\ pc' = "stopping"
    /\ IF leader THEN SetState(PlannedShutdown, "lifespan") ELSE WritesNothing
    /\ UNCHANGED <<leader, ntpHealthy>>
    /\ UNCHANGED loopVars

\* The server shuts down: announce GoingDown and cancel the health task, with no await
\* in between.
Shutdown ==
    /\ pc = "serving"
    /\ pc' = "stopping"
    /\ IF leader THEN SetState(PlannedShutdown, "lifespan") ELSE WritesNothing
    /\ ntpLoop' = FALSE
    /\ UNCHANGED <<leader, ntpHealthy, ntpOwns, streak, healthyChecks>>

\* The awaits of the cancelled task and of the singletons' stop() are over.
Stopped ==
    /\ pc = "stopping"
    /\ pc' = "down"
    /\ WritesNothing
    /\ UNCHANGED <<leader, ntpHealthy>>
    /\ UNCHANGED loopVars

----
\* One round of _ntp_health_loop, healthy or not.

CountHealthy == healthyChecks' = IF healthyChecks < Debounce THEN healthyChecks + 1
                                 ELSE healthyChecks

\* A faulty variant: the streak survives an unhealthy check.
UnhealthyStreakKept ==
    /\ healthyChecks' = 0
    /\ SetState(NtpDrift, "ntp")
    /\ ntpOwns' = TRUE
    /\ UNCHANGED streak
Unhealthy ==
    /\ streak' = 0
    /\ healthyChecks' = 0
    /\ SetState(NtpDrift, "ntp")
    /\ ntpOwns' = TRUE

\* A faulty variant: a check counted too late.
HealthyUncounted ==
    /\ CountHealthy
    /\ IF AutoRecover /\ ntpOwns /\ streak >= Debounce
       THEN SetState(Default, "ntp") /\ ntpOwns' = FALSE /\ streak' = 0
       ELSE WritesNothing /\ UNCHANGED <<ntpOwns, streak>>
Healthy ==
    /\ CountHealthy
    /\ IF AutoRecover /\ ntpOwns
       THEN IF streak + 1 >= Debounce
            THEN SetState(Default, "ntp") /\ ntpOwns' = FALSE /\ streak' = 0
            ELSE WritesNothing /\ UNCHANGED ntpOwns /\ streak' = streak + 1
       ELSE WritesNothing /\ UNCHANGED <<ntpOwns, streak>>

NtpCheck ==
    /\ ntpLoop
    /\ IF ntpHealthy THEN Healthy ELSE Unhealthy
    /\ UNCHANGED <<pc, leader, ntpHealthy, ntpLoop>>

----
\* The environment: the FE sets a state while the worker is up, the clock drifts or is
\* synchronised again, deferred dispatches run and time passes.

FESetState(bundle) ==
    /\ pc \in {"hook", "serving", "stopping"}
    /\ SetState(bundle, "fe")
    /\ UNCHANGED <<pc, leader, ntpHealthy>>
    /\ UNCHANGED loopVars

NtpHealthChanges ==
    /\ ntpHealthy' = ~ntpHealthy
    /\ WritesNothing
    /\ UNCHANGED <<pc, leader>>
    /\ UNCHANGED loopVars

NotifierStep ==
    /\ Notifier!DeferredDispatch \/ Notifier!Tick
    /\ UNCHANGED <<pc, leader, ntpHealthy, author>>
    /\ UNCHANGED loopVars

Next ==
    \/ Boot
    \/ \E ok \in BOOLEAN : HookDone(ok)
    \/ Shutdown
    \/ Stopped
    \/ NtpCheck
    \/ \E b \in FEBundles : FESetState(b)
    \/ NtpHealthChanges
    \/ NotifierStep

Spec == Init /\ [][Next]_vars

----
\* Once GoingDown is announced, nothing in the library takes it back: only the FE can.
\* The health loop was asleep, or between two awaits, when the shutdown began.
GoingDownStays ==
    pc \in {"stopping", "down"} /\ leader /\ author # "fe" => store = PlannedShutdown

\* The loop turns a state into Normal only after Debounce healthy checks in a row, and
\* only when ntp_auto_recover is set: one bad check in between starts the count again.
RecoveryDebounced ==
    [][store' # store /\ author' = "ntp" /\ store' # NtpDrift =>
         AutoRecover /\ healthyChecks' >= Debounce]_vars

\* A clock that stays good gives up the disruption the loop set.
DriftIsCleared ==
    AutoRecover /\ <>[](ntpLoop /\ ntpHealthy) => <>[](~ntpOwns)

\* lifecycle.py:75 calls ntp_owns_disruption an "ownership guard - never clears an
\* externally set state": what the loop turns into Normal, the loop has set.
OwnershipGuard ==
    [][store' # store /\ author' = "ntp" /\ store' # NtpDrift => author = "ntp"]_vars
=============================================================================
