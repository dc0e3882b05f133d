-------------------------- MODULE FunctionalElement --------------------------
(***************************************************************************)
(* The path of a state change through one worker: ElementStateNotifier and *)
(* SipNotifier composed, as create_app wires them, under the lifespan's    *)
(* start and shutdown.  A dispatch of the notifier calls the fan-out in    *)
(* the same step; time is common to both.                                  *)
(*                                                                         *)
(* The bundle of a set_state is represented by its number in the order of  *)
(* the changes, which serves both components.                              *)
(***************************************************************************)
EXTENDS Integers, FiniteSets

CONSTANTS
    CallIds, Intervals, MaxInterval, ExpiresHeaders, MinSubscription,
    DefaultSubscription, MaxSubscription, MaxSubscriptions, MaxVersion,
    MaxOrphans,         \* see SipNotifier
    MinInterval         \* see StateNotifier

ASSUME MinIntervalAssumption == MinInterval \in Nat

\* What SipNotifier assumes of its constants.
ASSUME IntervalsAssumption == MaxInterval \in Nat /\ Intervals \subseteq 0..MaxInterval
ASSUME ExpiresAssumption == ExpiresHeaders \subseteq Int
ASSUME DurationsAssumption ==
    /\ MinSubscription \in Nat \ {0}
    /\ DefaultSubscription \in Nat
    /\ MaxSubscription \in Nat
    /\ MinSubscription <= DefaultSubscription
    /\ DefaultSubscription <= MaxSubscription
ASSUME BoundsAssumption ==
    /\ MaxSubscriptions \in Nat
    /\ MaxVersion \in Nat \ {0}
    /\ MaxOrphans \in Nat
    /\ IsFiniteSet(CallIds)

VARIABLES
    store, elapsed, pending, timer, published, notified,    \* see StateNotifier
    subs, orphans, phase, seen, quiet, wire,                \* see SipNotifier
    goingDown,          \* number of the GoingDown bundle, 0 before the shutdown
    age,                \* age[v]: time since bundle v was set, while some client lacks it
    prompt              \* does every timer fire within the tick it is due? (never changes)

notifierVars == <<store, elapsed, pending, timer, published, notified>>
sipVars == <<subs, orphans, phase, seen, quiet, wire>>
vars == <<store, elapsed, pending, timer, published, notified, subs, orphans, phase,
          seen, quiet, wire, goingDown, age, prompt>>

Package == "element"

Notifier == INSTANCE StateNotifier WITH Bundles <- 1..MaxVersion, Loops <- {TRUE}

Sip == INSTANCE SipNotifier WITH
    Packages <- {Package}, Loops <- {TRUE}, Restartable <- FALSE,
    latest <- [p \in {Package} |-> store],
    published <- [p \in {Package} |-> published]

MaxAge == MinInterval + MaxInterval + 1

\* Types of both components and of the histories.
TypeOK ==
    /\ Notifier!TypeOK
    /\ Sip!TypeOK
    /\ goingDown \in 0..MaxVersion
    /\ age \in [1..MaxVersion -> 0..MaxAge]
    /\ prompt \in BOOLEAN

Init ==
    /\ Notifier!Init
    /\ store = 1
    /\ Sip!Init
    /\ goingDown = 0
    /\ age = [v \in 1..MaxVersion |-> 0]
    /\ prompt \in BOOLEAN

----
Live(c) == c \in DOMAIN subs /\ ~Sip!Expired(subs[c])

UpToDate(c) == seen[c][Package] = store

\* Was bundle v set, and does a client still lack it and everything after it?
Awaited(v) == v <= store /\ \E c \in CallIds : Live(c) /\ seen[c][Package] < v

\* The history of age.
Aging(elapsing) ==
    /\ UNCHANGED prompt
    /\ age' = [v \in 1..MaxVersion |->
                 IF ~Awaited(v)' THEN 0
                 ELSE IF elapsing /\ age[v] < MaxAge THEN age[v] + 1
                 ELSE age[v]]

\* set_state, by any writer, with what it sets off in the SIP layer.
Change ==
    /\ store < MaxVersion
    /\ Notifier!SetState(store + 1, TRUE)
    /\ Sip!ChangeAnnounced(Package, TRUE) \/ Sip!ChangeDeferred(Package)
    /\ Aging(FALSE)

SetState == Change /\ UNCHANGED goingDown

\* A faulty variant of Shutdown: the bundle goes to the store past the notifier.
ShutdownUnannounced ==
    /\ phase = "running"
    /\ goingDown = 0
    /\ store < MaxVersion
    /\ store' = store + 1
    /\ UNCHANGED <<elapsed, pending, timer, published, notified>>
    /\ UNCHANGED sipVars
    /\ goingDown' = store + 1
    /\ Aging(FALSE)

\* The lifespan's shutdown sets GoingDown ...
Shutdown ==
    /\ phase = "running"
    /\ goingDown = 0
    /\ Change
    /\ goingDown' = store + 1

\* ... and stops the SIP notifier only then.
Stop ==
    /\ goingDown # 0
    /\ UNCHANGED notifierVars
    /\ Sip!StopCleanup \/ Sip!StopTimers
    /\ Aging(FALSE)
    /\ UNCHANGED goingDown

\* A faulty variant of DeferredDispatch: the SIP notifier is not called.
DeferredDispatchUnheard ==
    /\ Notifier!DeferredDispatch
    /\ UNCHANGED sipVars
    /\ Aging(FALSE)
    /\ UNCHANGED goingDown

\* A deferred dispatch of the notifier fans out as well.
DeferredDispatch ==
    /\ Notifier!DeferredDispatch
    /\ Sip!Announce(Package, TRUE)
    /\ Aging(FALSE)
    /\ UNCHANGED goingDown

\* What the SIP notifier does on its own.
Subscribing ==
    \E c \in CallIds :
        \/ \E interval \in Intervals, expires \in ExpiresHeaders :
               Sip!Subscribe(c, Package, interval, expires, TRUE)
        \/ Sip!Unsubscribe(c)

SipStep ==
    /\ UNCHANGED notifierVars
    /\ \/ Subscribing
       \/ \E c \in CallIds : Sip!TimerFired(c)
       \/ \E s \in orphans : Sip!OrphanTimerFired(s)
       \/ Sip!Start
    /\ Aging(FALSE)
    /\ UNCHANGED goingDown

Cleanup ==
    /\ UNCHANGED notifierVars
    /\ Sip!Cleanup
    /\ Aging(FALSE)
    /\ UNCHANGED goingDown

TimerDue == timer = 0 \/ \E c \in DOMAIN subs : subs[c].timer = 0

Tick ==
    /\ prompt => ~TimerDue
    /\ Notifier!Tick
    /\ Sip!Tick
    /\ Aging(TRUE)
    /\ UNCHANGED goingDown

Next ==
    \/ SetState
    \/ Shutdown
    \/ Stop
    \/ DeferredDispatch
    \/ SipStep
    \/ Cleanup
    \/ Tick

Spec == Init /\ [][Next]_vars

\* asyncio wakes the cleanup loop again and again.
FairSpec == Spec /\ WF_vars(Cleanup)

----
\* Until the SIP notifier stops, a client that does not know the current state is
\* about to: the notifier has a dispatch scheduled, or the subscription a timer.
ChangeInFlight ==
    phase = "running" =>
        \A c \in CallIds : Live(c) /\ ~UpToDate(c) =>
            \/ timer # Notifier!NoTimer
            \/ Sip!Armed(subs[c]) /\ subs[c].pending = store

\* The two rate filters add up and no more: when timers fire promptly, a client is told
\* of a change, or of a later one, within both minimum intervals together.
Timely ==
    prompt /\ phase = "running" =>
        \A c \in CallIds : Live(c) /\ ~UpToDate(c) =>
            age[seen[c][Package] + 1] <= MinInterval + subs[c].interval

\* By the time the SIP notifier is stopped, a client that asked for no rate filter has
\* been told GoingDown, unless the notifier's own filter holds it back.
ShutdownAnnouncedUnfiltered ==
    phase = "stopped" /\ timer = Notifier!NoTimer =>
        \A c \in CallIds : Live(c) /\ subs[c].interval = 0 =>
            seen[c][Package] >= goingDown

\* lifecycle.py:15 says of the shutdown: "Set ElementState -> GoingDown (notifies
\* downstream subscribers)": by the time the SIP notifier is stopped, every live
\* subscriber has been told.
ShutdownAnnounced ==
    phase = "stopped" =>
        \A c \in CallIds : Live(c) => seen[c][Package] >= goingDown

\* While the SIP notifier runs, an expired subscription gives its place in the table
\* back, without a state change to sweep it out.
ExpiredIsDropped == Sip!ExpiredIsDropped

\* The composition keeps what SipNotifier assumes of its state notifiers, and is one
\* of its behaviours.
ImplementsSip == Sip!Spec

----
\* The strengthening of the first three, beside what is invariant in SipNotifier.

\* The notifier's half: see StateNotifier's IInv.
NotifierInv ==
    /\ store \in 1..MaxVersion /\ published \in 1..store
    /\ elapsed \in 0..MinInterval
    /\ timer \in 0..MinInterval \cup {Notifier!NoTimer}
    /\ pending = (timer # Notifier!NoTimer)
    /\ timer # Notifier!NoTimer => timer + elapsed <= MinInterval
    /\ timer = Notifier!NoTimer => published = store
    /\ goingDown \in 0..store

Lacks(c, v) == Live(c) /\ seen[c][Package] < v

\* Where bundle v is on its way to client c, whose two stages have MinInterval and the
\* subscription's interval.
OnItsWay(c, v) ==
    IF published < v
    THEN timer >= 0 /\ age[v] + timer <= MinInterval
    ELSE Sip!Armed(subs[c]) /\ age[v] + subs[c].timer <= MinInterval + subs[c].interval

AgeInv ==
    /\ age \in [1..MaxVersion -> 0..MaxAge]
    /\ \A v \in 1..MaxVersion : ~Awaited(v) => age[v] = 0

TimelyInv ==
    prompt /\ phase \in {"new", "running"} =>
        \A c \in CallIds, v \in 1..store : Lacks(c, v) => OnItsWay(c, v)

IInv == NotifierInv /\ AgeInv /\ TimelyInv
=============================================================================
