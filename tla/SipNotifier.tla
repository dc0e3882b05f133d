----------------------------- MODULE SipNotifier -----------------------------
(***************************************************************************)
(* SipNotifier: the SIP SUBSCRIBE/NOTIFY layer.  It keeps one subscription *)
(* per Call-ID, fans each published state change out to them under the     *)
(* subscription's own rate filter, repeats the current state as a          *)
(* heartbeat, and drops subscriptions that expire.                         *)
(*                                                                         *)
(* A NOTIFY body is the version number of the state bundle it was built    *)
(* from, counted per event package.  Time is relative: each subscription   *)
(* counts its life and its timer down, and the time since its last NOTIFY  *)
(* up to its interval.  A timer that is due may fire late.                 *)
(*                                                                         *)
(* SUBSCRIBEs answered 489, 403, 423 or 503 return before any assignment:  *)
(* they are stuttering steps.  Exceptions of the wire layer are caught and *)
(* change nothing here, so a NOTIFY counts as sent once it is handed over. *)
(***************************************************************************)
EXTENDS Integers, FiniteSets

CONSTANTS
    CallIds,            \* the Call-IDs clients use
    Packages,           \* the event packages: element state, service state
    Intervals,          \* the min_notify_interval values clients ask for, in ticks
    MaxInterval,        \* their bound
    ExpiresHeaders,     \* the Expires values clients send, NoExpires when absent
    MinSubscription,    \* MIN_SUBSCRIPTION_SECONDS, in ticks
    DefaultSubscription,\* DEFAULT_SUBSCRIPTION_SECONDS
    MaxSubscription,    \* MAX_SUBSCRIPTION_SECONDS
    MaxSubscriptions,   \* max_subscriptions
    MaxVersion,         \* bound on the state changes of a package
    MaxOrphans,         \* bound on the timers left behind when a client subscribes
    Loops,              \* callers run on the event loop (TRUE), off it (FALSE)
    Restartable         \* may start() follow a stop()?

NoExpires == -1

ASSUME IntervalsAssumption == MaxInterval \in Nat /\ Intervals \subseteq 0..MaxInterval
ASSUME ExpiresAssumption == ExpiresHeaders \subseteq Int
ASSUME DurationsAssumption ==
    /\ MinSubscription \in Nat \ {0}
    /\ DefaultSubscription \in Nat
    /\ MaxSubscription \in Nat
    /\ MinSubscription <= DefaultSubscription
    /\ DefaultSubscription <= MaxSubscription
ASSUME BoundsAssumption ==
    /\ MaxSubscriptions \in Nat
    /\ MaxVersion \in Nat \ {0}
    /\ MaxOrphans \in Nat
    /\ IsFiniteSet(CallIds)
ASSUME FlagsAssumption == Loops \subseteq BOOLEAN /\ Restartable \in BOOLEAN

VARIABLES
    latest,     \* latest[p]: version of the bundle the store holds for package p
    published,  \* published[p]: version last announced by p's state notifier
    subs,       \* _subscriptions: Call-ID |-> SipSubscription
    orphans,    \* subscriptions no longer in it whose timer is still armed
    phase,      \* "new", "running", "stopping" (cleanup task cancelled), "stopped"
    seen,       \* seen[c][p]: version of p last sent on Call-ID c (history)
    quiet,      \* quiet[c]: time since the last NOTIFY on c, capped (history)
    wire        \* the NOTIFYs sent by the last step (history)

notifierVars == <<latest, published>>
historyVars == <<seen, quiet, wire>>
vars == <<latest, published, subs, orphans, phase, seen, quiet, wire>>

NoBody == 0             \* _pending_body is None
NoTimer == -1           \* _timer_handle is None
CancelledTimer == -2    \* _timer_handle is kept but its timer was cancelled

Versions == 1..MaxVersion
TimerValues == 0..MaxInterval \cup {NoTimer, CancelledTimer}
Causes == {"initial", "change", "timer", "orphan"}
Notifies == [call : CallIds, package : Packages, cause : Causes]

Subscription ==
    [call : CallIds, package : Packages, interval : Intervals,
     life : 0..MaxSubscription,         \* until expires_at
     elapsed : 0..MaxInterval,          \* since last_notify_mono
     timer : TimerValues,               \* _timer_handle: time left
     pending : 0..MaxVersion]           \* _pending_body

\* Types; lives are bounded by MAX_SUBSCRIPTION_SECONDS.
TypeOK ==
    /\ latest \in [Packages -> Versions]
    /\ published \in [Packages -> Versions]
    /\ \E calls \in SUBSET CallIds : subs \in [calls -> Subscription]
    /\ orphans \subseteq Subscription
    /\ phase \in {"new", "running", "stopping", "stopped"}
    /\ seen \in [CallIds -> [Packages -> 0..MaxVersion]]
    /\ quiet \in [CallIds -> 0..MaxInterval]
    /\ wire \subseteq Notifies

Init ==
    /\ latest = [p \in Packages |-> 1]
    /\ published = latest
    /\ subs = [c \in {} |-> {}]
    /\ orphans = {}
    /\ phase = "new"
    /\ seen = [c \in CallIds |-> [p \in Packages |-> 0]]
    /\ quiet = [c \in CallIds |-> MaxInterval]
    /\ wire = {}

----
\* One subscription.

Expired(s) == s.life = 0

Armed(s) == s.timer >= 0

\* _schedule_notify_timer: at most one timer per subscription, on a running loop.
ScheduleNotifyTimer(s, onLoop) ==
    IF onLoop /\ s.timer = NoTimer THEN [s EXCEPT !.timer = s.interval] ELSE s

\* Faulty variants of DeliverNotify: no timer for the next heartbeat; the queued body
\* stays queued; last_notify_mono is not updated; the old timer goes on.
DeliverNotifyNoWatchdog(s, onLoop) ==
    [s EXCEPT !.timer = NoTimer, !.pending = NoBody, !.elapsed = 0]
DeliverNotifyBodyKept(s, onLoop) ==
    LET reset == [s EXCEPT !.timer = NoTimer, !.elapsed = 0]
    IN  IF s.interval > 0 THEN ScheduleNotifyTimer(reset, onLoop) ELSE reset
DeliverNotifyClockKept(s, onLoop) ==
    LET reset == [s EXCEPT !.timer = NoTimer, !.pending = NoBody]
    IN  IF s.interval > 0 THEN ScheduleNotifyTimer(reset, onLoop) ELSE reset
DeliverNotifyTimerKept(s, onLoop) ==
    LET reset == [s EXCEPT !.pending = NoBody, !.elapsed = 0]
    IN  IF s.interval > 0 THEN ScheduleNotifyTimer(reset, onLoop) ELSE reset

\* _deliver_notify: the subscription after a NOTIFY went out.
DeliverNotify(s, onLoop) ==
    LET reset == [s EXCEPT !.timer = NoTimer, !.pending = NoBody, !.elapsed = 0]
    IN  IF s.interval > 0 THEN ScheduleNotifyTimer(reset, onLoop) ELSE reset

\* _rate_filtered_deliver: send when the window has passed ...
WindowPassed(s) == s.interval = 0 \/ s.elapsed >= s.interval

\* A faulty variant: the first body queued wins.
RateFilteredDeliverFirstWins(s, version, onLoop) ==
    IF WindowPassed(s)
    THEN DeliverNotify(s, onLoop)
    ELSE ScheduleNotifyTimer(
            IF s.pending = NoBody THEN [s EXCEPT !.pending = version] ELSE s, onLoop)

\* ... and queue the body inside it, the latest one winning.
RateFilteredDeliver(s, version, onLoop) ==
    IF WindowPassed(s)
    THEN DeliverNotify(s, onLoop)
    ELSE ScheduleNotifyTimer([s EXCEPT !.pending = version], onLoop)

\* What the client sees: NOTIFYs with one body, sent on some Call-IDs.
Send(calls, p, version, cause) ==
    /\ wire' = {[call |-> c, package |-> p, cause |-> cause] : c \in calls}
    /\ seen' = [c \in CallIds |->
                  IF c \in calls THEN [seen[c] EXCEPT ![p] = version] ELSE seen[c]]
    /\ quiet' = [c \in CallIds |-> IF c \in calls THEN 0 ELSE quiet[c]]

SendNothing ==
    /\ wire' = {}
    /\ UNCHANGED <<seen, quiet>>

----
\* SUBSCRIBE.

Requested(expires) == IF expires = NoExpires THEN DefaultSubscription ELSE expires

\* A faulty variant: one subscription too many.
HasCapacityOffByOne(c) ==
    c \in DOMAIN subs \/ Cardinality(DOMAIN subs) <= MaxSubscriptions

Negotiated(expires) ==
    IF Requested(expires) < MaxSubscription THEN Requested(expires) ELSE MaxSubscription

HasCapacity(c) == c \in DOMAIN subs \/ Cardinality(DOMAIN subs) < MaxSubscriptions

\* The new SipSubscription; it replaces the one of the same Call-ID, whose timer is
\* cancelled, and its first NOTIFY carries the store's state.
NewSubscription(c, p, interval, expires) ==
    [call |-> c, package |-> p, interval |-> interval, life |-> Negotiated(expires),
     elapsed |-> 0, timer |-> NoTimer, pending |-> NoBody]

\* A faulty variant of Subscribe: the replaced subscription's timer is not cancelled.
SubscribeTimerLeft(c, p, interval, expires, onLoop) ==
    /\ expires # 0
    /\ Requested(expires) >= MinSubscription
    /\ HasCapacity(c)
    /\ LET sub == DeliverNotify(NewSubscription(c, p, interval, expires), onLoop)
       IN  subs' = [d \in DOMAIN subs \cup {c} |-> IF d = c THEN sub ELSE subs[d]]
    /\ orphans' = orphans \cup {subs[d] : d \in {e \in DOMAIN subs : e = c /\ Armed(subs[e])}}
    /\ Send({c}, p, latest[p], "initial")
    /\ UNCHANGED <<latest, published, phase>>

\* handle_subscribe, accepted.
Subscribe(c, p, interval, expires, onLoop) ==
    /\ expires # 0
    /\ Requested(expires) >= MinSubscription
    /\ HasCapacity(c)
    /\ Cardinality(orphans) <= MaxOrphans          \* bound of the model
    /\ LET sub == DeliverNotify(NewSubscription(c, p, interval, expires), onLoop)
       IN  subs' = [d \in DOMAIN subs \cup {c} |-> IF d = c THEN sub ELSE subs[d]]
    /\ Send({c}, p, latest[p], "initial")
    /\ UNCHANGED <<latest, published, orphans, phase>>

\* handle_subscribe with Expires: 0, for a Call-ID known or not.
Unsubscribe(c) ==
    /\ subs' = [d \in DOMAIN subs \ {c} |-> subs[d]]
    /\ SendNothing
    /\ UNCHANGED <<latest, published, orphans, phase>>

----
\* State changes.

\* _fan_out: every live subscription to the package gets the body or has it queued;
\* expired ones are dropped, their timers left running.
FanOut(p, version, onLoop) ==
    LET expired == {c \in DOMAIN subs : Expired(subs[c])}
        matching == {c \in DOMAIN subs \ expired : subs[c].package = p}
    IN  /\ subs' = [c \in DOMAIN subs \ expired |->
                      IF c \in matching
                      THEN RateFilteredDeliver(subs[c], version, onLoop)
                      ELSE subs[c]]
        /\ orphans' = orphans \cup {subs[c] : c \in {d \in expired : Armed(subs[d])}}
        /\ Send({c \in matching : WindowPassed(subs[c])}, p, version, "change")

\* The package's state notifier, as CoalescingPublisher describes it: a change is
\* announced in the same step or later, with the state current then; an announcement
\* may repeat the last one.
ChangeAnnounced(p, onLoop) ==
    /\ latest[p] < MaxVersion
    /\ latest' = [latest EXCEPT ![p] = @ + 1]
    /\ published' = [published EXCEPT ![p] = latest[p] + 1]
    /\ FanOut(p, latest[p] + 1, onLoop)
    /\ UNCHANGED phase

ChangeDeferred(p) ==
    /\ latest[p] < MaxVersion
    /\ latest' = [latest EXCEPT ![p] = @ + 1]
    /\ SendNothing
    /\ UNCHANGED <<published, subs, orphans, phase>>

Announce(p, onLoop) ==
    /\ published' = [published EXCEPT ![p] = latest[p]]
    /\ FanOut(p, latest[p], onLoop)
    /\ UNCHANGED <<latest, phase>>

----
\* Timers.

\* A faulty variant: heartbeats repeat the last announcement.
TimerBodyAnnounced(s) == IF s.pending # NoBody THEN s.pending ELSE published[s.package]

\* The body _timer_fired sends: the queued change, or the current state as heartbeat.
TimerBody(s) == IF s.pending # NoBody THEN s.pending ELSE latest[s.package]

\* _timer_fired for a subscription in the table, some time after the timer is due.
TimerFired(c) ==
    /\ c \in DOMAIN subs
    /\ subs[c].timer = 0
    /\ UNCHANGED <<latest, published, orphans, phase>>
    /\ \/ /\ Expired(subs[c])
          /\ subs' = [subs EXCEPT ![c].timer = NoTimer]
          /\ SendNothing
       \/ /\ ~Expired(subs[c])
          /\ subs' = [subs EXCEPT ![c] = DeliverNotify(@, TRUE)]
          /\ Send({c}, subs[c].package, TimerBody(subs[c]), "timer")

\* _timer_fired for a subscription that has left the table: the timer knows only the
\* object, and looks at nothing but its expiry.
OrphanTimerFired(s) ==
    /\ s \in orphans
    /\ s.timer = 0
    /\ UNCHANGED <<latest, published, subs, phase>>
    /\ \/ /\ Expired(s)
          /\ orphans' = orphans \ {s}
          /\ SendNothing
       \/ /\ ~Expired(s)
          /\ orphans' = (orphans \ {s}) \cup {DeliverNotify(s, TRUE)}
          /\ Send({s.call}, s.package, TimerBody(s), "orphan")

\* A faulty variant: a subscription without a timer is never looked at.
CleanupArmedOnly ==
    /\ phase = "running"
    /\ subs' = [c \in {d \in DOMAIN subs : ~(Expired(subs[d]) /\ Armed(subs[d]))} |-> subs[c]]
    /\ SendNothing
    /\ UNCHANGED <<latest, published, orphans, phase>>

\* One round of _subscription_cleanup_loop.
Cleanup ==
    /\ phase = "running"
    /\ subs' = [c \in {d \in DOMAIN subs : ~Expired(subs[d])} |-> subs[c]]
    /\ SendNothing
    /\ UNCHANGED <<latest, published, orphans, phase>>

----
\* Lifecycle, on the leader worker.

Start ==
    /\ phase = "new" \/ (phase = "stopped" /\ Restartable)
    /\ phase' = "running"
    /\ SendNothing
    /\ UNCHANGED <<latest, published, subs, orphans>>

\* stop(): cancel the cleanup task and wait for it ...
StopCleanup ==
    /\ phase = "running"
    /\ phase' = "stopping"
    /\ SendNothing
    /\ UNCHANGED <<latest, published, subs, orphans>>

\* ... then cancel the timers of the table, without clearing their handles.
StopTimers ==
    /\ phase = "stopping"
    /\ phase' = "stopped"
    /\ subs' = [c \in DOMAIN subs |->
                  IF subs[c].timer = NoTimer THEN subs[c]
                  ELSE [subs[c] EXCEPT !.timer = CancelledTimer]]
    /\ SendNothing
    /\ UNCHANGED <<latest, published, orphans>>

Countdown(n) == IF n > 0 THEN n - 1 ELSE n

Age(s) ==
    [s EXCEPT !.life = Countdown(s.life),
              !.elapsed = IF s.elapsed < s.interval THEN s.elapsed + 1 ELSE s.elapsed,
              !.timer = Countdown(s.timer)]

\* Time passes.
Tick ==
    /\ subs' = [c \in DOMAIN subs |-> Age(subs[c])]
    /\ orphans' = {Age(s) : s \in orphans}
    /\ quiet' = [c \in CallIds |->
                   IF quiet[c] < MaxInterval THEN quiet[c] + 1 ELSE quiet[c]]
    /\ wire' = {}
    /\ UNCHANGED <<latest, published, phase, seen>>

----
Next ==
    \/ \E c \in CallIds, p \in Packages, interval \in Intervals,
          expires \in ExpiresHeaders, onLoop \in Loops :
            Subscribe(c, p, interval, expires, onLoop)
    \/ \E c \in CallIds : Unsubscribe(c)
    \/ \E p \in Packages, onLoop \in Loops :
            ChangeAnnounced(p, onLoop) \/ Announce(p, onLoop)
    \/ \E p \in Packages : ChangeDeferred(p)
    \/ \E c \in CallIds : TimerFired(c)
    \/ \E s \in orphans : OrphanTimerFired(s)
    \/ Cleanup
    \/ Start
    \/ StopCleanup
    \/ StopTimers
    \/ Tick

Spec == Init /\ [][Next]_vars

----
\* The inductive invariant.

\* The body a subscription would send next if it sent all it has queued.
Newest(s) == IF s.pending # NoBody THEN s.pending ELSE seen[s.call][s.package]

\* The clock history measures at least what the code's clock does, and no timer is
\* due before the window has passed.
TimingInv ==
    \A c \in DOMAIN subs :
        /\ subs[c].elapsed <= subs[c].interval
        /\ subs[c].elapsed <= quiet[c]
        /\ Armed(subs[c]) => subs[c].timer + subs[c].elapsed >= subs[c].interval

\* Nothing sent or announced is newer than the store; what is queued is not older than
\* what was sent, nor is the newest of both older than the last announcement.
OrderInv ==
    /\ \A p \in Packages : published[p] <= latest[p]
    /\ \A c \in CallIds, p \in Packages : seen[c][p] <= latest[p]
    /\ \A c \in DOMAIN subs :
         /\ subs[c].call = c
         /\ subs[c].pending # NoBody =>
              subs[c].pending \in seen[c][subs[c].package]..latest[subs[c].package]
         /\ ~Expired(subs[c]) => Newest(subs[c]) >= published[subs[c].package]

\* Only expired subscriptions leave the table with their timer armed.
OrphansExpired == \A s \in orphans : Expired(s)

\* The strengthening of the safety properties below that every step preserves.
IInv == TypeOK /\ TimingInv /\ OrderInv /\ OrphansExpired

----
\* Properties.

\* max_subscriptions bounds the table through refreshes, expiries and prunings.
CapacityRespected == Cardinality(DOMAIN subs) <= MaxSubscriptions

\* No live subscription misses an announcement: whatever its state notifier announced
\* has been sent on it, or is queued on it, or is older than what was.
NoMissedAnnouncement ==
    \A c \in DOMAIN subs : ~Expired(subs[c]) =>
        Newest(subs[c]) >= published[subs[c].package]

\* On one Call-ID the states of a package arrive in the order they happened, across
\* coalescing, heartbeats, refreshes and re-subscriptions: a late timer never
\* overwrites newer state with older.
NeverBackwards ==
    [][\A c \in CallIds, p \in Packages : seen'[c][p] >= seen[c][p]]_vars

\* Except for the NOTIFY that answers a SUBSCRIBE, two NOTIFYs on a Call-ID are at
\* least the subscription's minimum interval apart, whichever of a state change and
\* the timer sends the second.  Timers do not look at the time of the last NOTIFY.
MinIntervalKept ==
    [][\A n \in wire' : n.cause # "initial" => quiet[n.call] >= subs[n.call].interval]_vars

\* A NOTIFY goes out only on the subscription the table holds for its Call-ID, before
\* that one expires, and for its package: replaced, cancelled and pruned subscriptions
\* are silent even when their timer still fires.
OnlyCurrentSubscriptions ==
    [][\A n \in wire' :
         /\ n.cause # "orphan"
         /\ n.call \in DOMAIN subs'
         /\ n.package = subs'[n.call].package
         /\ ~Expired(subs'[n.call])]_vars

\* While the notifier runs, every live rate-limited subscription has its timer armed
\* for exactly the rest of its window.  Queued changes are sent on time and heartbeats
\* go on: "NOTIFYs are sent even when state is unchanged" (sip_notifier.py:11).
HeartbeatArmed ==
    \A c \in DOMAIN subs :
        phase = "running" /\ subs[c].interval > 0 /\ ~Expired(subs[c])
          => subs[c].timer = subs[c].interval - subs[c].elapsed

\* An expired subscription gives its place in the table back while the notifier runs
\* (checked in FunctionalElement, which states the fairness of the cleanup loop).
ExpiredIsDropped ==
    \A c \in CallIds :
        (c \in DOMAIN subs /\ Expired(subs[c]))
          ~> (c \notin DOMAIN subs \/ ~Expired(subs[c]) \/ phase # "running")
=============================================================================
