---------------------------- MODULE StateNotifier ----------------------------
(***************************************************************************)
(* ElementStateNotifier (and its mirror ServiceStateNotifier): the state   *)
(* store, set_state, and the RFC 6446 rate filter that merges the changes  *)
(* arriving within MinInterval into one deferred dispatch.                 *)
(*                                                                         *)
(* Time is relative, so the model needs no horizon: `elapsed' is           *)
(* time.monotonic() - _last_notify_mono, counted up to MinInterval, beyond *)
(* which the code tells no two values apart; `timer' counts the armed      *)
(* call_later down to 0.  A due timer may run late: the event loop may     *)
(* first run any other callback that is ready.                             *)
(***************************************************************************)
EXTENDS Integers

CONSTANTS
    Bundles,        \* the (state, reason) pairs set_state is called with
    MinInterval,    \* min_notify_interval, in ticks
    Loops           \* callers run on the event loop (TRUE), off it (FALSE)

ASSUME IntervalAssumption == MinInterval \in Nat
ASSUME LoopsAssumption == Loops \subseteq BOOLEAN

VARIABLES
    store,          \* the bundle in the StateStore
    elapsed,        \* time since the last dispatch, capped at MinInterval
    pending,        \* _notify_pending
    timer,          \* time left to the armed call_later, or NoTimer
    published,      \* the bundle of the last dispatch (before one: the initial bundle)
    notified        \* was the last dispatch in the last step, before it, or never?

vars == <<store, elapsed, pending, timer, published, notified>>

NoTimer == -1

\* Types; the delay left to the timer is never negative nor beyond the interval.
TypeOK ==
    /\ store \in Bundles
    /\ elapsed \in 0..MinInterval
    /\ pending \in BOOLEAN
    /\ timer \in 0..MinInterval \cup {NoTimer}
    /\ published \in Bundles
    /\ notified \in {"never", "before", "now"}

\* _last_notify_mono = 0.0 is not a reading of the clock: how long ago that was is
\* whatever time.monotonic() counts from when the process starts.
Init ==
    /\ store \in Bundles
    /\ published = store
    /\ elapsed \in 0..MinInterval
    /\ pending = FALSE
    /\ timer = NoTimer
    /\ notified = "never"

----
\* _dispatch_notify: restart the window and hand the body to every callback.
Dispatch(bundle) ==
    /\ elapsed' = 0
    /\ published' = bundle
    /\ notified' = "now"

\* No callback is invoked.
Silent ==
    /\ notified' = IF notified = "never" THEN "never" ELSE "before"
    /\ UNCHANGED published

Defer(remaining) ==
    /\ pending' = TRUE
    /\ timer' = remaining
    /\ Silent
    /\ UNCHANGED elapsed

\* Faulty variants of ScheduleNotify: every change restarts the timer; a change
\* inside the window is dropped.
ScheduleNotifyDebounced(bundle, onLoop) ==
    IF elapsed >= MinInterval /\ ~pending
    THEN Dispatch(bundle) /\ UNCHANGED <<pending, timer>>
    ELSE Defer(MinInterval)
ScheduleNotifyDropping(bundle, onLoop) ==
    IF elapsed >= MinInterval
    THEN Dispatch(bundle) /\ UNCHANGED <<pending, timer>>
    ELSE Silent /\ UNCHANGED <<elapsed, pending, timer>>

\* _schedule_notify: dispatch when the window has passed or when no event loop is
\* running; inside the window arm one timer for the rest of it, unless one is armed.
ScheduleNotify(bundle, onLoop) ==
    \/ /\ elapsed >= MinInterval \/ (~pending /\ ~onLoop)
       /\ Dispatch(bundle)
       /\ UNCHANGED <<pending, timer>>
    \/ /\ elapsed < MinInterval /\ pending
       /\ Silent
       /\ UNCHANGED <<elapsed, pending, timer>>
    \/ /\ elapsed < MinInterval /\ ~pending /\ onLoop
       /\ Defer(MinInterval - elapsed)

\* set_state: a no-op for the bundle already stored.
SetState(bundle, onLoop) ==
    /\ bundle # store
    /\ store' = bundle
    /\ ScheduleNotify(bundle, onLoop)

\* Faulty variants of DeferredDispatch: _notify_pending is not reset; the body is
\* the one of the previous dispatch.
DeferredDispatchFlagKept ==
    /\ timer = 0
    /\ timer' = NoTimer
    /\ Dispatch(store)
    /\ UNCHANGED <<store, pending>>
DeferredDispatchStale ==
    /\ timer = 0
    /\ timer' = NoTimer
    /\ pending' = FALSE
    /\ Dispatch(published)
    /\ UNCHANGED store

\* _deferred_dispatch, at some time after its timer is due: the body is read from the
\* store now, not when the timer was armed.
DeferredDispatch ==
    /\ timer = 0
    /\ timer' = NoTimer
    /\ pending' = FALSE
    /\ Dispatch(store)
    /\ UNCHANGED store

\* Time passes.
Tick ==
    /\ elapsed' = IF elapsed < MinInterval THEN elapsed + 1 ELSE elapsed
    /\ timer' = IF timer > 0 THEN timer - 1 ELSE timer
    /\ Silent
    /\ UNCHANGED <<store, pending>>

----
Next ==
    \/ \E b \in Bundles, onLoop \in Loops : SetState(b, onLoop)
    \/ DeferredDispatch
    \/ Tick

\* asyncio runs a due timer eventually, and time passes.
Fairness == WF_vars(Tick) /\ WF_vars(DeferredDispatch)

Spec == Init /\ [][Next]_vars /\ Fairness

----
\* A bundle the callbacks have not been given has a timer armed for it, due by the end
\* of the rate window: no change is lost, or held back for longer than
\* min_notify_interval (plus the event loop's lateness).
ChangeIsScheduled ==
    store # published => timer # NoTimer /\ timer + elapsed <= MinInterval

\* _notify_pending is raised exactly while a timer is armed.  The early return of
\* _schedule_notify trusts the flag: raised without a timer, it silences the notifier.
FlagMeansTimer == pending <=> timer # NoTimer

\* The strengthening that is inductive: what is deferred fits in the window, and all
\* that is not deferred has been published.
IInv ==
    /\ TypeOK
    /\ FlagMeansTimer
    /\ pending => timer + elapsed <= MinInterval
    /\ ~pending => published = store

\* However fast set_state is called, a deferred dispatch is not put off forever: the
\* timer is a throttle, not a debounce.
NeverStarved == pending ~> notified = "now"

\* The notifier implements the abstract publisher, its liveness included: a bundle
\* that is not overwritten is announced in the end.
Publisher == INSTANCE CoalescingPublisher
ImplementsPublisher == Publisher!Spec
=============================================================================
