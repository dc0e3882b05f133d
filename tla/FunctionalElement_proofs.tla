----------------------- MODULE FunctionalElement_proofs -----------------------
(***************************************************************************)
(* The composition behaves, on its SIP side, as SipNotifier says, so that  *)
(* whatever is proved of SipNotifier holds of it; with the invariant of    *)
(* the other side, ElementStateNotifier, this bounds how long a change is  *)
(* on its way through both rate filters.                                   *)
(*                                                                         *)
(* SipProofs is the instance of SipNotifier by which the theorems about it *)
(* are cited: its definitions are those of the instance Sip.               *)
(***************************************************************************)
EXTENDS FunctionalElement, TLAPS

SipProofs == INSTANCE SipNotifier_proofs WITH
    Packages <- {Package}, Loops <- {TRUE}, Restartable <- FALSE,
    latest <- [p \in {Package} |-> store],
    published <- [p \in {Package} |-> published]

\* The initial states are initial states of SipNotifier.
LEMMA InitRefines == Init => Sip!Init
BY DEF Init

\* Every step is one of the SIP notifier, with its environment, or leaves it alone.
LEMMA StepRefines == [Next]_vars => [Sip!Next]_(Sip!vars)
<1> SUFFICES ASSUME [Next]_vars PROVE [Sip!Next]_(Sip!vars)
  OBVIOUS
<1>1. ASSUME Change PROVE Sip!Next
  BY <1>1 DEF Change, Sip!Next
<1>2. CASE SetState
  BY <1>1, <1>2 DEF SetState
<1>3. CASE Shutdown
  BY <1>1, <1>3 DEF Shutdown
<1>4. CASE Stop
  BY <1>4 DEF Stop, Sip!Next
<1>5. CASE DeferredDispatch
  BY <1>5 DEF DeferredDispatch, Sip!Next
<1>6. CASE SipStep
  BY <1>6 DEF SipStep, Subscribing, Sip!Next
<1>7. CASE Cleanup
  BY <1>7 DEF Cleanup, Sip!Next
<1>8. CASE Tick
  BY <1>8 DEF Tick, Sip!Next
<1>9. CASE UNCHANGED vars
  BY <1>9 DEF vars, Sip!vars
<1> QED
  BY <1>2, <1>3, <1>4, <1>5, <1>6, <1>7, <1>8, <1>9 DEF Next

\* The composed system implements SipNotifier, with ElementStateNotifier as the
\* publisher of its only package.
THEOREM Refinement == Spec => ImplementsSip
BY InitRefines, StepRefines, PTL DEF Spec, ImplementsSip, Sip!Spec

----
\* What the theorems about SipNotifier assume holds of its instance.
LEMMA SipAssumptions ==
    /\ SipProofs!IntervalsAssumption /\ SipProofs!ExpiresAssumption
    /\ SipProofs!DurationsAssumption /\ SipProofs!BoundsAssumption
    /\ SipProofs!FlagsAssumption
BY IntervalsAssumption, ExpiresAssumption, DurationsAssumption, BoundsAssumption
DEF SipProofs!IntervalsAssumption, SipProofs!ExpiresAssumption,
    SipProofs!DurationsAssumption, SipProofs!BoundsAssumption, SipProofs!FlagsAssumption,
    IsFiniteSet, SipProofs!IsFiniteSet

\* The two instances agree on a delivery, ...
LEMMA SameDelivery ==
    ASSUME NEW s, NEW version, NEW onLoop
    PROVE  /\ Sip!DeliverNotify(s, onLoop) = SipProofs!DeliverNotify(s, onLoop)
           /\ Sip!RateFilteredDeliver(s, version, onLoop)
                = SipProofs!RateFilteredDeliver(s, version, onLoop)
BY DEF Sip!DeliverNotify, SipProofs!DeliverNotify, Sip!ScheduleNotifyTimer,
       SipProofs!ScheduleNotifyTimer, Sip!NoTimer, SipProofs!NoTimer, Sip!NoBody,
       SipProofs!NoBody, Sip!RateFilteredDeliver, SipProofs!RateFilteredDeliver,
       Sip!WindowPassed, SipProofs!WindowPassed

\* ... on a fan-out, ...
LEMMA SameFanOut ==
    ASSUME NEW p, NEW version, NEW onLoop
    PROVE  Sip!FanOut(p, version, onLoop) <=> SipProofs!FanOut(p, version, onLoop)
BY SameDelivery
DEF Sip!FanOut, SipProofs!FanOut, Sip!Send, SipProofs!Send, Sip!Expired,
    SipProofs!Expired, Sip!Armed, SipProofs!Armed, Sip!WindowPassed,
    SipProofs!WindowPassed

\* ... on SUBSCRIBE ...
LEMMA SameSubscribe ==
    ASSUME NEW c, NEW p, NEW interval, NEW expires, NEW onLoop,
           Sip!Subscribe(c, p, interval, expires, onLoop)
    PROVE  SipProofs!Subscribe(c, p, interval, expires, onLoop)
<1>1. \A S : Sip!Cardinality(S) = SipProofs!Cardinality(S)
  BY DEF Sip!Cardinality, SipProofs!Cardinality
<1> QED
  BY <1>1, SameDelivery
  DEF Sip!Subscribe, SipProofs!Subscribe, Sip!HasCapacity, SipProofs!HasCapacity,
      Sip!Requested, SipProofs!Requested, Sip!NewSubscription, SipProofs!NewSubscription,
      Sip!Negotiated, SipProofs!Negotiated, Sip!Send, SipProofs!Send, Sip!NoExpires,
      SipProofs!NoExpires, Sip!NoTimer, SipProofs!NoTimer, Sip!NoBody, SipProofs!NoBody

\* ... and on the timers.
LEMMA SameTimerFired ==
    /\ \A c : Sip!TimerFired(c) => SipProofs!TimerFired(c)
    /\ \A s : Sip!OrphanTimerFired(s) => SipProofs!OrphanTimerFired(s)
BY SameDelivery
DEF Sip!TimerFired, SipProofs!TimerFired, Sip!OrphanTimerFired,
    SipProofs!OrphanTimerFired, Sip!Send, SipProofs!Send, Sip!SendNothing,
    SipProofs!SendNothing, Sip!Expired, SipProofs!Expired, Sip!TimerBody,
    SipProofs!TimerBody, Sip!NoTimer, SipProofs!NoTimer, Sip!NoBody, SipProofs!NoBody

\* So a step of one is a step of the other.
LEMMA SameNext == Sip!Next => SipProofs!Next
<1> SUFFICES ASSUME Sip!Next PROVE SipProofs!Next
  OBVIOUS
<1>1. CASE \E c \in CallIds, p \in {Package}, interval \in Intervals,
              expires \in ExpiresHeaders, onLoop \in {TRUE} :
                Sip!Subscribe(c, p, interval, expires, onLoop)
  BY <1>1, SameSubscribe DEF SipProofs!Next
<1>2. CASE \E c \in CallIds : Sip!Unsubscribe(c)
  BY <1>2
  DEF Sip!Unsubscribe, SipProofs!Unsubscribe, Sip!SendNothing, SipProofs!SendNothing,
      SipProofs!Next
<1>3. CASE \E p \in {Package}, onLoop \in {TRUE} :
              Sip!ChangeAnnounced(p, onLoop) \/ Sip!Announce(p, onLoop)
  BY <1>3, SameFanOut
  DEF Sip!ChangeAnnounced, SipProofs!ChangeAnnounced, Sip!Announce, SipProofs!Announce,
      SipProofs!Next
<1>4. CASE \E p \in {Package} : Sip!ChangeDeferred(p)
  BY <1>4
  DEF Sip!ChangeDeferred, SipProofs!ChangeDeferred, Sip!SendNothing,
      SipProofs!SendNothing, SipProofs!Next
<1>5. CASE \/ \E c \in CallIds : Sip!TimerFired(c)
           \/ \E s \in orphans : Sip!OrphanTimerFired(s)
  BY <1>5, SameTimerFired DEF SipProofs!Next
<1>6. CASE Sip!Cleanup \/ Sip!Start \/ Sip!StopCleanup
  BY <1>6
  DEF Sip!Cleanup, SipProofs!Cleanup, Sip!Start, SipProofs!Start, Sip!StopCleanup,
      SipProofs!StopCleanup, Sip!SendNothing, SipProofs!SendNothing, Sip!Expired,
      SipProofs!Expired, SipProofs!Next
<1>7. CASE Sip!StopTimers
  BY <1>7
  DEF Sip!StopTimers, SipProofs!StopTimers, Sip!SendNothing, SipProofs!SendNothing,
      Sip!NoTimer, SipProofs!NoTimer, Sip!CancelledTimer, SipProofs!CancelledTimer,
      SipProofs!Next
<1>8. CASE Sip!Tick
  BY <1>8
  DEF Sip!Tick, SipProofs!Tick, Sip!Age, SipProofs!Age, Sip!Countdown,
      SipProofs!Countdown, SipProofs!Next
<1> QED
  BY <1>1, <1>2, <1>3, <1>4, <1>5, <1>6, <1>7, <1>8 DEF Sip!Next

\* The behaviours of the composition are among those the theorems speak of.
LEMMA SipProofsApply == Spec => SipProofs!Spec
<1>1. Init => SipProofs!Init
  BY InitRefines DEF Sip!Init, SipProofs!Init
<1>2. [Next]_vars => [SipProofs!Next]_(SipProofs!vars)
  BY StepRefines, SameNext DEF Sip!vars, SipProofs!vars
<1> QED
  BY <1>1, <1>2, PTL DEF Spec, SipProofs!Spec

----
\* What the theorems about SipNotifier say of a subscription, in terms of the element's
\* state: its clock, its queue, and the timer that runs until the notifier is stopped.
RowFacts(c) ==
    /\ subs[c] \in Sip!Subscription /\ subs[c].call = c
    /\ subs[c].interval \in Nat /\ subs[c].life \in Nat
    /\ subs[c].elapsed \in 0..subs[c].interval
    /\ subs[c].pending # 0 =>
           subs[c].interval > 0 /\ subs[c].pending \in seen[c][Package]..store
    /\ subs[c].life # 0 =>
           (IF subs[c].pending # 0 THEN subs[c].pending ELSE seen[c][Package]) >= published
    /\ phase # "stopped" /\ subs[c].interval > 0 /\ subs[c].life # 0 =>
           subs[c].timer = subs[c].interval - subs[c].elapsed

SipFacts ==
    /\ phase \in {"new", "running", "stopping", "stopped"}
    /\ DOMAIN subs \subseteq CallIds
    /\ seen \in [CallIds -> [{Package} -> 0..MaxVersion]]
    /\ \A c \in CallIds : seen[c][Package] <= store
    /\ \A c \in DOMAIN subs : RowFacts(c)
    /\ \A s \in orphans : s.life = 0

\* The numbers of a subscription are naturals.
LEMMA SubscriptionNumbers ==
    ASSUME NEW s \in SipProofs!Subscription
    PROVE  s.interval \in Nat /\ s.elapsed \in Nat /\ s.life \in Nat
<1>1. s.interval \in Nat
  <2>1. s.interval \in 0..MaxInterval
    BY IntervalsAssumption DEF SipProofs!Subscription
  <2> QED
    BY <2>1, IntervalsAssumption
<1>2. s.elapsed \in Nat
  BY IntervalsAssumption DEF SipProofs!Subscription
<1>3. s.life \in Nat
  BY DurationsAssumption DEF SipProofs!Subscription
<1> QED
  BY <1>1, <1>2, <1>3

\* They hold of every state of the composition.
LEMMA SipFactsHold == Spec => []SipFacts
<1>1. SipProofs!Spec => [](SipProofs!IInv /\ SipProofs!Beating /\ SipProofs!Queueing)
  <2>1. SipProofs!Spec => []SipProofs!IInv
    BY SipAssumptions, SipProofs!Invariance
  <2>2. SipProofs!Spec => []SipProofs!Beating
    BY SipAssumptions, SipProofs!TimersBeat
  <2>3. SipProofs!Spec => []SipProofs!Queueing
    BY SipAssumptions, SipProofs!UnfilteredQueueIsEmpty
  <2> QED
    BY <2>1, <2>2, <2>3, PTL
<1>2. ASSUME SipProofs!IInv, SipProofs!Beating, SipProofs!Queueing PROVE SipFacts
  <2>1. SipProofs!TypeOK /\ SipProofs!TimingInv /\ SipProofs!OrderInv
    BY <1>2 DEF SipProofs!IInv
  <2>5. \A s \in orphans : s.life = 0
    BY <1>2 DEF SipProofs!IInv, SipProofs!OrphansExpired, SipProofs!Expired
  <2>2. /\ phase \in {"new", "running", "stopping", "stopped"}
        /\ DOMAIN subs \subseteq CallIds
        /\ seen \in [CallIds -> [{Package} -> 0..MaxVersion]]
    BY <2>1 DEF SipProofs!TypeOK
  <2>3. \A c \in CallIds : seen[c][Package] <= store
    BY <2>1 DEF SipProofs!OrderInv
  <2>4. ASSUME NEW c \in DOMAIN subs PROVE RowFacts(c)
    <3>1. subs[c] \in SipProofs!Subscription
      BY <2>1 DEF SipProofs!TypeOK
    <3>2. subs[c] \in Sip!Subscription /\ subs[c].package = Package
      BY <3>1
      DEF SipProofs!Subscription, Sip!Subscription, SipProofs!TimerValues,
          Sip!TimerValues, SipProofs!NoTimer, Sip!NoTimer, SipProofs!CancelledTimer,
          Sip!CancelledTimer
    <3>3. subs[c].interval \in Nat /\ subs[c].elapsed \in Nat /\ subs[c].life \in Nat
      BY <3>1, SubscriptionNumbers
    <3>4. subs[c].elapsed <= subs[c].interval
      BY <2>1 DEF SipProofs!TimingInv
    <3>5. subs[c].call = c
      BY <2>1 DEF SipProofs!OrderInv
    <3>6. subs[c].pending # 0 =>
            subs[c].interval > 0 /\ subs[c].pending \in seen[c][Package]..store
      BY <1>2, <2>1, <3>2
      DEF SipProofs!OrderInv, SipProofs!NoBody, SipProofs!Queueing,
          SipProofs!QueuesIfFiltered
    <3>7. subs[c].life # 0 =>
            (IF subs[c].pending # 0 THEN subs[c].pending ELSE seen[c][Package]) >= published
      BY <2>1, <3>2, <3>5
      DEF SipProofs!OrderInv, SipProofs!NoBody, SipProofs!Expired, SipProofs!Newest
    <3>8. phase # "stopped" /\ subs[c].interval > 0 /\ subs[c].life # 0 =>
            subs[c].timer = subs[c].interval - subs[c].elapsed
      BY <1>2 DEF SipProofs!Beating, SipProofs!Beats, SipProofs!Expired
    <3> QED
      BY <3>2, <3>3, <3>4, <3>5, <3>6, <3>7, <3>8 DEF RowFacts
  <2> QED
    BY <2>2, <2>3, <2>4, <2>5 DEF SipFacts
<1> QED
  BY <1>1, <1>2, SipProofsApply, PTL

----
\* The notifier's side of each action.

USE DEF Notifier!NoTimer

\* A change is dispatched and fanned out at once, or has a timer armed for it.
LEMMA ChangeEffect ==
    ASSUME NotifierInv, Change
    PROVE  /\ store' = store + 1 /\ store' \in 1..MaxVersion
           /\ phase' = phase /\ Aging(FALSE)
           /\ \/ /\ published' = store' /\ UNCHANGED <<pending, timer>>
                 /\ timer = Notifier!NoTimer \/ timer = 0
                 /\ elapsed' = 0
                 /\ Sip!FanOut(Package, store + 1, TRUE)
              \/ /\ UNCHANGED <<published, elapsed, subs, seen>>
                 /\ pending' = TRUE
                 /\ timer' \in 0..MinInterval /\ timer' + elapsed <= MinInterval
                 /\ timer = Notifier!NoTimer \/ timer' = timer
<1>1. store < MaxVersion /\ store' = store + 1 /\ Notifier!ScheduleNotify(store + 1, TRUE)
  BY DEF Change, Notifier!SetState
<1>2. Aging(FALSE) /\ phase' = phase
  BY DEF Change, Sip!ChangeAnnounced, Sip!ChangeDeferred
<1>3. store' \in 1..MaxVersion
  BY <1>1, BoundsAssumption DEF NotifierInv
<1>4. CASE elapsed >= MinInterval
  <2>1. published' = store + 1 /\ elapsed' = 0 /\ UNCHANGED <<pending, timer>>
    BY <1>1, <1>4, MinIntervalAssumption
    DEF NotifierInv, Notifier!ScheduleNotify, Notifier!Dispatch
  <2>2. published' # published
    BY <2>1 DEF NotifierInv
  <2>3. ~Sip!ChangeDeferred(Package)
    BY <2>2 DEF Sip!ChangeDeferred
  <2>4. Sip!FanOut(Package, store + 1, TRUE)
    BY <2>3 DEF Change, Sip!ChangeAnnounced
  <2>5. timer = Notifier!NoTimer \/ timer = 0
    BY <1>4, MinIntervalAssumption DEF NotifierInv
  <2> QED
    BY <1>1, <1>2, <1>3, <2>1, <2>4, <2>5
<1>5. CASE ~(elapsed >= MinInterval)
  <2>1. elapsed < MinInterval
    BY <1>5, MinIntervalAssumption DEF NotifierInv
  <2>2. published' = published /\ elapsed' = elapsed
    BY <1>1, <1>5, <2>1
    DEF Notifier!ScheduleNotify, Notifier!Silent, Notifier!Defer
  <2>3. published' # store + 1
    BY <2>2 DEF NotifierInv
  <2>4. /\ pending' = TRUE
        /\ timer' \in 0..MinInterval /\ timer' + elapsed <= MinInterval
        /\ timer = Notifier!NoTimer \/ timer' = timer
    <3>1. CASE pending
      BY <1>1, <1>5, <3>1, MinIntervalAssumption
      DEF NotifierInv, Notifier!ScheduleNotify
    <3>2. CASE ~pending
      <4>1. pending' = TRUE /\ timer' = MinInterval - elapsed
        BY <1>1, <1>5, <2>1, <3>2 DEF Notifier!ScheduleNotify, Notifier!Defer
      <4>2. timer = Notifier!NoTimer /\ elapsed \in 0..MinInterval
        BY <3>2 DEF NotifierInv
      <4> QED
        BY <2>1, <4>1, <4>2, MinIntervalAssumption
    <3> QED
      BY <3>1, <3>2
  <2>5. ~Sip!ChangeAnnounced(Package, TRUE)
    BY <2>3 DEF Sip!ChangeAnnounced
  <2>6. UNCHANGED <<subs, seen>>
    BY <2>5 DEF Change, Sip!ChangeDeferred, Sip!SendNothing
  <2> QED
    BY <1>1, <1>2, <1>3, <2>2, <2>4, <2>6
<1> QED
  BY <1>4, <1>5

\* Every step keeps the notifier's half of the invariant.
LEMMA NotifierInvKept == NotifierInv /\ [Next]_vars => NotifierInv'
<1> SUFFICES ASSUME NotifierInv, [Next]_vars PROVE NotifierInv'
  OBVIOUS
<1>1. ASSUME Change, goingDown' = goingDown \/ goingDown' = store + 1 PROVE NotifierInv'
  <2>1. store' = store + 1 /\ store' \in 1..MaxVersion
    BY <1>1, ChangeEffect
  <2>2. goingDown' \in 0..store'
    BY <1>1, <2>1 DEF NotifierInv
  <2>3. CASE /\ published' = store' /\ UNCHANGED <<pending, timer>>
             /\ timer = Notifier!NoTimer \/ timer = 0
             /\ elapsed' = 0
    BY <2>1, <2>2, <2>3, MinIntervalAssumption DEF NotifierInv
  <2>4. CASE /\ UNCHANGED <<published, elapsed>>
             /\ pending' = TRUE
             /\ timer' \in 0..MinInterval /\ timer' + elapsed <= MinInterval
    <3>1. timer' # Notifier!NoTimer
      BY <2>4, MinIntervalAssumption
    <3>2. pending' = (timer' # Notifier!NoTimer)
      BY <2>4, <3>1, Zenon
    <3>3. published' \in 1..store' /\ elapsed' \in 0..MinInterval
      BY <2>1, <2>4, MinIntervalAssumption, BoundsAssumption DEF NotifierInv
    <3>4. timer' + elapsed' <= MinInterval
      BY <2>4
    <3> QED
      BY <2>1, <2>2, <2>4, <3>1, <3>2, <3>3, <3>4 DEF NotifierInv
  <2> QED
    BY <1>1, <2>3, <2>4, ChangeEffect
<1>2. CASE SetState \/ Shutdown
  BY <1>1, <1>2 DEF SetState, Shutdown
<1>3. CASE DeferredDispatch
  <2>1. /\ store' = store /\ published' = store /\ timer' = Notifier!NoTimer
        /\ pending' = FALSE /\ elapsed' = 0 /\ goingDown' = goingDown
    BY <1>3 DEF DeferredDispatch, Notifier!DeferredDispatch, Notifier!Dispatch
  <2>2. pending' = (timer' # Notifier!NoTimer)
    BY <2>1
  <2> QED
    BY <2>1, <2>2, MinIntervalAssumption DEF NotifierInv
<1>4. CASE Tick
  BY <1>4, MinIntervalAssumption DEF Tick, Notifier!Tick, Notifier!Silent, NotifierInv
<1>5. CASE Stop \/ SipStep \/ Cleanup \/ UNCHANGED vars
  <2>1. UNCHANGED <<store, elapsed, pending, timer, published, goingDown>>
    BY <1>5 DEF Stop, SipStep, Cleanup, vars, notifierVars
  <2> QED
    BY <2>1 DEF NotifierInv
<1> QED
  BY <1>2, <1>3, <1>4, <1>5 DEF Next

----
\* The clients' side of each action.

\* An age grows with time only, and what nobody waits for has none.
LEMMA AgingEffect ==
    ASSUME AgeInv, NEW elapsing \in BOOLEAN, Aging(elapsing)
    PROVE  /\ AgeInv' /\ prompt' = prompt
           /\ \A v \in 1..MaxVersion : age[v] \in Nat /\ age'[v] \in Nat
           /\ \A v \in 1..MaxVersion : age'[v] <= age[v] + 1
           /\ ~elapsing => \A v \in 1..MaxVersion : age'[v] <= age[v]
<1>1. MaxAge \in Nat
  BY MinIntervalAssumption, IntervalsAssumption DEF MaxAge
<1>2. \A v \in 1..MaxVersion : age[v] \in 0..MaxAge
  BY DEF AgeInv
<1>3. /\ prompt' = prompt
      /\ age' = [v \in 1..MaxVersion |->
                   IF ~Awaited(v)' THEN 0
                   ELSE IF elapsing /\ age[v] < MaxAge THEN age[v] + 1
                   ELSE age[v]]
  BY DEF Aging
<1>4. ASSUME NEW v \in 1..MaxVersion
      PROVE  /\ age'[v] \in 0..MaxAge
             /\ ~Awaited(v)' => age'[v] = 0
             /\ age'[v] <= age[v] + 1
             /\ ~elapsing => age'[v] <= age[v]
  BY <1>1, <1>2, <1>3
<1>5. age' \in [1..MaxVersion -> 0..MaxAge]
  BY <1>3, <1>4
<1>6. AgeInv'
  BY <1>4, <1>5 DEF AgeInv
<1> QED
  BY <1>1, <1>2, <1>3, <1>4, <1>6

\* A bundle that is not yet set has no age.
LEMMA NewBundleIsFresh ==
    ASSUME NotifierInv, AgeInv, store < MaxVersion PROVE age[store + 1] = 0
<1>1. store + 1 \in 1..MaxVersion /\ ~(store + 1 <= store)
  BY BoundsAssumption DEF NotifierInv
<1> QED
  BY <1>1 DEF AgeInv, Awaited

\* An armed timer of a live client counts down a natural number.
LEMMA ArmedTimer ==
    ASSUME SipFacts, NEW c \in CallIds, Live(c), Sip!Armed(subs[c])
    PROVE  subs[c].timer \in Nat /\ subs[c].interval \in Nat
<1>1. RowFacts(c)
  BY DEF Live, SipFacts
<1>2. subs[c].timer \in 0..MaxInterval
  BY <1>1 DEF RowFacts, Sip!Subscription, Sip!TimerValues, Sip!NoTimer,
     Sip!CancelledTimer, Sip!Armed
<1> QED
  BY <1>1, <1>2, IntervalsAssumption DEF RowFacts

\* A live client a fan-out does not reach has the body queued, and its timer runs on.
LEMMA FanOutReaches ==
    ASSUME SipFacts, phase # "stopped", NEW version, Sip!FanOut(Package, version, TRUE),
           NEW c \in CallIds, Live(c)'
    PROVE  /\ Live(c)
           /\ \/ seen'[c][Package] = version
              \/ /\ seen'[c] = seen[c]
                 /\ subs'[c].interval = subs[c].interval
                 /\ subs'[c].timer = subs[c].timer
                 /\ subs[c].timer \in 1..subs[c].interval
<1>1. /\ c \in DOMAIN subs /\ ~Sip!Expired(subs[c]) /\ RowFacts(c)
      /\ subs'[c] = IF subs[c].package = Package
                    THEN Sip!RateFilteredDeliver(subs[c], version, TRUE) ELSE subs[c]
  BY DEF Live, Sip!FanOut, SipFacts
<1>2. subs[c].package = Package /\ subs[c] \in Sip!Subscription
  BY <1>1 DEF RowFacts, Sip!Subscription
<1>3. CASE Sip!WindowPassed(subs[c])
  <2>1. seen'[c] = [seen[c] EXCEPT ![Package] = version]
    BY <1>1, <1>2, <1>3 DEF Sip!FanOut, Sip!Send
  <2>2. seen'[c][Package] = version
    BY <2>1 DEF SipFacts
  <2> QED
    BY <1>1, <2>2 DEF Live
<1>4. CASE ~Sip!WindowPassed(subs[c])
  <2>1. seen'[c] = seen[c]
    BY <1>4 DEF Sip!FanOut, Sip!Send
  <2>2. /\ subs[c].interval \in Nat /\ subs[c].elapsed \in Nat
        /\ subs[c].elapsed < subs[c].interval
        /\ subs[c].timer = subs[c].interval - subs[c].elapsed
    BY <1>1, <1>4 DEF RowFacts, Sip!WindowPassed, Sip!Expired
  <2>3. subs[c].timer \in 1..subs[c].interval /\ subs[c].timer # Sip!NoTimer
    BY <2>2 DEF Sip!NoTimer
  <2>4. subs'[c] = [subs[c] EXCEPT !.pending = version]
    BY <1>1, <1>2, <1>4, <2>3
    DEF Sip!RateFilteredDeliver, Sip!ScheduleNotifyTimer, Sip!Subscription
  <2>5. subs'[c].interval = subs[c].interval /\ subs'[c].timer = subs[c].timer
    BY <1>2, <2>4 DEF Sip!Subscription
  <2> QED
    BY <1>1, <2>1, <2>3, <2>5 DEF Live
<1> QED
  BY <1>3, <1>4

\* After a fan-out of the current state, what a live client still lacks is queued on it.
LEMMA FanOutKeepsTimely ==
    ASSUME NotifierInv, NotifierInv', SipFacts, AgeInv, TimelyInv, Aging(FALSE),
           phase' = phase, published' = store', Sip!FanOut(Package, store', TRUE),
           timer = Notifier!NoTimer \/ timer = 0,
           store' = store \/ store' = store + 1
    PROVE  TimelyInv'
<1>1. SUFFICES ASSUME prompt', phase' \in {"new", "running"},
                      NEW c \in CallIds, NEW v \in 1..store', Lacks(c, v)'
               PROVE  OnItsWay(c, v)'
  BY DEF TimelyInv
<1>2. store \in Nat /\ store' \in Nat /\ v \in 1..MaxVersion /\ store' <= MaxVersion
  BY BoundsAssumption DEF NotifierInv
<1>3. age[v] \in Nat /\ age'[v] \in Nat /\ age'[v] <= age[v]
  BY <1>2, AgingEffect
<1>4. prompt /\ phase \in {"new", "running"} /\ phase # "stopped" /\ Live(c)'
  BY <1>1, AgingEffect DEF Lacks
<1>5. /\ Live(c) /\ seen'[c] = seen[c]
      /\ subs'[c].interval = subs[c].interval /\ subs'[c].timer = subs[c].timer
      /\ subs[c].timer \in 1..subs[c].interval
  <2>1. seen'[c][Package] < v
    BY <1>1 DEF Lacks
  <2>2. seen'[c][Package] # store'
    BY <1>2, <2>1
  <2> QED
    BY <1>4, <2>2, FanOutReaches
<1>6. subs[c].interval \in Nat
  BY <1>5 DEF Live, SipFacts, RowFacts
<1>7. age[v] + subs[c].timer <= MinInterval + subs[c].interval
  <2>1. CASE v <= store
    <3>1. v \in 1..store /\ Lacks(c, v)
      BY <1>1, <1>2, <1>5, <2>1 DEF Lacks
    <3>2. OnItsWay(c, v)
      BY <1>4, <3>1 DEF TimelyInv
    <3>3. CASE published < v
      <4>1. timer >= 0 /\ age[v] + timer <= MinInterval
        BY <3>2, <3>3 DEF OnItsWay
      <4>2. timer = 0
        BY <4>1
      <4> QED
        BY <1>3, <1>5, <1>6, <4>1, <4>2, MinIntervalAssumption
    <3>4. CASE ~(published < v)
      BY <3>2, <3>4 DEF OnItsWay
    <3> QED
      BY <3>3, <3>4
  <2>2. CASE ~(v <= store)
    <3>1. v \in Nat /\ v <= store' /\ (store' = store \/ store' = store + 1)
      BY <1>1, <1>2
    <3>2. v = store + 1 /\ store < MaxVersion
      BY <1>2, <2>2, <3>1, BoundsAssumption
    <3>3. age[v] = 0
      BY <3>2, NewBundleIsFresh
    <3> QED
      BY <1>5, <1>6, <3>3, MinIntervalAssumption
  <2> QED
    BY <2>1, <2>2
<1>8. ~(published' < v)
  BY <1>2
<1>9. age'[v] + subs'[c].timer <= MinInterval + subs'[c].interval
  BY <1>3, <1>5, <1>6, <1>7, MinIntervalAssumption
<1>10. Sip!Armed(subs'[c])
  BY <1>5, <1>6 DEF Sip!Armed
<1> QED
  BY <1>8, <1>9, <1>10 DEF OnItsWay

\* A deferred change has the notifier's timer armed for it, within its interval.
LEMMA ChangeKeepsTimely ==
    ASSUME NotifierInv, NotifierInv', SipFacts, AgeInv, TimelyInv, Change
    PROVE  TimelyInv'
<1>1. store' = store + 1 /\ phase' = phase /\ Aging(FALSE)
  BY ChangeEffect
<1>2. CASE /\ published' = store' /\ (timer = Notifier!NoTimer \/ timer = 0)
           /\ Sip!FanOut(Package, store + 1, TRUE)
  BY <1>1, <1>2, FanOutKeepsTimely
<1>3. CASE /\ UNCHANGED <<published, elapsed, subs, seen>>
           /\ timer' \in 0..MinInterval
           /\ timer = Notifier!NoTimer \/ timer' = timer
  <2>1. SUFFICES ASSUME prompt', phase' \in {"new", "running"},
                        NEW c \in CallIds, NEW v \in 1..store', Lacks(c, v)'
                 PROVE  OnItsWay(c, v)'
    BY DEF TimelyInv
  <2>2. /\ store \in Nat /\ store < MaxVersion /\ v \in 1..MaxVersion /\ v <= store + 1
        /\ published \in Nat /\ published <= store
    BY <1>1, BoundsAssumption DEF NotifierInv
  <2>3. age[v] \in Nat /\ age'[v] \in Nat /\ age'[v] <= age[v]
    BY <1>1, <2>2, AgingEffect
  <2>4. Lacks(c, v) /\ prompt /\ phase \in {"new", "running"}
    BY <1>1, <1>3, <2>1, AgingEffect DEF Lacks, Live
  <2>5. CASE v = store + 1
    <3>1. age'[v] = 0
      BY <2>2, <2>3, <2>5, NewBundleIsFresh
    <3> QED
      BY <1>3, <2>2, <2>5, <3>1, MinIntervalAssumption DEF OnItsWay
  <2>6. CASE v # store + 1
    <3>1. v \in 1..store
      BY <2>2, <2>6
    <3>2. OnItsWay(c, v)
      BY <2>4, <3>1 DEF TimelyInv
    <3>3. CASE published < v
      <4>1. timer >= 0 /\ age[v] + timer <= MinInterval /\ timer # Notifier!NoTimer
        BY <3>2, <3>3 DEF OnItsWay
      <4>2. timer' = timer /\ timer \in Nat
        BY <1>3, <4>1, MinIntervalAssumption
      <4>3. age'[v] + timer' <= MinInterval
        BY <2>3, <4>1, <4>2, MinIntervalAssumption
      <4> QED
        BY <1>3, <3>3, <4>1, <4>2, <4>3 DEF OnItsWay
    <3>4. CASE ~(published < v)
      <4>1. Sip!Armed(subs[c]) /\ age[v] + subs[c].timer <= MinInterval + subs[c].interval
        BY <3>2, <3>4 DEF OnItsWay
      <4>2. age'[v] + subs[c].timer <= MinInterval + subs[c].interval
        BY <2>3, <2>4, <4>1, MinIntervalAssumption, ArmedTimer DEF Lacks
      <4> QED
        BY <1>3, <3>4, <4>1, <4>2 DEF OnItsWay, Sip!Armed
    <3> QED
      BY <3>3, <3>4
  <2> QED
    BY <2>5, <2>6
<1> QED
  BY <1>2, <1>3, ChangeEffect

\* What a step of the SIP notifier alone does to a live client: nothing, or it is sent
\* what was queued for it, or the current state.
LEMMA SipStepEffect ==
    ASSUME SipFacts, SipStep \/ Cleanup, NEW c \in CallIds, Live(c)'
    PROVE  \/ seen'[c][Package] = store
           \/ Live(c) /\ seen'[c] = seen[c] /\ subs'[c] = subs[c]
           \/ /\ Live(c) /\ seen'[c][Package] \in published..store
              /\ seen'[c][Package] >= seen[c][Package]
<1>1. c \in DOMAIN subs' /\ subs'[c].life # 0
  BY DEF Live, Sip!Expired
<1>2. seen[c] \in [{Package} -> 0..MaxVersion]
  BY DEF SipFacts
<1>3. ASSUME NEW d \in CallIds, NEW interval \in Intervals, NEW expires \in ExpiresHeaders,
             Sip!Subscribe(d, Package, interval, expires, TRUE)
      PROVE  \/ seen'[c][Package] = store
             \/ Live(c) /\ seen'[c] = seen[c] /\ subs'[c] = subs[c]
  <2>1. CASE c = d
    <3>1. seen'[c] = [seen[c] EXCEPT ![Package] = store]
      BY <1>3, <2>1 DEF Sip!Subscribe, Sip!Send
    <3> QED
      BY <1>2, <3>1
  <2>2. CASE c # d
    BY <1>1, <1>3, <2>2 DEF Sip!Subscribe, Sip!Send, Live, Sip!Expired
  <2> QED
    BY <2>1, <2>2
<1>4. ASSUME NEW d \in CallIds, Sip!Unsubscribe(d)
      PROVE  Live(c) /\ seen'[c] = seen[c] /\ subs'[c] = subs[c]
  BY <1>1, <1>4 DEF Sip!Unsubscribe, Sip!SendNothing, Live, Sip!Expired
<1>5. ASSUME NEW d \in CallIds, Sip!TimerFired(d)
      PROVE  \/ seen'[c][Package] = store
             \/ Live(c) /\ seen'[c] = seen[c] /\ subs'[c] = subs[c]
             \/ /\ Live(c) /\ seen'[c][Package] \in published..store
                /\ seen'[c][Package] >= seen[c][Package]
  <2>1. c \in DOMAIN subs
    BY <1>1, <1>5 DEF Sip!TimerFired
  <2>2. CASE c = d
    <3>1. RowFacts(c) /\ subs[c].package = Package
      BY <2>1 DEF SipFacts, RowFacts, Sip!Subscription
    <3>2. subs[c].life # 0
      <4>1. SUFFICES ASSUME Sip!Expired(subs[c]) PROVE FALSE
        BY DEF Sip!Expired
      <4>2. subs'[c] = [subs[c] EXCEPT !.timer = Sip!NoTimer]
        BY <1>5, <2>1, <2>2, <4>1 DEF Sip!TimerFired
      <4>3. subs'[c].life = subs[c].life
        BY <3>1, <4>2 DEF RowFacts, Sip!Subscription
      <4> QED
        BY <1>1, <4>1, <4>3 DEF Sip!Expired
    <3>3. seen'[c] = [seen[c] EXCEPT ![Package] = Sip!TimerBody(subs[c])]
      BY <1>5, <2>2, <3>1, <3>2 DEF Sip!TimerFired, Sip!Send, Sip!Expired
    <3>4. seen'[c][Package] = IF subs[c].pending # 0 THEN subs[c].pending ELSE store
      BY <1>2, <3>1, <3>3 DEF Sip!TimerBody, Sip!NoBody
    <3>5. CASE subs[c].pending # 0
      BY <2>1, <3>1, <3>2, <3>4, <3>5, <1>2 DEF RowFacts, Live, Sip!Expired
    <3> QED
      BY <3>4, <3>5
  <2>3. CASE c # d
    <3>1. seen'[c] = seen[c]
      BY <1>5, <2>3 DEF Sip!TimerFired, Sip!Send, Sip!SendNothing
    <3>2. subs'[c] = subs[c]
      BY <1>5, <2>1, <2>3 DEF Sip!TimerFired
    <3> QED
      BY <1>1, <2>1, <3>1, <3>2 DEF Live, Sip!Expired
  <2> QED
    BY <2>2, <2>3
<1>6. ASSUME NEW s \in orphans, Sip!OrphanTimerFired(s)
      PROVE  Live(c) /\ seen'[c] = seen[c] /\ subs'[c] = subs[c]
  <2>1. Sip!Expired(s)
    BY DEF SipFacts, Sip!Expired
  <2> QED
    BY <1>1, <1>6, <2>1 DEF Sip!OrphanTimerFired, Sip!SendNothing, Live, Sip!Expired
<1>7. ASSUME Sip!Start
      PROVE  Live(c) /\ seen'[c] = seen[c] /\ subs'[c] = subs[c]
  BY <1>1, <1>7 DEF Sip!Start, Sip!SendNothing, Live, Sip!Expired
<1>8. ASSUME Cleanup
      PROVE  Live(c) /\ seen'[c] = seen[c] /\ subs'[c] = subs[c]
  BY <1>1, <1>8 DEF Cleanup, Sip!Cleanup, Sip!SendNothing, Live, Sip!Expired
<1> QED
  BY <1>3, <1>4, <1>5, <1>6, <1>7, <1>8 DEF SipStep, Subscribing

\* Neither delays what is on its way.
LEMMA SipStepKeepsTimely ==
    ASSUME NotifierInv, SipFacts, AgeInv, TimelyInv, SipStep \/ Cleanup
    PROVE  TimelyInv'
<1>1. SUFFICES ASSUME prompt', phase' \in {"new", "running"},
                      NEW c \in CallIds, NEW v \in 1..store', Lacks(c, v)'
               PROVE  OnItsWay(c, v)'
  BY DEF TimelyInv
<1>2. Aging(FALSE) /\ UNCHANGED <<store, timer, published>>
  BY DEF SipStep, Cleanup, notifierVars
<1>3. phase \in {"new", "running"}
  <2>1. SipStep => phase' = phase \/ phase = "new"
    BY DEF SipStep, Subscribing, Sip!Subscribe, Sip!Unsubscribe, Sip!TimerFired,
           Sip!OrphanTimerFired, Sip!Start
  <2>2. Cleanup => phase' = phase
    BY DEF Cleanup, Sip!Cleanup
  <2> QED
    BY <1>1, <2>1, <2>2
<1>4. /\ store \in Nat /\ published \in 1..store /\ v \in 1..store /\ v \in 1..MaxVersion
      /\ timer \in Int
  BY <1>1, <1>2, BoundsAssumption, MinIntervalAssumption DEF NotifierInv
<1>5. age[v] \in Nat /\ age'[v] \in Nat /\ age'[v] <= age[v] /\ prompt
  BY <1>1, <1>2, <1>4, AgingEffect
<1>6. seen'[c][Package] < v /\ Live(c)'
  BY <1>1 DEF Lacks
<1>7. seen'[c][Package] # store
  BY <1>4, <1>6
<1>8. ASSUME Lacks(c, v) PROVE OnItsWay(c, v)
  BY <1>3, <1>4, <1>5, <1>8 DEF TimelyInv
<1>9. ASSUME published < v, OnItsWay(c, v) PROVE OnItsWay(c, v)'
  BY <1>2, <1>4, <1>5, <1>9, MinIntervalAssumption DEF OnItsWay
<1>10. CASE Live(c) /\ seen'[c] = seen[c] /\ subs'[c] = subs[c]
  <2>1. Lacks(c, v)
    BY <1>6, <1>10 DEF Lacks
  <2>2. CASE ~(published < v)
    <3>1. Sip!Armed(subs[c]) /\ age[v] + subs[c].timer <= MinInterval + subs[c].interval
      BY <1>8, <2>1, <2>2 DEF OnItsWay
    <3>2. age'[v] + subs[c].timer <= MinInterval + subs[c].interval
      BY <1>5, <1>10, <3>1, MinIntervalAssumption, ArmedTimer
    <3>3. ~(published' < v) /\ Sip!Armed(subs'[c])
      BY <1>2, <1>10, <2>2, <3>1 DEF Sip!Armed
    <3> QED
      BY <1>10, <3>2, <3>3 DEF OnItsWay
  <2> QED
    BY <1>8, <1>9, <2>1, <2>2
<1>11. CASE /\ Live(c) /\ seen'[c][Package] \in published..store
            /\ seen'[c][Package] >= seen[c][Package]
  <2>1. seen[c][Package] \in Nat
    BY BoundsAssumption DEF SipFacts
  <2>2. Lacks(c, v) /\ published < v
    BY <1>4, <1>6, <1>11, <2>1 DEF Lacks
  <2> QED
    BY <1>8, <1>9, <2>2
<1> QED
  BY <1>6, <1>7, <1>10, <1>11, SipStepEffect

\* When no timer is late, the timers run down as fast as ages grow.
LEMMA TickKeepsTimely ==
    ASSUME NotifierInv, SipFacts, AgeInv, TimelyInv, Tick
    PROVE  TimelyInv'
<1>1. SUFFICES ASSUME prompt', phase' \in {"new", "running"},
                      NEW c \in CallIds, NEW v \in 1..store', Lacks(c, v)'
               PROVE  OnItsWay(c, v)'
  BY DEF TimelyInv
<1>2. /\ Aging(TRUE) /\ UNCHANGED <<store, published, phase, seen>>
      /\ timer' = IF timer > 0 THEN timer - 1 ELSE timer
  BY DEF Tick, Notifier!Tick, Notifier!Silent, Sip!Tick
<1>3. store \in Nat /\ v \in 1..store /\ v \in 1..MaxVersion /\ timer \in Int
  BY <1>1, <1>2, BoundsAssumption, MinIntervalAssumption DEF NotifierInv
<1>4. age[v] \in Nat /\ age'[v] \in Nat /\ age'[v] <= age[v] + 1 /\ prompt
  BY <1>1, <1>2, <1>3, AgingEffect
<1>5. timer # 0 /\ \A d \in DOMAIN subs : subs[d].timer # 0
  BY <1>4 DEF Tick, TimerDue
<1>6. c \in DOMAIN subs /\ subs'[c] = Sip!Age(subs[c]) /\ subs'[c].life # 0
  BY <1>1 DEF Tick, Sip!Tick, Lacks, Live, Sip!Expired
<1>7. subs[c] \in Sip!Subscription /\ subs[c].interval \in Nat
  BY <1>6 DEF SipFacts, RowFacts
<1>8. /\ subs'[c].life = Sip!Countdown(subs[c].life)
      /\ subs'[c].interval = subs[c].interval
      /\ subs'[c].timer = Sip!Countdown(subs[c].timer)
  BY <1>6, <1>7 DEF Sip!Age, Sip!Subscription
<1>9. Live(c)
  BY <1>6, <1>8 DEF Live, Sip!Expired, Sip!Countdown
<1>10. OnItsWay(c, v)
  BY <1>1, <1>2, <1>3, <1>4, <1>9 DEF TimelyInv, Lacks
<1>11. CASE published < v
  BY <1>2, <1>3, <1>4, <1>5, <1>10, <1>11, MinIntervalAssumption DEF OnItsWay
<1>12. CASE ~(published < v)
  <2>1. Sip!Armed(subs[c]) /\ age[v] + subs[c].timer <= MinInterval + subs[c].interval
    BY <1>10, <1>12 DEF OnItsWay
  <2>2. subs[c].timer \in Nat /\ subs[c].timer # 0
    BY <1>5, <1>6, <1>9, <2>1, ArmedTimer
  <2>3. subs'[c].timer = subs[c].timer - 1
    BY <1>8, <2>2 DEF Sip!Countdown
  <2>4. Sip!Armed(subs'[c])
    BY <2>2, <2>3 DEF Sip!Armed
  <2>5. age'[v] + subs'[c].timer <= MinInterval + subs'[c].interval
    BY <1>4, <1>7, <1>8, <2>1, <2>2, <2>3, MinIntervalAssumption
  <2> QED
    BY <1>2, <1>12, <2>4, <2>5 DEF OnItsWay
<1> QED
  BY <1>11, <1>12

----
\* The inductive invariant.

LEMMA InitEstablishes == Init => IInv
<1> SUFFICES ASSUME Init PROVE IInv
  OBVIOUS
<1>1. MaxAge \in Nat
  BY MinIntervalAssumption, IntervalsAssumption DEF MaxAge
<1>2. NotifierInv
  <2>1. pending = FALSE /\ timer = Notifier!NoTimer
    BY DEF Init, Notifier!Init
  <2>2. pending = (timer # Notifier!NoTimer)
    BY <2>1
  <2> QED
    BY <2>1, <2>2, MinIntervalAssumption, BoundsAssumption
    DEF Init, Notifier!Init, NotifierInv
<1>3. AgeInv
  BY <1>1 DEF Init, AgeInv
<1>4. TimelyInv
  BY DEF Init, Sip!Init, TimelyInv, Lacks, Live
<1> QED
  BY <1>2, <1>3, <1>4 DEF IInv

LEMMA StepPreserves == IInv /\ SipFacts /\ [Next]_vars => IInv'
<1> SUFFICES ASSUME IInv, SipFacts, [Next]_vars PROVE IInv'
  OBVIOUS
<1>1. NotifierInv /\ AgeInv /\ TimelyInv
  BY DEF IInv
<1>2. NotifierInv'
  BY <1>1, NotifierInvKept
<1>3. AgeInv'
  <2>1. ASSUME NEW elapsing \in BOOLEAN, Aging(elapsing) PROVE AgeInv'
    BY <1>1, <2>1, AgingEffect
  <2>2. Next => Aging(TRUE) \/ Aging(FALSE)
    BY DEF Next, SetState, Shutdown, Change, Stop, DeferredDispatch, SipStep, Cleanup, Tick
  <2>3. UNCHANGED vars => AgeInv'
    BY <1>1 DEF vars, AgeInv, Awaited, Live, Sip!Expired
  <2> QED
    BY <2>1, <2>2, <2>3
<1>4. TimelyInv'
  <2>1. CASE SetState \/ Shutdown
    BY <1>1, <1>2, <2>1, ChangeKeepsTimely DEF SetState, Shutdown
  <2>2. CASE Stop
    BY <2>2 DEF Stop, Sip!StopCleanup, Sip!StopTimers, TimelyInv
  <2>3. CASE DeferredDispatch
    <3>1. /\ timer = 0 /\ store' = store /\ published' = store' /\ phase' = phase
          /\ Aging(FALSE) /\ Sip!FanOut(Package, store', TRUE)
      BY <2>3
      DEF DeferredDispatch, Notifier!DeferredDispatch, Notifier!Dispatch, Sip!Announce
    <3> QED
      BY <1>1, <1>2, <3>1, FanOutKeepsTimely
  <2>4. CASE SipStep \/ Cleanup
    BY <1>1, <2>4, SipStepKeepsTimely
  <2>5. CASE Tick
    BY <1>1, <2>5, TickKeepsTimely
  <2>6. CASE UNCHANGED vars
    BY <1>1, <2>6
    DEF vars, TimelyInv, Lacks, Live, OnItsWay, Sip!Expired, Sip!Armed
  <2> QED
    BY <2>1, <2>2, <2>3, <2>4, <2>5, <2>6 DEF Next
<1> QED
  BY <1>2, <1>3, <1>4 DEF IInv

\* A change that a client lacks is held by exactly one of the two rate filters: the
\* state notifier until it announces it, the client's subscription from then on; and
\* each passes it on in the time that is left of its own interval.
THEOREM Invariance == Spec => []IInv
BY InitEstablishes, StepPreserves, SipFactsHold, PTL DEF Spec

----
\* What follows from it.

\* A change is never dropped between set_state (element_state.py:133) and the NOTIFY:
\* the notifier or the client's subscription has a timer armed for it.
THEOREM ChangesAreInFlight == Spec => []ChangeInFlight
<1>1. ASSUME IInv, SipFacts PROVE ChangeInFlight
  <2>1. SUFFICES ASSUME phase = "running", NEW c \in CallIds, Live(c), ~UpToDate(c),
                        timer = Notifier!NoTimer
                 PROVE  Sip!Armed(subs[c]) /\ subs[c].pending = store
    BY DEF ChangeInFlight
  <2>2. published = store /\ store \in Nat
    BY <1>1, <2>1, BoundsAssumption DEF IInv, NotifierInv
  <2>3. RowFacts(c) /\ subs[c].life # 0
    BY <1>1, <2>1 DEF Live, SipFacts, Sip!Expired
  <2>4. seen[c][Package] \in Nat /\ seen[c][Package] <= store /\ seen[c][Package] # store
    BY <1>1, <2>1, BoundsAssumption DEF SipFacts, UpToDate
  <2>5. subs[c].pending # 0
    BY <2>2, <2>3, <2>4 DEF RowFacts
  <2>6. subs[c].pending = store
    BY <2>2, <2>3, <2>4, <2>5 DEF RowFacts
  <2>7. subs[c].timer \in Nat
    BY <2>1, <2>3, <2>5 DEF RowFacts
  <2> QED
    BY <2>6, <2>7 DEF Sip!Armed
<1> QED
  BY <1>1, Invariance, SipFactsHold, PTL

\* When timers fire promptly, a client hears of a change within both minimum intervals
\* (min_notify_interval, element_state.py:91, and the subscription's) together.
THEOREM ChangesAreTimely == Spec => []Timely
<1>1. ASSUME IInv, SipFacts PROVE Timely
  <2>1. SUFFICES ASSUME prompt, phase = "running", NEW c \in CallIds, Live(c), ~UpToDate(c)
                 PROVE  age[seen[c][Package] + 1] <= MinInterval + subs[c].interval
    BY DEF Timely
  <2> DEFINE v == seen[c][Package] + 1
  <2>2. NotifierInv /\ AgeInv /\ TimelyInv
    BY <1>1 DEF IInv
  <2>3. store \in 1..MaxVersion /\ store \in Nat
    BY <2>2, BoundsAssumption DEF NotifierInv
  <2>4. seen[c][Package] \in Nat /\ seen[c][Package] <= store /\ seen[c][Package] # store
    BY <1>1, <2>1, BoundsAssumption DEF SipFacts, UpToDate
  <2>5. v \in 1..store /\ v \in 1..MaxVersion /\ seen[c][Package] < v
    BY <2>3, <2>4, BoundsAssumption
  <2>6. OnItsWay(c, v)
    BY <2>1, <2>2, <2>5 DEF TimelyInv, Lacks
  <2>7. age[v] \in Nat
    <3>1. MaxAge \in Nat
      BY MinIntervalAssumption, IntervalsAssumption DEF MaxAge
    <3> QED
      BY <2>2, <2>5, <3>1 DEF AgeInv
  <2>8. subs[c].interval \in Nat
    BY <1>1, <2>1 DEF Live, SipFacts, RowFacts
  <2>9. CASE published < v
    <3>1. timer >= 0 /\ age[v] + timer <= MinInterval
      BY <2>6, <2>9 DEF OnItsWay
    <3>2. timer \in Int
      BY <2>2, MinIntervalAssumption DEF NotifierInv
    <3>3. age[v] <= MinInterval + subs[c].interval
      BY <2>7, <2>8, <3>1, <3>2, MinIntervalAssumption
    <3> QED
      BY <3>3
  <2>10. CASE ~(published < v)
    <3>1. Sip!Armed(subs[c]) /\ age[v] + subs[c].timer <= MinInterval + subs[c].interval
      BY <2>6, <2>10 DEF OnItsWay
    <3>2. subs[c].timer \in Nat
      BY <1>1, <2>1, <3>1, ArmedTimer
    <3>3. age[v] <= MinInterval + subs[c].interval
      BY <2>7, <2>8, <3>1, <3>2, MinIntervalAssumption
    <3> QED
      BY <3>3
  <2> QED
    BY <2>9, <2>10
<1> QED
  BY <1>1, Invariance, SipFactsHold, PTL

\* A client without a rate filter has been told GoingDown when the SIP notifier is
\* stopped (lifecycle.py:121-131), unless the notifier's own filter holds it back.
THEOREM UnfilteredAreTold == Spec => []ShutdownAnnouncedUnfiltered
<1>1. ASSUME IInv, SipFacts PROVE ShutdownAnnouncedUnfiltered
  <2>1. SUFFICES ASSUME timer = Notifier!NoTimer,
                        NEW c \in CallIds, Live(c), subs[c].interval = 0
                 PROVE  seen[c][Package] >= goingDown
    BY DEF ShutdownAnnouncedUnfiltered
  <2>2. published = store /\ store \in Nat /\ goingDown \in 0..store
    BY <1>1, <2>1, BoundsAssumption DEF IInv, NotifierInv
  <2>3. RowFacts(c) /\ subs[c].life # 0
    BY <1>1, <2>1 DEF Live, SipFacts, Sip!Expired
  <2>4. seen[c][Package] \in Nat
    BY <1>1, BoundsAssumption DEF SipFacts
  <2>5. subs[c].pending = 0
    BY <2>1, <2>3 DEF RowFacts
  <2> QED
    BY <2>2, <2>3, <2>4, <2>5 DEF RowFacts
<1> QED
  BY <1>1, Invariance, SipFactsHold, PTL

----
\* What is left of the types: the history of the notifier's dispatches.
LEMMA NotifiedType == Spec => [](notified \in {"never", "before", "now"})
<1> DEFINE Typed == notified \in {"never", "before", "now"}
<1>1. Init => Typed
  BY DEF Init, Notifier!Init
<1>2. Typed /\ [Next]_vars => Typed'
  <2> SUFFICES ASSUME Typed, [Next]_vars PROVE Typed'
    OBVIOUS
  <2>1. CASE SetState \/ Shutdown
    BY <2>1
    DEF SetState, Shutdown, Change, Notifier!SetState, Notifier!ScheduleNotify,
        Notifier!Dispatch, Notifier!Silent, Notifier!Defer
  <2>2. CASE DeferredDispatch \/ Tick
    BY <2>2
    DEF DeferredDispatch, Tick, Notifier!DeferredDispatch, Notifier!Tick,
        Notifier!Dispatch, Notifier!Silent
  <2>3. CASE Stop \/ SipStep \/ Cleanup \/ UNCHANGED vars
    BY <2>3 DEF Stop, SipStep, Cleanup, notifierVars, vars
  <2> QED
    BY <2>1, <2>2, <2>3 DEF Next
<1> QED
  BY <1>1, <1>2, PTL DEF Spec

\* prompt is chosen once.
LEMMA PromptType == Spec => [](prompt \in BOOLEAN)
<1>1. Init => prompt \in BOOLEAN
  BY DEF Init
<1>2. [Next]_vars => prompt' = prompt
  <2>1. \A elapsing : Aging(elapsing) => prompt' = prompt
    BY DEF Aging
  <2>2. Next => \E elapsing \in BOOLEAN : Aging(elapsing)
    BY DEF Next, SetState, Shutdown, Change, Stop, DeferredDispatch, SipStep, Cleanup, Tick
  <2> QED
    BY <2>1, <2>2 DEF vars
<1>3. prompt \in BOOLEAN /\ [Next]_vars => (prompt \in BOOLEAN)'
  BY <1>2
<1> QED
  BY <1>1, <1>3, PTL DEF Spec

\* Both components keep their types when they are composed.
THEOREM TypeCorrectness == Spec => []TypeOK
<1>1. SipProofs!Spec => []SipProofs!TypeOK
  BY SipAssumptions, SipProofs!TypeCorrectness
<1>2. ASSUME IInv, SipProofs!TypeOK, notified \in {"never", "before", "now"},
             prompt \in BOOLEAN
      PROVE  TypeOK
  <2>1. NotifierInv /\ AgeInv
    BY <1>2 DEF IInv
  <2>2. Notifier!TypeOK
    <3>1. store \in 1..MaxVersion /\ published \in 1..MaxVersion /\ pending \in BOOLEAN
      BY <2>1, BoundsAssumption DEF NotifierInv
    <3> QED
      BY <1>2, <2>1, <3>1 DEF NotifierInv, Notifier!TypeOK
  <2>3. Sip!TypeOK
    BY <1>2
    DEF Sip!TypeOK, SipProofs!TypeOK, Sip!Versions, SipProofs!Versions,
        Sip!Subscription, SipProofs!Subscription, Sip!TimerValues, SipProofs!TimerValues,
        Sip!NoTimer, SipProofs!NoTimer, Sip!CancelledTimer, SipProofs!CancelledTimer,
        Sip!Notifies, SipProofs!Notifies, Sip!Causes, SipProofs!Causes
  <2>4. goingDown \in 0..MaxVersion
    BY <2>1, BoundsAssumption DEF NotifierInv
  <2> QED
    BY <1>2, <2>1, <2>2, <2>3, <2>4 DEF TypeOK, AgeInv
<1> QED
  BY <1>1, <1>2, Invariance, NotifiedType, PromptType, SipProofsApply, PTL

\* The clients of the composed element are served as those of the SIP notifier alone:
\* nothing announced is missed, states arrive in order and no faster than asked,
\* heartbeats go on, and what is over is silent.
THEOREM ClientsAreServed ==
    /\ Spec => [](SipProofs!NoMissedAnnouncement /\ SipProofs!HeartbeatArmed
                  /\ SipProofs!CapacityRespected)
    /\ Spec => SipProofs!NeverBackwards
    /\ Spec => SipProofs!MinIntervalKept
    /\ Spec => SipProofs!OnlyCurrentSubscriptions
<1>1. Spec => []SipProofs!NoMissedAnnouncement
  BY SipAssumptions, SipProofs!NothingMissed, SipProofsApply
<1>2. Spec => []SipProofs!HeartbeatArmed
  BY SipAssumptions, SipProofs!Heartbeats, SipProofsApply
<1>3. Spec => []SipProofs!CapacityRespected
  BY SipAssumptions, SipProofs!Capacity, SipProofsApply
<1>4. Spec => SipProofs!NeverBackwards
  BY SipAssumptions, SipProofs!Monotonicity, SipProofsApply
<1>5. Spec => SipProofs!MinIntervalKept
  BY SipAssumptions, SipProofs!Spacing, SipProofsApply
<1>6. Spec => SipProofs!OnlyCurrentSubscriptions
  BY SipAssumptions, SipProofs!Silence, SipProofsApply
<1> QED
  BY <1>1, <1>2, <1>3, <1>4, <1>5, <1>6, PTL
=============================================================================
