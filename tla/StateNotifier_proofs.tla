------------------------ MODULE StateNotifier_proofs ------------------------
(***************************************************************************)
(* Proofs about StateNotifier, for every set of bundles, every interval    *)
(* and callers on or off the event loop, and about ServiceState, which     *)
(* extends it with two setters of one bundle.                              *)
(***************************************************************************)
EXTENDS ServiceState, TLAPS

USE DEF NoTimer

\* A process starts with nothing deferred and nothing unpublished.
LEMMA InitEstablishes == Init => IInv
BY IntervalAssumption DEF Init, IInv, TypeOK, FlagMeansTimer

\* A set_state keeps the invariant: a change that is not dispatched at once has a
\* timer that is due by the end of the window.
LEMMA SetStateKeeps ==
    ASSUME IInv, NEW b \in Bundles, NEW onLoop \in BOOLEAN, SetState(b, onLoop)
    PROVE  IInv'
<1>1. CASE /\ elapsed >= MinInterval \/ (~pending /\ ~onLoop)
           /\ Dispatch(b)
           /\ UNCHANGED <<pending, timer>>
  BY <1>1, IntervalAssumption DEF IInv, TypeOK, FlagMeansTimer, SetState, Dispatch
<1>2. CASE /\ elapsed < MinInterval /\ pending
           /\ Silent
           /\ UNCHANGED <<elapsed, pending, timer>>
  BY <1>2 DEF IInv, TypeOK, FlagMeansTimer, SetState, Silent
<1>3. CASE /\ elapsed < MinInterval /\ ~pending /\ onLoop
           /\ Defer(MinInterval - elapsed)
  BY <1>3, IntervalAssumption DEF IInv, TypeOK, FlagMeansTimer, SetState, Defer, Silent
<1> QED
  BY <1>1, <1>2, <1>3 DEF SetState, ScheduleNotify

\* A deferred dispatch keeps it: the flag and the timer go together, and the body is
\* the stored bundle.
LEMMA DeferredDispatchKeeps == IInv /\ DeferredDispatch => IInv'
<1> SUFFICES ASSUME IInv, DeferredDispatch PROVE IInv'
  OBVIOUS
<1>1. TypeOK'
  <2>1. store' \in Bundles /\ published' \in Bundles
    BY DEF IInv, TypeOK, DeferredDispatch, Dispatch
  <2>2. elapsed' \in 0..MinInterval
    BY IntervalAssumption DEF DeferredDispatch, Dispatch
  <2>3. pending' \in BOOLEAN /\ notified' \in {"never", "before", "now"}
    BY Zenon DEF DeferredDispatch, Dispatch
  <2>4. timer' \in 0..MinInterval \cup {NoTimer}
    BY DEF DeferredDispatch
  <2> QED
    BY <2>1, <2>2, <2>3, <2>4 DEF TypeOK
<1>2. ~pending' /\ timer' = NoTimer /\ published' = store'
  BY DEF DeferredDispatch, Dispatch
<1> QED
  BY <1>1, <1>2 DEF IInv, FlagMeansTimer

\* The passing of time keeps it: while a timer runs, the time to it and the time since
\* the last dispatch move in opposite directions.
LEMMA TickKeeps == IInv /\ Tick => IInv'
<1> SUFFICES ASSUME IInv, Tick PROVE IInv'
  OBVIOUS
<1>1. TypeOK' /\ FlagMeansTimer'
  BY IntervalAssumption DEF IInv, TypeOK, FlagMeansTimer, Tick, Silent
<1>2. (pending => timer + elapsed <= MinInterval)'
  BY IntervalAssumption DEF IInv, TypeOK, FlagMeansTimer, Tick, Silent
<1>3. (~pending => published = store)'
  BY DEF IInv, Tick, Silent
<1> QED
  BY <1>1, <1>2, <1>3 DEF IInv

\* The notifier's invariant: _notify_pending, the armed timer, the rate window and the
\* bundle the callbacks were last given stay consistent.
THEOREM Invariance == Spec => []IInv
<1>1. IInv /\ [Next]_vars => IInv'
  <2> SUFFICES ASSUME IInv, [Next]_vars PROVE IInv'
    OBVIOUS
  <2>1. CASE \E b \in Bundles, onLoop \in Loops : SetState(b, onLoop)
    BY <2>1, LoopsAssumption, SetStateKeeps
  <2>2. CASE DeferredDispatch
    BY <2>2, DeferredDispatchKeeps
  <2>3. CASE Tick
    BY <2>3, TickKeeps
  <2>4. CASE UNCHANGED vars
    BY <2>4 DEF vars, IInv, TypeOK, FlagMeansTimer
  <2> QED
    BY <2>1, <2>2, <2>3, <2>4 DEF Next
<1> QED
  BY <1>1, InitEstablishes, PTL DEF Spec

\* Every variable stays within its type; in particular the delay given to call_later
\* is never negative and never longer than the interval.
THEOREM TypeCorrectness == Spec => []TypeOK
BY Invariance, PTL DEF IInv

\* No change is lost or held back for longer than the interval.
THEOREM ChangesAreScheduled == Spec => []ChangeIsScheduled
<1>1. IInv => ChangeIsScheduled
  BY DEF IInv, FlagMeansTimer, ChangeIsScheduled
<1> QED
  BY <1>1, Invariance, PTL

\* Every step of the notifier is one the abstract publisher allows: an announcement
\* carries the bundle stored at that moment.
THEOREM StepsImplementPublisher ==
    Spec => Publisher!Init /\ [][Publisher!Next]_(Publisher!abstractVars)
<1>1. Init => Publisher!Init
  BY DEF Init, Publisher!Init
<1>2. [Next]_vars => [Publisher!Next]_(Publisher!abstractVars)
  <2> SUFFICES ASSUME [Next]_vars
               PROVE  [Publisher!Next]_(Publisher!abstractVars)
    OBVIOUS
  <2>1. CASE \E b \in Bundles, onLoop \in Loops : SetState(b, onLoop)
    BY <2>1 DEF SetState, ScheduleNotify, Dispatch, Defer, Silent,
                Publisher!Next, Publisher!Change
  <2>2. CASE DeferredDispatch
    BY <2>2 DEF DeferredDispatch, Dispatch, Publisher!Next, Publisher!Announce
  <2>3. CASE Tick \/ UNCHANGED vars
    BY <2>3 DEF Tick, Silent, vars, Publisher!abstractVars
  <2> QED
    BY <2>1, <2>2, <2>3 DEF Next
<1> QED
  BY <1>1, <1>2, PTL DEF Spec

----
\* The invariant holds when create_app has built the notifier.
LEMMA ServiceInitEstablishes == ServiceInit => ServiceInv
<1> SUFFICES ASSUME ServiceInit PROVE ServiceInv
  OBVIOUS
<1>1. IInv
  BY InitEstablishes DEF ServiceInit
<1> QED
  BY <1>1 DEF ServiceInit, ServiceInv, ServiceTypeOK, IInv

\* The reset is no dispatch and arms no timer; nothing is declared before it.
LEMMA BootKeeps == ServiceInv /\ Boot => ServiceInv'
<1> SUFFICES ASSUME ServiceInv, Boot PROVE ServiceInv'
  OBVIOUS
<1>1. store' \in Bundles
  BY StatesAssumption, BundlesAssumption DEF Boot, ServiceBundles
<1>2. ServiceTypeOK'
  BY <1>1 DEF ServiceInv, ServiceTypeOK, TypeOK, Boot, Silent
<1>3. store'.posture = NoPosture /\ declared' = NoPosture
  BY DEF ServiceInv, Boot
<1> QED
  BY <1>2, <1>3 DEF ServiceInv, FlagMeansTimer, Boot

\* What set_state of either half does to the filter, whatever the bundle: the flag
\* stays with the timer, and without a timer the bundle has been published.
LEMMA SetStateEffect ==
    ASSUME TypeOK, FlagMeansTimer, NEW b \in Bundles, NEW onLoop \in BOOLEAN,
           SetState(b, onLoop)
    PROVE  /\ TypeOK'
           /\ FlagMeansTimer'
           /\ store' = b
           /\ timer' = NoTimer => published' = b
<1>1. CASE /\ elapsed >= MinInterval \/ (~pending /\ ~onLoop)
           /\ Dispatch(b)
           /\ UNCHANGED <<pending, timer>>
  BY <1>1, IntervalAssumption DEF TypeOK, FlagMeansTimer, SetState, Dispatch
<1>2. CASE /\ elapsed < MinInterval /\ pending
           /\ Silent
           /\ UNCHANGED <<elapsed, pending, timer>>
  BY <1>2 DEF TypeOK, FlagMeansTimer, SetState, Silent
<1>3. CASE /\ elapsed < MinInterval /\ ~pending /\ onLoop
           /\ Defer(MinInterval - elapsed)
  BY <1>3, IntervalAssumption DEF TypeOK, FlagMeansTimer, SetState, Defer, Silent
<1> QED
  BY <1>1, <1>2, <1>3 DEF SetState, ScheduleNotify

\* Replacing the state keeps the posture that is stored, and so the one declared.
LEMMA SetServiceStateKeeps ==
    ASSUME ServiceInv, NEW s \in States, SetServiceState(s)
    PROVE  ServiceInv'
<1> DEFINE b == [store EXCEPT !.state = s]
<1>1. store \in ServiceBundles
  BY BundlesAssumption DEF ServiceInv, ServiceTypeOK, TypeOK
<1>2. b \in Bundles /\ b.posture = store.posture
  BY <1>1, BundlesAssumption DEF ServiceBundles
<1>3. TypeOK' /\ FlagMeansTimer' /\ store' = b /\ (timer' = NoTimer => published' = b)
  BY <1>2, SetStateEffect DEF ServiceInv, ServiceTypeOK, SetServiceState
<1> QED
  BY <1>2, <1>3 DEF ServiceInv, ServiceTypeOK, SetServiceState

\* A posture given to the running server is stored and, unless a timer is armed for
\* it, published.
LEMMA SetSecurityPostureKeeps ==
    ASSUME ServiceInv, NEW p \in Postures, SetSecurityPosture(p)
    PROVE  ServiceInv'
<1> DEFINE b == [store EXCEPT !.posture = p]
<1>1. store \in ServiceBundles
  BY BundlesAssumption DEF ServiceInv, ServiceTypeOK, TypeOK
<1>2. b \in Bundles /\ b.posture = p
  BY <1>1, BundlesAssumption DEF ServiceBundles
<1>3. TypeOK' /\ FlagMeansTimer' /\ store' = b /\ (timer' = NoTimer => published' = b)
  BY <1>2, SetStateEffect DEF ServiceInv, ServiceTypeOK, SetSecurityPosture
<1>4. declared' \in Postures \cup {NoPosture} /\ up' = up
  BY DEF ServiceInv, ServiceTypeOK, SetSecurityPosture
<1>5. (declared # NoPosture =>
           up /\ store.posture = declared
              /\ (timer = NoTimer => published.posture = declared))'
  BY <1>2, <1>3 DEF ServiceInv, SetSecurityPosture
<1>6. (up /\ declared = NoPosture => store.posture = NoPosture)'
  BY NoPostureAssumption DEF SetSecurityPosture
<1> QED
  BY <1>3, <1>4, <1>5, <1>6 DEF ServiceInv, ServiceTypeOK

\* A deferred dispatch publishes the stored bundle, and time changes neither half.
LEMMA NotifierStepKeeps == ServiceInv /\ NotifierStep => ServiceInv'
<1> SUFFICES ASSUME ServiceInv, NotifierStep PROVE ServiceInv'
  OBVIOUS
<1>1. CASE DeferredDispatch
  <2>1. store' = store /\ published' = store /\ timer' = NoTimer /\ pending' = FALSE
    BY <1>1 DEF DeferredDispatch, Dispatch
  <2>2. notified' = "now" /\ elapsed' = 0
    BY <1>1 DEF DeferredDispatch, Dispatch
  <2>3. TypeOK' /\ FlagMeansTimer'
    <3>1. store' \in Bundles /\ published' \in Bundles
      BY <2>1 DEF ServiceInv, ServiceTypeOK, TypeOK
    <3>2. elapsed' \in 0..MinInterval /\ timer' \in 0..MinInterval \cup {NoTimer}
      BY <2>1, <2>2, IntervalAssumption
    <3>3. pending' \in BOOLEAN /\ notified' \in {"never", "before", "now"}
      BY <2>1, <2>2, Zenon
    <3> QED
      BY <2>1, <3>1, <3>2, <3>3 DEF TypeOK, FlagMeansTimer
  <2> QED
    BY <2>1, <2>3 DEF ServiceInv, ServiceTypeOK, NotifierStep
<1>2. CASE Tick
  <2>1. TypeOK' /\ FlagMeansTimer'
    BY <1>2, IntervalAssumption
    DEF ServiceInv, ServiceTypeOK, TypeOK, FlagMeansTimer, Tick, Silent
  <2>2. timer' = NoTimer => timer = NoTimer
    BY <1>2 DEF ServiceInv, ServiceTypeOK, TypeOK, Tick
  <2> QED
    BY <1>2, <2>1, <2>2 DEF ServiceInv, ServiceTypeOK, NotifierStep, Tick, Silent
<1> QED
  BY <1>1, <1>2 DEF NotifierStep

\* The two halves of the bundle and the filter stay consistent, before and after the
\* lifespan's reset.
THEOREM ServiceInvariance == ServiceSpec => []ServiceInv
<1>1. ServiceInv /\ [ServiceNext]_serviceVars => ServiceInv'
  <2> SUFFICES ASSUME ServiceInv, [ServiceNext]_serviceVars PROVE ServiceInv'
    OBVIOUS
  <2>1. CASE \E s \in States : SetServiceState(s)
    BY <2>1, SetServiceStateKeeps
  <2>2. CASE \E p \in Postures : SetSecurityPosture(p)
    BY <2>2, SetSecurityPostureKeeps
  <2>3. CASE UNCHANGED serviceVars
    BY <2>3 DEF serviceVars, ServiceInv, ServiceTypeOK, TypeOK, FlagMeansTimer
  <2> QED
    BY <2>1, <2>2, <2>3, BootKeeps, NotifierStepKeeps DEF ServiceNext
<1> QED
  BY <1>1, ServiceInitEstablishes, PTL DEF ServiceSpec

\* A posture given to the running server survives every later set_state.
THEOREM PosturesAreKept == ServiceSpec => []PostureKept
<1>1. ServiceInv => PostureKept
  BY DEF ServiceInv, PostureKept, ReportedPosture
<1> QED
  BY <1>1, ServiceInvariance, PTL
=============================================================================
