---------------------------- MODULE Worker_proofs ----------------------------
(***************************************************************************)
(* Proofs about Lifecycle, for every set of bundles the FE sets, with or   *)
(* without automatic recovery, and every debounce; and about Worker, which *)
(* extends it, for every number of servers and every timeout and interval: *)
(* the composition is a Lifecycle, and raises no false alarm.              *)
(***************************************************************************)
EXTENDS Worker, TLAPS

\* The health loop runs only while the server does, its streak is not longer than the
\* run of healthy checks, and GoingDown stays.
IInv ==
    /\ pc \in {"boot", "hook", "serving", "stopping", "down"}
    /\ streak \in Nat
    /\ healthyChecks \in 0..Debounce
    /\ streak <= healthyChecks
    /\ ntpLoop => pc = "serving"
    /\ GoingDownStays

\* What set_state does to the store, whoever calls it.
LEMMA SetStateEffect ==
    ASSUME NEW bundle, NEW writer, SetState(bundle, writer)
    PROVE  /\ store' = bundle
           /\ store' # store => author' = writer
           /\ author' # author => author' = writer
BY DEF SetState, Notifier!SetState

\* A step that writes nothing leaves the element state and its author alone.
LEMMA WritesNothingEffect == WritesNothing => UNCHANGED <<store, author>>
BY DEF WritesNothing

\* The invariant holds before the server starts ...
LEMMA InitEstablishes == Init => IInv
BY DebounceAssumption DEF Init, IInv, GoingDownStays

\* The steps of the lifespan: only here does pc change, and the loop start and end.
LEMMA LifespanKeeps ==
    ASSUME IInv, Boot \/ (\E ok \in BOOLEAN : HookDone(ok)) \/ Shutdown \/ Stopped
    PROVE  IInv'
<1>1. CASE Boot
  BY <1>1 DEF IInv, GoingDownStays, Boot, loopVars
<1>2. CASE \E ok \in BOOLEAN : HookDone(ok)
  BY <1>2 DEF IInv, GoingDownStays, HookDone
<1>3. CASE Shutdown
  <2>1. leader => store' = PlannedShutdown
    BY <1>3, SetStateEffect DEF Shutdown
  <2> QED
    BY <1>3, <2>1 DEF IInv, GoingDownStays, Shutdown
<1>4. CASE Stopped
  BY <1>4, WritesNothingEffect DEF IInv, GoingDownStays, Stopped, loopVars
<1> QED
  BY <1>1, <1>2, <1>3, <1>4

\* A round of the health loop, whose count of healthy checks the streak never exceeds.
LEMMA NtpCheckKeeps == IInv /\ NtpCheck => IInv'
<1> SUFFICES ASSUME IInv, NtpCheck PROVE IInv'
  OBVIOUS
<1>1. pc = "serving" /\ pc' = "serving" /\ ntpLoop' = ntpLoop
  BY DEF IInv, NtpCheck
<1>2. CASE Unhealthy
  BY <1>1, <1>2, DebounceAssumption DEF Unhealthy, IInv, GoingDownStays
<1>3. CASE Healthy
  BY <1>1, <1>3, DebounceAssumption DEF Healthy, CountHealthy, IInv, GoingDownStays
<1> QED
  BY <1>2, <1>3 DEF NtpCheck

\* The environment may change the store only as the FE.
LEMMA EnvironmentKeeps ==
    ASSUME IInv, (\E b \in FEBundles : FESetState(b)) \/ NtpHealthChanges \/ NotifierStep
    PROVE  IInv'
<1>1. /\ UNCHANGED <<pc, leader, ntpLoop, streak, healthyChecks>>
      /\ UNCHANGED <<store, author>> \/ author' = "fe"
  <2>1. ASSUME NEW b \in FEBundles, FESetState(b)
        PROVE  /\ UNCHANGED <<pc, leader, ntpLoop, streak, healthyChecks>>
               /\ UNCHANGED <<store, author>> \/ author' = "fe"
    BY <2>1 DEF FESetState, SetState, loopVars
  <2>2. CASE NtpHealthChanges
    BY <2>2, WritesNothingEffect DEF NtpHealthChanges, loopVars
  <2>3. CASE NotifierStep
    BY <2>3 DEF NotifierStep, Notifier!DeferredDispatch, Notifier!Tick, loopVars
  <2> QED
    BY <2>1, <2>2, <2>3
<1> QED
  BY <1>1 DEF IInv, GoingDownStays

\* ... and every step of lifespan, health loop and functional element keeps it.
LEMMA NextKeeps == IInv /\ [Next]_vars => IInv'
<1> SUFFICES ASSUME IInv, [Next]_vars PROVE IInv'
  OBVIOUS
<1>1. CASE UNCHANGED vars
  BY <1>1 DEF vars, IInv, GoingDownStays
<1> QED
  BY <1>1, LifespanKeeps, NtpCheckKeeps, EnvironmentKeeps DEF Next

\* The health loop lives only while the server serves, and its streak never exceeds
\* the run of healthy checks it has really seen.
THEOREM Invariance == Spec => []IInv
BY InitEstablishes, NextKeeps, PTL DEF Spec

\* Nothing in the library takes GoingDown back.
THEOREM GoingDownIsFinal == Spec => []GoingDownStays
BY Invariance, PTL DEF IInv

\* A step in which the loop turns a state into another than NTP drift is a healthy
\* check, the last of enough of them.
LEMMA StepDebounced ==
    ASSUME IInv, [Next]_vars, store' # store, author' = "ntp", store' # NtpDrift
    PROVE  AutoRecover /\ healthyChecks' >= Debounce
<1>1. CASE NtpCheck
  <2>1. CASE Unhealthy
    BY <2>1, SetStateEffect DEF Unhealthy
  <2>2. CASE Healthy
    <3>1. AutoRecover /\ streak + 1 >= Debounce
      BY <2>2, WritesNothingEffect DEF Healthy
    <3> QED
      BY <2>2, <3>1, DebounceAssumption DEF Healthy, CountHealthy, IInv
  <2> QED
    BY <1>1, <2>1, <2>2 DEF NtpCheck
<1>2. CASE Boot \/ (\E ok \in BOOLEAN : HookDone(ok)) \/ Shutdown \/ Stopped
  BY <1>2, SetStateEffect, WritesNothingEffect DEF Boot, HookDone, Shutdown, Stopped
<1>3. CASE (\E b \in FEBundles : FESetState(b)) \/ NtpHealthChanges
  BY <1>3, SetStateEffect, WritesNothingEffect DEF FESetState, NtpHealthChanges
<1>4. CASE NotifierStep
  BY <1>4 DEF NotifierStep, Notifier!DeferredDispatch, Notifier!Tick
<1>5. CASE UNCHANGED vars
  BY <1>5 DEF vars
<1> QED
  BY <1>1, <1>2, <1>3, <1>4, <1>5 DEF Next

\* No recovery without ntp_auto_recover, nor before the debounce is over.
THEOREM Debouncing == Spec => RecoveryDebounced
<1>1. IInv /\ [Next]_vars
      => [store' # store /\ author' = "ntp" /\ store' # NtpDrift =>
            AutoRecover /\ healthyChecks' >= Debounce]_vars
  BY StepDebounced
<1> QED
  BY <1>1, Invariance, PTL DEF Spec, RecoveryDebounced

----
\* A server always answers, and a sync ends within a poll interval.
Steady == network = "reliable" /\ Servers * QueryTimeout <= PollInterval

\* How old the sample can be when the sleep, or the query of this server, began.
AgeAtStep == IF client = "sleeping" THEN 0 ELSE PollInterval + (server - 1) * QueryTimeout

\* How long the sleep, or the query of a server, takes at most.
LongestStep == IF client = "sleeping" THEN PollInterval ELSE QueryTimeout

Polling == client \in {"sleeping", "syncing"}

\* Types of the polling loop.
ClientTypeOK ==
    /\ client \in {"off", "starting", "sleeping", "syncing"}
    /\ server \in 1..Servers
    /\ waited \in Nat
    /\ age \in Nat
    /\ ntpHealthy = IsHealthy

\* Which part of the client runs in which part of the lifespan.
Aligned ==
    /\ pc \in {"boot", "hook", "serving", "stopping", "down"}
    /\ pc = "hook" /\ leader => client # "off"
    /\ pc \in {"serving", "stopping"} /\ leader => Polling
    /\ ntpLoop => pc = "serving" /\ leader

\* While a server answers, a polling client has a sample that is good and fresh.
Fresh ==
    Steady /\ Polling =>
        /\ sample = "good"
        /\ waited <= LongestStep
        /\ age <= AgeAtStep + waited

\* The health loop has found nothing.
Quiet ==
    Steady =>
        /\ ~ntpOwns
        /\ author # "ntp"
        /\ author # "fe" /\ pc \in {"hook", "serving"} =>
              store \in {Default, StartupComplete, HookFailed}

WInv == ClientTypeOK /\ Aligned /\ Fresh /\ Quiet

----
\* The composition is a lifespan with its health loop.

\* It starts as one ...
LEMMA InitIsInit == WorkerInit => Init
BY DEF WorkerInit

\* ... and each of its steps is a step of one, or changes nothing in it.
LEMMA StepIsStep == [WorkerNext]_workerVars => [Next]_vars
<1> SUFFICES ASSUME [WorkerNext]_workerVars PROVE [Next]_vars
  OBVIOUS
<1>1. CASE UNCHANGED workerVars
  BY <1>1 DEF workerVars, vars
<1>2. CASE StartClient \/ RunHook \/ StopClient \/ CheckHealth \/ LifecycleStep
  BY <1>2 DEF StartClient, RunHook, StopClient, CheckHealth, LifecycleStep, Next
<1>3. CASE PollLoop
  BY <1>3 DEF PollLoop, IsHealthyFollows, Next
<1>4. CASE NetworkGoesDown /\ UNCHANGED vars
  BY <1>4
<1> QED
  BY <1>1, <1>2, <1>3, <1>4 DEF WorkerNext

\* The worker with its real NTP client is one of the workers Lifecycle allows for, so
\* what is proved of Lifecycle holds of it.
THEOREM WorkerIsLifecycle == WorkerSpec => Spec
BY InitIsInit, StepIsStep, PTL DEF WorkerSpec, Spec

\* GoingDown is final with the real NTP client as well.
THEOREM WorkerGoesDown == WorkerSpec => []GoingDownStays
BY WorkerIsLifecycle, GoingDownIsFinal

----
\* Multiplication by a timeout is monotone.
LEMMA Monotone ==
    ASSUME NEW i \in Nat, NEW j \in Nat, NEW t \in Nat, i <= j
    PROVE  /\ i * t <= j * t
           /\ i * t \in Nat
           /\ (i + 1) * t = i * t + t
<1>1. PICK d \in Nat : j = i + d
  <2>1. j - i \in Nat /\ j = i + (j - i)
    OBVIOUS
  <2> QED
    BY <2>1
<1>2. j * t = i * t + d * t
  BY <1>1
<1>3. i * t \in Nat /\ d * t \in Nat
  OBVIOUS
<1> QED
  BY <1>2, <1>3

\* A fresh sample is a healthy one.
LEMMA FreshIsHealthy ==
    ASSUME ClientTypeOK, Fresh, Steady, Polling
    PROVE  IsHealthy
<1>1. CASE client = "sleeping"
  BY <1>1, PollIntervalAssumption DEF Fresh, LongestStep, AgeAtStep, ClientTypeOK, IsHealthy
<1>2. CASE client = "syncing"
  <2>1. /\ server - 1 \in Nat /\ server \in Nat /\ Servers \in Nat
        /\ server <= Servers /\ (server - 1) + 1 = server
    BY ServersAssumption DEF ClientTypeOK
  <2>2. server * QueryTimeout = (server - 1) * QueryTimeout + QueryTimeout
    BY <2>1, Monotone, QueryTimeoutAssumption
  <2>3. server * QueryTimeout <= Servers * QueryTimeout
    BY <2>1, Monotone, QueryTimeoutAssumption
  <2>4. /\ (server - 1) * QueryTimeout \in Nat
        /\ server * QueryTimeout \in Nat
        /\ Servers * QueryTimeout \in Nat
    BY <2>1, Monotone, QueryTimeoutAssumption
  <2> DEFINE before == (server - 1) * QueryTimeout
             asked == server * QueryTimeout
             all == Servers * QueryTimeout
  <2>5. age <= PollInterval + before + waited /\ waited <= QueryTimeout
    BY <1>2 DEF Fresh, LongestStep, AgeAtStep
  <2>6. asked = before + QueryTimeout /\ asked <= all /\ all <= PollInterval
    BY <2>2, <2>3 DEF Steady
  <2>7. before \in Nat /\ asked \in Nat /\ all \in Nat
    BY <2>4
  <2> HIDE DEF before, asked, all
  <2>8. age <= 2 * PollInterval
    BY <2>5, <2>6, <2>7, PollIntervalAssumption, QueryTimeoutAssumption DEF ClientTypeOK
  <2> QED
    BY <2>8 DEF IsHealthy, Fresh
<1> QED
  BY <1>1, <1>2 DEF Polling

\* The invariant holds before the worker starts.
LEMMA WInitEstablishes == WorkerInit => WInv
BY ServersAssumption DEF WorkerInit, Init, WInv, ClientTypeOK, Aligned, Fresh, Quiet,
    Polling, Steady

\* A step that leaves the client alone leaves its types and its sample alone.
LEMMA ClientUnchanged ==
    ASSUME ClientTypeOK, Fresh, UNCHANGED clientVars, UNCHANGED ntpHealthy
    PROVE  ClientTypeOK' /\ Fresh' /\ Polling' = Polling /\ Steady' = Steady
BY DEF ClientTypeOK, Fresh, clientVars, Polling, Steady, IsHealthy, LongestStep, AgeAtStep

\* The lifespan starts the client before the hook and stops it after the loop; only the
\* outcome of the hook, the hook over, and GoingDown are written here.
LEMMA LifespanKeepsW ==
    ASSUME WInv, StartClient \/ RunHook \/ StopClient
    PROVE  WInv'
<1>1. CASE StartClient
  BY <1>1 DEF WInv, StartClient, Boot, loopVars, ClientTypeOK, Aligned, Fresh, Quiet,
      Polling, Steady, IsHealthy
<1>2. CASE RunHook
  <2>1. UNCHANGED clientVars /\ UNCHANGED ntpHealthy /\ client # "starting"
    BY <1>2 DEF RunHook, HookDone
  <2>2. ClientTypeOK' /\ Fresh' /\ Polling' = Polling /\ Steady' = Steady
    BY <2>1, ClientUnchanged DEF WInv
  <2>3. PICK ok \in BOOLEAN : HookDone(ok)
    BY <1>2 DEF RunHook
  <2>4. client' = client /\ client \in {"off", "sleeping", "syncing"}
    BY <2>1 DEF WInv, ClientTypeOK, clientVars
  <2>5. Aligned'
    BY <2>2, <2>3, <2>4 DEF WInv, Aligned, HookDone, Polling
  <2>6. Quiet'
    <3>1. CASE leader
      <4>1. SetState(IF ok THEN StartupComplete ELSE HookFailed, "lifespan")
        BY <2>3, <3>1 DEF HookDone
      <4>2. store' \in {StartupComplete, HookFailed}
        BY <4>1, SetStateEffect
      <4>3. author' = author \/ author' = "lifespan"
        BY <4>1, SetStateEffect
      <4> QED
        BY <2>2, <2>3, <4>2, <4>3 DEF WInv, Quiet, HookDone
    <3>2. CASE ~leader
      <4>1. UNCHANGED <<store, author>>
        BY <2>3, <3>2, WritesNothingEffect DEF HookDone
      <4> QED
        BY <2>2, <2>3, <4>1 DEF WInv, Quiet, HookDone
    <3> QED
      BY <3>1, <3>2
  <2> QED
    BY <2>2, <2>5, <2>6 DEF WInv
<1>3. CASE StopClient
  BY <1>3, WritesNothingEffect DEF WInv, StopClient, Stopped, loopVars, ClientTypeOK,
      Aligned, Fresh, Quiet, Polling, Steady, IsHealthy
<1> QED
  BY <1>1, <1>2, <1>3

\* A round of the health loop writes nothing while a server answers.
LEMMA CheckHealthKeeps == WInv /\ CheckHealth => WInv'
<1> SUFFICES ASSUME WInv, CheckHealth PROVE WInv'
  OBVIOUS
<1>1. UNCHANGED clientVars /\ UNCHANGED ntpHealthy
  BY DEF CheckHealth, NtpCheck
<1>2. ClientTypeOK' /\ Fresh' /\ Polling' = Polling /\ Steady' = Steady
  BY <1>1, ClientUnchanged DEF WInv
<1>3. Aligned'
  BY <1>2, <1>1 DEF WInv, Aligned, CheckHealth, NtpCheck, clientVars
<1>4. Quiet'
  <2>1. ASSUME Steady PROVE Quiet'
    <3>1. ntpHealthy
      <4>1. Polling
        BY DEF CheckHealth, NtpCheck, WInv, Aligned
      <4> QED
        BY <2>1, <4>1, FreshIsHealthy DEF WInv, ClientTypeOK
    <3>2. Healthy /\ ~ntpOwns
      BY <2>1, <3>1 DEF CheckHealth, NtpCheck, WInv, Quiet
    <3>3. WritesNothing /\ ntpOwns' = ntpOwns
      BY <3>2 DEF Healthy
    <3>4. UNCHANGED <<store, author, pc>>
      BY <3>3, WritesNothingEffect DEF CheckHealth, NtpCheck
    <3> QED
      BY <2>1, <3>3, <3>4, <1>2 DEF WInv, Quiet
  <2> QED
    BY <2>1, <1>2 DEF Quiet
<1> QED
  BY <1>2, <1>3, <1>4 DEF WInv

\* The shutdown leaves the phases in which the outcome of the hook is the last word, and
\* the functional element writes in its own name.
LEMMA LifecycleStepKeeps == WInv /\ LifecycleStep => WInv'
<1> SUFFICES ASSUME WInv, LifecycleStep PROVE WInv'
  OBVIOUS
<1>1. UNCHANGED clientVars /\ UNCHANGED ntpHealthy
  BY DEF LifecycleStep, Shutdown, FESetState, NotifierStep
<1>2. ClientTypeOK' /\ Fresh' /\ Polling' = Polling /\ Steady' = Steady
  BY <1>1, ClientUnchanged DEF WInv
<1>3. CASE Shutdown
  <2>1. author' = author \/ author' = "lifespan"
    BY <1>3, SetStateEffect, WritesNothingEffect DEF Shutdown
  <2>2. Aligned'
    BY <1>1, <1>2, <1>3 DEF WInv, Aligned, Shutdown, clientVars
  <2>3. Quiet'
    BY <1>2, <1>3, <2>1 DEF WInv, Quiet, Shutdown
  <2> QED
    BY <1>2, <2>2, <2>3 DEF WInv
<1>4. CASE \E b \in FEBundles : FESetState(b)
  <2>1. PICK b \in FEBundles : FESetState(b)
    BY <1>4
  <2>2. UNCHANGED <<store, author>> \/ author' = "fe"
    BY <2>1 DEF FESetState, SetState
  <2>3. UNCHANGED <<pc, leader, ntpLoop, ntpOwns>>
    BY <2>1 DEF FESetState, loopVars
  <2>4. Aligned' /\ Quiet'
    BY <1>1, <1>2, <2>2, <2>3 DEF WInv, Aligned, Quiet, clientVars
  <2> QED
    BY <1>2, <2>4 DEF WInv
<1>5. CASE NotifierStep
  <2>1. UNCHANGED <<store, author, pc, leader, ntpLoop, ntpOwns>>
    BY <1>5 DEF NotifierStep, Notifier!DeferredDispatch, Notifier!Tick, loopVars
  <2>2. Aligned' /\ Quiet'
    BY <1>1, <1>2, <2>1 DEF WInv, Aligned, Quiet, clientVars
  <2> QED
    BY <1>2, <2>2 DEF WInv
<1> QED
  BY <1>3, <1>4, <1>5 DEF LifecycleStep

\* What a step of the polling loop leaves alone.
LEMMA PollLoopFrame ==
    IsHealthyFollows =>
        /\ ntpHealthy' = IsHealthy'
        /\ UNCHANGED <<store, author, pc, leader, ntpLoop, ntpOwns>>
BY WritesNothingEffect DEF IsHealthyFollows, NtpHealthChanges, vars, loopVars

\* An answer makes the sample fresh; the servers that fail before it cost a timeout
\* each; and time makes the sample no older than the step it passes in.
LEMMA PollLoopKeeps == WInv /\ PollLoop => WInv'
<1> SUFFICES ASSUME WInv, PollLoop PROVE WInv'
  OBVIOUS
<1>1. /\ ntpHealthy' = IsHealthy'
      /\ UNCHANGED <<store, author, pc, leader, ntpLoop, ntpOwns>>
  BY PollLoopFrame DEF PollLoop
<1>2. network' = network
  BY DEF PollLoop, Answered, Failed, Poll, Pass
<1>3. Steady' = Steady
  BY <1>2 DEF Steady
<1>4. Quiet'
  BY <1>1, <1>3 DEF WInv, Quiet
<1>5. /\ Polling => Polling'
      /\ client' = "off" <=> client = "off"
  BY DEF PollLoop, Answered, Failed, Poll, Pass, Querying, Sleep, Polling
<1>6. Aligned'
  BY <1>1, <1>5 DEF WInv, Aligned
<1>7. ASSUME NEW offset \in {"good", "drifted"}, Answered(offset)
      PROVE  ClientTypeOK' /\ Fresh'
  BY <1>1, <1>3, <1>7, ServersAssumption, PollIntervalAssumption DEF Answered, Sleep, ClientTypeOK, Fresh,
      Polling, Steady, LongestStep, AgeAtStep
<1>8. CASE Failed
  <2>1. ClientTypeOK'
    BY <1>1, <1>8, ServersAssumption DEF WInv, ClientTypeOK, Failed, Querying, Sleep
  <2>2. Fresh'
    <3>1. SUFFICES ASSUME Steady, Polling' PROVE Fresh'
      BY <1>3 DEF Fresh
    <3>2. /\ server < Servers /\ server' = server + 1 /\ waited' = 0
          /\ UNCHANGED <<client, sample, age>>
      BY <1>8, <3>1, ServersAssumption DEF Failed, Steady, WInv, ClientTypeOK
    <3>3. client = "syncing" /\ client' = "syncing"
      BY <1>8, <3>1, <3>2 DEF Failed, Querying, Polling
    <3>4. /\ sample = "good" /\ waited <= QueryTimeout
          /\ age <= PollInterval + (server - 1) * QueryTimeout + waited
      BY <3>1, <3>3 DEF WInv, Fresh, Polling, LongestStep, AgeAtStep
    <3>5. /\ server - 1 \in Nat /\ server \in Nat
          /\ (server - 1) + 1 = server /\ (server + 1) - 1 = server
      BY ServersAssumption DEF WInv, ClientTypeOK
    <3>6. /\ server * QueryTimeout = (server - 1) * QueryTimeout + QueryTimeout
          /\ (server - 1) * QueryTimeout \in Nat
      BY <3>5, Monotone, QueryTimeoutAssumption
    <3> DEFINE before == (server - 1) * QueryTimeout
               asked == server * QueryTimeout
    <3>7. age <= PollInterval + before + waited /\ asked = before + QueryTimeout /\ before \in Nat
      BY <3>4, <3>6
    <3>8. (server' - 1) * QueryTimeout = asked
      BY <3>2, <3>5
    <3>9. age <= PollInterval + asked
      <4> HIDE DEF before, asked
      <4> QED
        BY <3>4, <3>7, PollIntervalAssumption, QueryTimeoutAssumption DEF WInv, ClientTypeOK
    <3>10. asked \in Nat
      <4> HIDE DEF before, asked
      <4> QED
        BY <3>7, QueryTimeoutAssumption
    <3>11. age' <= AgeAtStep' + waited'
      <4>1. AgeAtStep' = PollInterval + asked
        BY <3>3, <3>8 DEF AgeAtStep
      <4> HIDE DEF asked
      <4> QED
        BY <3>2, <3>9, <3>10, <4>1, PollIntervalAssumption
    <3>12. waited' <= LongestStep'
      BY <3>2, <3>3, QueryTimeoutAssumption DEF LongestStep
    <3> QED
      BY <3>2, <3>4, <3>11, <3>12 DEF Fresh
  <2> QED
    BY <1>4, <1>6, <2>1, <2>2 DEF WInv
<1>9. CASE Poll
  <2>1. ClientTypeOK'
    BY <1>1, <1>9, ServersAssumption DEF WInv, ClientTypeOK, Poll
  <2>2. (1 - 1) * QueryTimeout = 0
    BY QueryTimeoutAssumption
  <2>3. Fresh'
    BY <1>3, <1>9, <2>2, PollIntervalAssumption, QueryTimeoutAssumption
       DEF WInv, ClientTypeOK, Fresh, Polling, LongestStep, AgeAtStep, Poll
  <2> QED
    BY <1>4, <1>6, <2>1, <2>3 DEF WInv
<1>10. CASE Pass
  <2>1. ClientTypeOK'
    BY <1>1, <1>10 DEF WInv, ClientTypeOK, Pass
  <2>2. Fresh'
    <3>1. SUFFICES ASSUME Steady, Polling PROVE Fresh'
      BY <1>3, <1>10 DEF Fresh, Pass, Polling
    <3>2. /\ waited' = waited + 1 /\ age' <= age + 1 /\ waited' <= LongestStep
          /\ UNCHANGED <<client, server, sample>>
      BY <1>10, <3>1, PollIntervalAssumption, QueryTimeoutAssumption
         DEF Pass, Polling, Querying, LongestStep, WInv, ClientTypeOK
    <3>3. AgeAtStep' = AgeAtStep /\ LongestStep' = LongestStep
      BY <3>2 DEF AgeAtStep, LongestStep
    <3>4. AgeAtStep \in Int
      BY PollIntervalAssumption, QueryTimeoutAssumption, ServersAssumption DEF AgeAtStep, WInv, ClientTypeOK
    <3>5. age <= AgeAtStep + waited /\ sample = "good"
      BY <3>1 DEF WInv, Fresh
    <3>6. age' <= AgeAtStep + waited'
      <4>1. age \in Nat /\ waited \in Nat /\ age' \in Nat
        BY <2>1 DEF WInv, ClientTypeOK
      <4> QED
        BY <3>2, <3>4, <3>5, <4>1
    <3> QED
      BY <3>2, <3>3, <3>5, <3>6 DEF Fresh
  <2> QED
    BY <1>4, <1>6, <2>1, <2>2 DEF WInv
<1> QED
  BY <1>4, <1>6, <1>7, <1>8, <1>9, <1>10 DEF PollLoop, WInv

\* ... and every step of the worker keeps the invariant.
LEMMA WNextKeeps == WInv /\ [WorkerNext]_workerVars => WInv'
<1> SUFFICES ASSUME WInv, [WorkerNext]_workerVars PROVE WInv'
  OBVIOUS
<1>1. CASE UNCHANGED workerVars
  BY <1>1 DEF workerVars, WInv, ClientTypeOK, Aligned, Fresh, Quiet, Polling, Steady,
      IsHealthy, LongestStep, AgeAtStep
<1>2. CASE NetworkGoesDown /\ UNCHANGED vars
  BY <1>2 DEF NetworkGoesDown, vars, WInv, ClientTypeOK, Aligned, Fresh, Quiet, Polling,
      Steady, IsHealthy
<1> QED
  BY <1>1, <1>2, LifespanKeepsW, CheckHealthKeeps, LifecycleStepKeeps, PollLoopKeeps
     DEF WorkerNext

\* A reachable server means no alarm, whatever the number of servers, their timeouts and
\* the poll interval, as long as the timeouts of one sync fit into it.
THEOREM ReachableMeansQuiet == WorkerSpec => []NoFalseAlarm
<1>1. WInv => NoFalseAlarm
  <2> SUFFICES ASSUME WInv, leader, Steady
               PROVE  /\ author # "ntp"
                      /\ pc = "serving" /\ author # "fe" /\ store # HookFailed
                            => HealthStatus = 200
    BY DEF NoFalseAlarm, Steady
  <2>1. author # "ntp"
    BY DEF WInv, Quiet
  <2>2. ASSUME pc = "serving", author # "fe", store # HookFailed
        PROVE  HealthStatus = 200
    <3>1. ntpHealthy
      BY <2>2, FreshIsHealthy DEF WInv, Aligned, ClientTypeOK
    <3>2. store \in {Default, StartupComplete}
      BY <2>1, <2>2 DEF WInv, Quiet
    <3>3. store.state = "Normal"
      <4>1. Default.state = "Normal" /\ StartupComplete.state = "Normal"
        BY DEF Default, StartupComplete
      <4> QED
        BY <3>2, <4>1
    <3> QED
      BY <3>1, <3>3 DEF HealthStatus
  <2> QED
    BY <2>1, <2>2
<1> QED
  BY <1>1, WInitEstablishes, WNextKeeps, PTL DEF WorkerSpec
=============================================================================
