------------------------------- MODULE Worker -------------------------------
(***************************************************************************)
(* One worker with its NTP client: Lifecycle, whose health loop reads a    *)
(* free ntpHealthy, composed with the polling loop that is behind it and   *)
(* with the /health endpoint that reads both.                              *)
(*                                                                         *)
(* Time of the client is counted in query timeouts.  The loop is awake     *)
(* when a sleep ends and when an answer arrives: it is not held up longer  *)
(* than a tick by other coroutines.                                        *)
(***************************************************************************)
EXTENDS Lifecycle

CONSTANTS
    Servers,        \* the number of configured servers
    QueryTimeout,   \* how long a query waits for its answer
    PollInterval    \* poll_interval

ASSUME ServersAssumption == Servers \in Nat \ {0}
ASSUME QueryTimeoutAssumption == QueryTimeout \in Nat
ASSUME PollIntervalAssumption == PollInterval \in Nat

VARIABLES
    client,     \* "off", "starting" (the sync in start()), "sleeping", "syncing"
    server,     \* the server being asked
    waited,     \* time slept, or since the server was asked
    sample,     \* offset of _last_sample: "none", "good" or "drifted"
    age,        \* age of _last_sample, as far as is_healthy tells ages apart
    network     \* "reliable": the last server always answers, and no answer drifts;
                \* "free": every query may end in any way; "down": none is answered

clientVars == <<client, server, waited, sample, age, network>>
workerVars == <<store, elapsed, pending, timer, published, notified, pc, leader,
                ntpHealthy, ntpLoop, ntpOwns, streak, author, healthyChecks,
                client, server, waited, sample, age, network>>

Stale == 2 * PollInterval + 1

\* Faulty variants of IsHealthy: a sample as old as two intervals is stale; no sample is.
IsHealthyStrict == sample = "good" /\ age < 2 * PollInterval
IsHealthyAgeless == sample = "good"

\* NtpClient.is_healthy
IsHealthy == sample = "good" /\ age <= 2 * PollInterval

\* Types; ntpHealthy is no more than the client's is_healthy.
WorkerTypeOK ==
    /\ TypeOK
    /\ client \in {"off", "starting", "sleeping", "syncing"}
    /\ server \in 1..Servers
    /\ waited \in 0..(QueryTimeout + PollInterval)
    /\ sample \in {"none", "good", "drifted"}
    /\ age \in 0..Stale
    /\ network \in {"reliable", "free", "down"}
    /\ ntpHealthy = IsHealthy

WorkerInit ==
    /\ Init
    /\ client = "off" /\ server = 1 /\ waited = 0
    /\ sample = "none" /\ age = 0
    /\ network \in {"reliable", "free"}
    /\ ntpHealthy = IsHealthy

----
\* What the client does for the lifespan: start() before the hook, which waits for the
\* first sync, and stop() after the health loop.

StartClient ==
    /\ Boot
    /\ client' = IF leader THEN "starting" ELSE "off"
    /\ UNCHANGED <<server, waited, sample, age, network>>

StopClient ==
    /\ Stopped
    /\ client' = "off"
    /\ UNCHANGED <<server, waited, sample, age, network>>

RunHook ==
    /\ client # "starting"
    /\ \E ok \in BOOLEAN : HookDone(ok)
    /\ UNCHANGED clientVars

CheckHealth == NtpCheck /\ UNCHANGED clientVars

LifecycleStep ==
    /\ Shutdown \/ (\E b \in FEBundles : FESetState(b)) \/ NotifierStep
    /\ UNCHANGED clientVars

----
\* The polling loop.  Its steps reach the rest of the worker through is_healthy alone.

Querying == client \in {"starting", "syncing"}

\* The sync is over: the loop goes to sleep, for the first time after start().
Sleep == client' = "sleeping" /\ server' = 1 /\ waited' = 0

\* The first answer is recorded, drifted or not.
Answered(offset) ==
    /\ Querying
    /\ network # "down"
    /\ network = "reliable" => offset = "good"
    /\ sample' = offset /\ age' = 0
    /\ Sleep
    /\ UNCHANGED network

\* A query fails, at once or after its timeout: the next server is asked, if there is
\* one, and the sample stays.
Failed ==
    /\ Querying
    /\ network = "reliable" => server < Servers
    /\ \/ server < Servers /\ server' = server + 1 /\ waited' = 0 /\ UNCHANGED client
       \/ server = Servers /\ Sleep
    /\ UNCHANGED <<sample, age, network>>

Poll ==
    /\ client = "sleeping" /\ waited = PollInterval
    /\ client' = "syncing" /\ server' = 1 /\ waited' = 0
    /\ UNCHANGED <<sample, age, network>>

Pass ==
    /\ Querying => waited < QueryTimeout
    /\ client = "sleeping" => waited < PollInterval
    /\ waited' = IF client = "off" THEN waited ELSE waited + 1
    /\ age' = IF age < Stale THEN age + 1 ELSE age
    /\ UNCHANGED <<client, server, sample, network>>

NetworkGoesDown ==
    /\ network = "free"
    /\ network' = "down"
    /\ UNCHANGED <<client, server, waited, sample, age>>

\* is_healthy changes, or nothing does.
IsHealthyFollows ==
    /\ ntpHealthy' = IsHealthy'
    /\ \/ ntpHealthy' = ntpHealthy /\ UNCHANGED vars
       \/ ntpHealthy' # ntpHealthy /\ NtpHealthChanges

PollLoop ==
    /\ (\E offset \in {"good", "drifted"} : Answered(offset)) \/ Failed \/ Poll \/ Pass
    /\ IsHealthyFollows

WorkerNext ==
    \/ StartClient \/ RunHook \/ StopClient
    \/ CheckHealth \/ LifecycleStep
    \/ PollLoop
    \/ NetworkGoesDown /\ UNCHANGED vars

WorkerSpec == WorkerInit /\ [][WorkerNext]_workerVars

\* The health loop wakes up every ntp_check_interval seconds; queries end, sleeps end,
\* deferred dispatches run and time passes.
WorkerFairness ==
    /\ WF_workerVars(CheckHealth)
    /\ WF_workerVars(PollLoop)
    /\ WF_workerVars(NotifierStep /\ UNCHANGED clientVars)

FairWorkerSpec == WorkerSpec /\ WorkerFairness

----
\* The endpoint /health of create_app.
HealthStatus ==
    IF store.state \in {"Normal", "ScheduledMaintenance"} /\ ntpHealthy THEN 200 ELSE 503

\* A leader is never reported unhealthy, by the health loop (which then never writes) or
\* by /health, while one server answers well, however many others time out before it is
\* asked, when the timeouts of one sync fit into a poll interval.
NoFalseAlarm ==
    /\ leader /\ network = "reliable" /\ Servers * QueryTimeout <= PollInterval
    => /\ author # "ntp"
       /\ pc = "serving" /\ author # "fe" /\ store # HookFailed => HealthStatus = 200

\* When no server answers any more, the last good sample does not hide it: the outage is
\* reported while the health loop lives, again and again should the FE overwrite it.
OutageIsReported ==
    <>[](ntpLoop /\ network = "down") => []<>(store = NtpDrift)

=============================================================================
