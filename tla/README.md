# A TLA+ model of i3-fe-core

i3-fe-core is the Python library from which the functional elements (FEs) of a
NENA i3 emergency-services network are built: it keeps and publishes the state of
the element and of its service, carries those states to SIP subscribers, watches
the clock, reports discrepancies, logs events and signs them, and authenticates peers. This directory holds
TLA+ models of it, their TLC configurations, and TLAPS proofs.

Paths below are relative to `src/src/i3_fe_core/`.

## 1. Inventory

| Component | Source | State it keeps | Operations |
|---|---|---|---|
| State store and state notifiers | `state/store.py`, `state/element_state.py`, `state/service_state.py` | current bundle, `_last_notify_mono`, `_notify_pending`, an armed `call_later` | `set_state`, `set_security_posture`, deferred dispatch, `get_notify_body` |
| SIP notifier | `notify/sip_notifier.py` | one `SipSubscription` per Call-ID (expiry, interval, last NOTIFY, queued body, timer handle), cleanup task | `handle_subscribe`, fan-out, timers, cleanup loop, `start`, `stop` |
| Lifespan and NTP health loop | `app/lifecycle.py` | place in the startup/shutdown sequence, `ntp_owns_disruption`, `consecutive_healthy` | startup, hook outcome, shutdown, one round of the loop |
| App factory | `app/factory.py` | none of its own | builds and connects the singletons, routes |
| Discrepancy reporting | `discrepancy/` | reports received and submitted, resolutions, time of the last similar report | receive, resolve and call back, submit, receive a resolution, status updates |
| Logging client | `logging/logging_client.py`, the middleware in `app/factory.py` | background POST tasks | `emit`, `emit_nowait`, one access event per request |
| NTP client | `time/ntp.py` | last sample, polling task | `start`, poll, `stop`, `is_healthy` |
| GIS dataset cache | `gis/cache.py` | data of the FE's dataset, `is_reloading`, cache file | `load`, `watch` (a thread) |
| Worker leadership | `runtime/worker.py` | who leads | `is_leader` |
| JWS and certificate chain | `logging/jws_signer.py` | none | sign, verify, walk the chain |
| Peer authentication, TLS | `security/` | `verified_peer` in the scope of a request | verify a certificate, admit or forbid a request |
| Configuration, metrics, versions, conformance checks | `config/`, `observability/`, `web_service/`, `conformance/`, `testing.py` | none that the rest reads back | |

How they interact:

    FE, startup hook --set_state--+
    lifespan ---------set_state---+--> ElementStateNotifier --callback--> SipNotifier --send_notify--> wire
    NTP health loop --set_state---+      (store, rate filter)      (table, rate filters)
    SIP client --SUBSCRIBE--------------------------------------------^   |
    SIP timer, initial NOTIFY --get_notify_body--> notifiers <------------+

    NTP servers <--query-- NtpClient --is_healthy--> NTP health loop, /health
    HTTP peer --> ProxyClientCert --> RequestLogging --emit--> route --> handler
                                                       notifiers --emit_nowait--> LoggingClient --> Logging Service
    reporting FE --POST Reports--> responding FE --POST Resolutions--> reporting FE
    source file --> DatasetCache.load / watch <--> cache file

Everything runs on one asyncio event loop per worker. A callback is a plain
function call, so a change, its dispatch and its fan-out are one step, and
coroutines interleave only at their awaits. Timers are `call_later` handles: due
ones run some time after, between other callbacks. Off the loop (synchronous use,
or another thread such as the dataset watcher's), `get_running_loop` raises and
the code takes other branches.

What is hard here: two rate filters in series, each with a timer that may be late;
timers that know a subscription object and not the table; a table that is pruned
from three places; three writers of one element state, one of them asleep; a
shutdown that announces and stops in the same breath; clocks without an origin.

What is hard here, beyond that: POSTs that are lost, or arrive although their sender
was told they failed, and nobody retries; a source file that changes between a stat
and a read; background tasks the event loop holds only weakly; a chain walk that is
greedy and bounded; a clock sample that stays when its refresh fails.

What makes each component correct:

* *State notifier.* No change is lost or starved by the filter; an announcement
  carries the state current at that moment.
* *Service state.* Changing one part of the bundle leaves the other alone.
* *SIP notifier.* A live subscriber misses nothing, sees states in order, is not
  written to faster than it asked, hears heartbeats if it asked for a rate, and
  hears nothing after its subscription is over. The table is bounded and gives
  places back.
* *Lifespan, health loop, NTP client.* Drift and outage are reported and taken back only
  as configured, only by whoever reported them, and not while a server can be reached;
  GoingDown is final and announced.
* *Discrepancy reporting.* Undisturbed, both sides hold the same report and resolution;
  what is resolved can be polled until it is filed again; similar reports are
  spaced; what one side writes the other reads back.
* *Certificate walk, JWS.* What is accepted is traceable to an anchor, what is traceable
  in issuing order is accepted, what is signed verifies.
* *Dataset cache.* A cache hit is the source's own content, a change that has been seen
  has been loaded, and every change is, in the end.
* *Request path.* A handler is behind the authentication, and no request depends on the
  Logging Service; no event vanishes while the loop lives.

`PROJECT.json` lists, under "hazards", the line where each of these could go wrong.

## 2. Modules

| Module | Models | Uses |
|---|---|---|
| `CoalescingPublisher` | abstract: what a state notifier promises its callbacks | |
| `StateNotifier` | `ElementStateNotifier`, and the equal filter of `ServiceStateNotifier` | refines `CoalescingPublisher` |
| `ServiceState` | the two-part bundle of `ServiceStateNotifier`, seeded and reset | EXTENDS `StateNotifier` |
| `SipNotifier` | `SipNotifier`, with one `CoalescingPublisher` per event package as environment | |
| `Lifecycle` | `make_lifespan` and `_ntp_health_loop`, with the FE as a third writer | INSTANCE `StateNotifier` |
| `Worker` | `NtpClient` and `/health`, composed with `Lifecycle` | EXTENDS `Lifecycle` |
| `FunctionalElement` | notifier, SIP notifier and shutdown composed | INSTANCE `StateNotifier`, `SipNotifier`; refines `SipNotifier` |
| `Discrepancy` | `DiscrepancyReporter`, `DiscrepancyResponder`, and the network between them | |
| `DiscrepancyModels` | `discrepancy/models.py` and the verdicts of `POST Reports` | INSTANCEd by `Discrepancy` |
| `ChainWalk` | the walk to an anchor, of `jws_signer.py` and of `peer_auth.py` | |
| `CertificateChecks` | `JwsSigner.sign`, `verify_jws`, `PeerCertVerifier.verify` | EXTENDS `ChainWalk` |
| `DatasetCache` | `DatasetCache.load` and `watch` | |
| `RequestPath` | both HTTP middlewares, `LoggingClient.emit` and `emit_nowait` | |
| `MC...` | definitions for TLC (Expires headers, bundles, certificates, symmetry) | |
| `..._proofs` | theorems, checked by TLAPS | |

Conventions. Each action is what the code does between two points where something
else may run. Time is relative: a variable counts the time since an event up to the
bound beyond which the code makes no difference, or the time left to a timer or an
expiry down to 0; so no horizon has to be chosen, and a timer at 0 is due and may
stay so while time passes. Bodies are abstracted to the number of the state they
were built from. Definitions that are marked as faulty variants are not part of
any specification: each is a plausible mistake in one operation, kept to show that
the property named with it in `PROJECT.json` would notice.

**StateNotifier.** `elapsed` is `time.monotonic() - _last_notify_mono`, `pending`
the flag, `timer` the armed call. The flag and the timer are separate variables, as
they are in the code; that they agree is proved. `_last_notify_mono = 0.0` is an
arbitrary time ago, so `elapsed` starts anywhere.

**ServiceState.** `SetServiceState` and `SetSecurityPosture` read the bundle and write it
back with one part replaced. `Boot` is the reset in the lifespan.

**SipNotifier.** `subs` is `_subscriptions`, a function whose domain is the set of
Call-IDs in the table. `orphans` are subscription objects that left the table with a
timer armed: `_fan_out` pops expired ones without cancelling. A cancelled handle
that `stop()` leaves in place is the value `CancelledTimer`. The three history
variables `seen`, `quiet` and `wire` say what clients observe. SUBSCRIBEs answered
489, 403, 423 or 503 assign nothing and are stuttering steps. `send_notify` is
assumed to return or raise; exceptions are swallowed by the code, so a NOTIFY
counts as sent when it is handed over.

**Lifecycle.** `pc` walks through the lifespan, one value per await that matters.
`author` and `healthyChecks` are history. The FE may write the state from its hook
until the process is down. `ntpHealthy` is an input that flips at will here, which
makes what is proved of this module hold with any clock.

**Worker.** The real input: `client` is where the polling loop is, `sample` and
`age` are `_last_sample`, and `ntpHealthy` follows `is_healthy`. Servers are asked in
order, each until it answers, fails or times out; a sync that fails keeps the old
sample. The lifespan waits in `start()` for the first sync (`RunHook` is not enabled
while the client is starting). `network` says, per behaviour, how badly queries may go.
`HealthStatus` is the `/health` endpoint. A step of the polling loop reaches the rest
through `is_healthy` alone, which is how `Worker` implements `Lifecycle`.

**FunctionalElement.** A `set_state` is the joint step of `StateNotifier!SetState`
and of what it sets off in the SIP layer. The bundles are numbered in the order of
the changes. `create_app` itself sets `min_notify_interval` 0 and no automatic
recovery; other values are for FEs that wire the parts themselves.

**Discrepancy.** A value of `Submissions` is one call of `submit()` that sends, and
also names the edition of the report it carries, so that both tables hold
`[edition, resolution]`. Submission, receipt, the `on_report` hook, the answer and
the call-back are steps of their own, as each lies between two awaits; `SubmitFails`
leaves the request under way, since a time-out says nothing about the responder.
`durable` is what the FE's hook last drained of `received_reports()`, and
`RestartResponder` gives it back through
`restore_report`, as the docstrings ask. The polls change nothing and are operators. Histories: `givenTo`,
`promised`, `calm`. **DiscrepancyModels** has no behaviour: the conversions are
operators over JSON objects (functions from keys). `Discrepancy` joins the two: a
message under way, whose contents are abstract there, may carry any of the objects, and `Lossless` and `ClosedStatusSet` quantify over all of them.

**ChainWalk, CertificateChecks.** One step is one round of the loop. `IssuedBy`
is any relation, so certificates may be cross-signed, self-signed or circular. The
two walks of the code are one module with the number of rounds as parameter, because
that is how they differ. `CertificateChecks` puts each verifier's checks before
and after the walk, in the code's order. A signature is the key it was made with:
that a library's Ed25519 does no more is assumed.

**DatasetCache.** `load()` goes file operation by file operation; the source changes,
vanishes or returns between any two, and the process may end there, its cache file
staying. Two versions never share a modification time.

**RequestPath.** `Arrive` is the proxy middleware up to its call of the next
application, which includes the whole decision. `bgTasks` is `_bg_tasks`; a task
that is not in it may be collected by the interpreter (`TaskEnds`).

## 3. Runs

Bounds: one tick is the unit of every duration. Intervals of 0 and 2 ticks (0, 1, 2
where they add up) give a filter that is off, one that is on, and a moment strictly
inside the window. `MinSubscription` 2, `DefaultSubscription` 3, `MaxSubscription` 5
and Expires values of -1 (absent), 0, 1, 2 and 6 take every branch of the
negotiation, and a life of 5 outlives two windows of 2; in `FunctionalElement` a life
of 6 outlives both filters in series, without which `Timely` could not fail. Two
Call-IDs suffice for what the table can do to two clients, since rows meet only
through the capacity.
`MaxVersion` 3 allows a queued body, a newer one over it and one after that.
`MaxOrphans` bounds the number of abandoned timers at which new subscriptions stop;
`Restartable` admits a `start()` after a `stop()`.

| Run | Checks | What it shows |
|---|---|---|
| `StateNotifier_loop` | ChangeIsScheduled, IInv, NeverStarved, ImplementsPublisher | the filter merges changes and loses, delays or starves none, on and off the loop |
| `ServiceState_posture` | PostureKept | a posture given to a running server is kept and published |
| `SipNotifier_clients` | NoMissedAnnouncement, HeartbeatArmed, NeverBackwards, MinIntervalKept, OnlyCurrentSubscriptions | two clients of one package, all the ways to end a subscription |
| `SipNotifier_restart` | IInv, CapacityRespected | two clients, two packages and one place in the table; off-loop callers and restarts |
| `Worker_health` | GoingDownStays, NoFalseAlarm, RecoveryDebounced, OutageIsReported, DriftIsCleared | the health loop and `/health` over a client that polls two servers |
| `Lifecycle_OwnershipGuard` | violated | a state of the FE's is cleared, see 5 |
| `FunctionalElement_worker` | ChangeInFlight, Timely, ShutdownAnnouncedUnfiltered, ImplementsSip, ExpiredIsDropped | the composition, timers late or prompt |
| `FunctionalElement_ShutdownAnnounced` | violated | clients with a rate filter may not hear of GoingDown, see 5 |
| `Discrepancy_reports` | PollsAreFaithful, AgreeWhenCalm, SpacedWhenSequential, Lossless, ClosedStatusSet | three reporting agencies and a responder over a network that loses, delays and answers too late; restarts; bodies of every shape |
| `CertificateChecks_walk` | NeverOutOfRounds, Sound, Complete, OrderedAccepted, Genuine, RoundTrip | every short chain of six certificates, for signed events and for peers |
| `DatasetCache_reload` | HitIsExact, SeenIsLoaded, ReloadingIsHonest, ChangeIsLoaded | loading and watching a source that changes under both |
| `RequestPath_served` | OnlyVerifiedPeers, EveryRequestIsServed, NothingVanishes | two requests and two background events, with good, expired, foreign and malformed certificates |

`SipNotifier_restart` has two packages and three more choices than
`SipNotifier_clients`; its intervals are 0 and 1 and its versions 2, which still
queues a body, at the start of a window, and delivers it at its end. Symmetry over
Call-IDs, submissions and resolutions is used only where no liveness property is
checked.

`Worker_health` has two servers with a query timeout of 1 and a poll interval of 2,
just the case in which the timeouts of one sync still fit into an interval, as
`NoFalseAlarm` requires. `Discrepancy_reports` has two
submissions and two resolutions: enough for a resubmission before, between and after
two resolutions, and for two similar submissions at once. Of its agencies one does not
trust the responder and one is not authorized; one restart hits either side.
In `CertificateChecks_walk` the six certificates are two roots, an intermediate, the
same intermediate cross-signed by the other root, a leaf and an expired leaf; chains
go up to four certificates, in every order and with repetitions, so that the bound on
the rounds is met.
`DatasetCache_reload` allows five versions, the third broken, and two processes: a
cache file written during one change, left over, and read after another.

Fairness. `WF(Tick)`: time passes. `WF(DeferredDispatch)`: the event loop runs a due
callback eventually, which asyncio guarantees as long as no callback blocks for
ever. `WF(Cleanup)`, `WF(CheckHealth)`: both coroutines are a loop around
`asyncio.sleep`. `WF(PollLoop)`: a query ends by its timeout and a sleep ends.
`WF(LoadStep)`, `WF(Poll)` in `DatasetCache`: the watcher is a thread, and file
operations return. `WF(Serve)`, `WF(Posted)` in `RequestPath`: handlers return, and the
HTTP client's timeout ends a post nobody answers. `Discrepancy` and
`CertificateChecks` check safety only and have none. Nothing is assumed of clients, the
FE, the network, the source file or the server's life.
`prompt` in `FunctionalElement` is not fairness but a choice made
once per behaviour: when it is TRUE, time does not pass while a timer is due. Only
`Timely` needs it; the other properties hold with late timers too. Likewise `Worker`
lets the polling loop wake up when it should, since `is_healthy` compares times of
that loop with each other.

## 4. Proofs

TLAPS proves these for every value of the constants that satisfies the named
assumptions of the modules (naturals where durations are meant, intervals below
their bound, MIN <= DEFAULT <= MAX, finitely many Call-IDs).

| Module | Theorems |
|---|---|
| `StateNotifier_proofs` | Invariance (IInv), TypeCorrectness, ChangesAreScheduled, StepsImplementPublisher; of `ServiceState`: ServiceInvariance (ServiceInv), PosturesAreKept (PostureKept) |
| `SipNotifier_proofs` | Invariance (IInv), TypeCorrectness, NothingMissed, Monotonicity (NeverBackwards), Spacing (MinIntervalKept), Silence (OnlyCurrentSubscriptions), Capacity, Heartbeats (HeartbeatArmed; assumes callers on the loop and no restart), UnfilteredQueueIsEmpty |
| `Worker_proofs` | of `Lifecycle`: Invariance (IInv), GoingDownIsFinal, Debouncing; of `Worker`: WorkerIsLifecycle, WorkerGoesDown (GoingDownStays), ReachableMeansQuiet (NoFalseAlarm) |
| `FunctionalElement_proofs` | Refinement (ImplementsSip), Invariance (IInv), TypeCorrectness, ChangesAreInFlight, ChangesAreTimely (Timely), UnfilteredAreTold (ShutdownAnnouncedUnfiltered), ClientsAreServed |
| `CertificateChecks_proofs` | of `ChainWalk`: WalkInvariance, WalkTypeCorrectness, Soundness (Sound), RoundsSuffice (NeverOutOfRounds), OrderSuffices (OrderedAccepted), Completeness (Complete); of `CertificateChecks`: Invariance, ChecksAreWalks, WalkGuarantees, EventsAreGenuine (Genuine), SignedIsAccepted (RoundTrip), PeersAreTraceable |
| `DatasetCache_proofs` | Invariance, HitsAreExact (HitIsExact), NothingPassedOver (SeenIsLoaded), ReloadingTold (ReloadingIsHonest) |
| `RequestPath_proofs` | Invariance (IInv), PeersAreVerified (OnlyVerifiedPeers), PostsAreHeld (NothingVanishes), ResponsesAreTheHandlers |
| `Discrepancy_proofs` | Invariance (IInv), TypeCorrectness, PollsKeepResolutions (PollsAreFaithful), SidesAgreeWhenCalm (AgreeWhenCalm), SequentialIsSpaced (SpacedWhenSequential), WireIsLossless (Lossless), StatusSetIsClosed (ClosedStatusSet) |

*State notifier.* `ChangeIsScheduled` is not inductive: it says nothing of a raised
flag without a timer, which would swallow the next change. `IInv` adds that flag and
timer agree, that timer plus elapsed time fit into the interval, and that without a
deferred dispatch the published bundle is the stored one.

*Service state.* `ServiceInv` says of a posture declared while the server runs that the
store has it and that, with no dispatch armed, it has been published; before, there
is none.

*SIP notifier.* `IInv` is the conjunction of types, `TimingInv`, `OrderInv` and
`OrphansExpired`. TimingInv: the code's clock does not run ahead of the client's, and
an armed timer is never due before the window is over. That is why a timer may
send without looking at the clock (`Spacing`). OrderInv: a queued body lies between
what was sent and what is stored, and the newest of queued and sent is not older
than what was announced (`NothingMissed`, `Monotonicity`). OrphansExpired: only
expired subscriptions leave the table with their timer armed, and life does not
come back, so their timers are silent (`Silence`). The invariant is regrouped per
subscription (`RowInv`), so that each action is a lemma about one row and the
observation that the other rows are untouched. `Heartbeats` needs a second
invariant, false after a restart: the timer of a live, rate-limited
row is the rest of its window (`Beating`).

*Lifecycle.* The health loop is alive only while `pc` is "serving", and its streak is
not longer than the run of healthy checks.

*Worker.* Every step of `Worker` is a step of `Lifecycle` or leaves its variables alone,
so GoingDownStays carries over for any clock and any servers. `NoFalseAlarm` needs an
invariant in two parts. `Fresh`: with a last server that answers, the sample is
good whenever the client is past its first sync, and its age is at most the time
since the sleep began, plus one sync (`Aligned` ties `waited` and `server` to the
place in the loop); one sleep and the timeouts of one sync together are at most two
intervals, which is `is_healthy`'s bound. `Quiet`: a health loop that has seen
only health has not written.

*Certificate walk.* The argument is an invariant on what the walk has visited: it is
part of every closed set, so an anchor found is in all of them (`Soundness`); rounds
left exceed certificates left, since each round uses one up (`RoundsSuffice`); in
a chain in issuing order the walk never skips past a certificate it has not stood on
(`OrderSuffices`); and without cross-signing, where a certificate has one supplied
issuer, what was visited is itself closed when the walk is stuck (`Completeness`).
No bound on the length of a chain is assumed.

*Dataset cache.* A load stats before it reads and stamps the file with the stat, so the
content of a cache file is never older than its time says, and never newer than the
source at the next stat (`Ordered`); a hit is a time equal to that stat, and is
therefore exact. What the watcher counts as seen it took before the load that
follows, which reads that version or a later one.

*Checks around the walk.* The walk's variables are the verifiers' too, so their behaviours
are behaviours of the walk for the job at hand, and its theorems hold of both. What
remains is that the walk stands on the certificate the checks are about: the leaf of the
event's header, or the peer's certificate (`WalkFitsJob`), and that each answer gives
the reason the code has for it (`AnswerFits`). A leaf in the header is then valid, has
the thumbprint and is traceable before the signature is looked at (`Genuine`), and
none of these checks refuses what `sign` made (`RoundTrip`).

*Composition.* Each step of `FunctionalElement` contains a step of `SipNotifier` or
leaves its variables alone, so what is proved of the one holds of the other
(`ClientsAreServed`). The theorems about `SipNotifier` are cited through an instance of
`SipNotifier_proofs`, and lemmas say that its definitions are those of the instance the model
has. `Timely` adds up two stages. A bundle newer than the last announcement is held by
the notifier, with a timer that fits into `MinInterval`; any other one a client lacks is
queued on its subscription, whose timer is the rest of its window (`OnItsWay`): a
heartbeat timer that is running when a change is queued is never further away than the
interval. Prompt timers run down as fast as ages grow, and a new stage starts with a whole
interval of its own. `ChangeInFlight` and `ShutdownAnnouncedUnfiltered` combine the
notifier's half of this with `OrderInv` and with the fact that nothing is queued without
a rate filter.

*Request path.* The properties, the types and the places of a request, its event and its
post are inductive together. `AnswersAreHonest`, the safety half of
`EveryRequestIsServed`, is part of them.

*Discrepancy reporting.* `ExchangeInv`: a POST is on its way, being handled, or answered
while its sender waits, never two of these, and the answer is the verdict on its report.
`RejectedInv`: rejected reports are in no table. `PromiseInv`: a resolution promised is
in the responder's table and, once drained, in the durable one. `CalmInv` is what
`AgreeWhenCalm` needs while something is under way: a calm report has at most one
submission under way, whose sender still waits, or else at most one call-back; once
handled, the responder's entry is that submission's, and with a call-back under way the
two entries differ by its resolution alone. `SpacingInv`: the rate limit's clock is not
ahead of the age of any submission it counted alone, and two similar submissions that
both wait know of each other. `Lossless` and `ClosedStatusSet` are facts about the
operators of `DiscrepancyModels`, proved for any set of fields a body has. The
assumption that no agency is the unset value matters: a reporter by that name would
own the calls that were never made.

Only model-checked: all liveness (NeverStarved, the liveness half of
ImplementsPublisher, ExpiredIsDropped, OutageIsReported, DriftIsCleared,
ChangeIsLoaded, EveryRequestIsServed), which is out of the prover's reach. Every other
property the passing runs check is a theorem. The invariants proved were checked by TLC
on the runs' instances first; only those of `StateNotifier` and `SipNotifier`
remain among the runs' properties, since they follow from nothing else there.

## 5. Where code and documentation disagree

Two runs end in a violation.

1. `OwnershipGuard`. `ntp_owns_disruption` outlives the disruption it describes, and the
   recovery of the clock then clears a disruption of the FE's.
2. `ShutdownAnnounced`. GoingDown queued for a rate-limited subscriber is dropped by
   the stop that follows.

Further remarks, met while modelling. The models do what the code does; where
a property is stated with an exception, this is the exception.

State and subscriptions:

* A change after the window has passed, while the deferred dispatch is due but has
  not run, is dispatched at once and leaves that timer armed: the second dispatch
  follows with no distance (`state/element_state.py:147`).
* `_last_notify_mono = 0.0` "ensures first notify is always immediate"
  (`state/element_state.py:91`) only if the monotonic clock has run for
  `min_notify_interval`; `StateNotifier` lets it have run for any time.
* The lifespan overwrites the bundle that `ServiceStateNotifier.__init__` seeded.
* `SipNotifier.stop()` leaves the handles of cancelled timers in the subscriptions it
  keeps, so heartbeats do not resume after a `start()`; and off the event loop a body is
  queued for a timer that does not exist (the assumptions of `Heartbeats`).

Lifespan and clock:

* One failed poll makes the sample of the poll before older than two intervals as
  soon as the next sync takes any time, because the loop sleeps after the sync:
  "misses two consecutive polls" (`time/ntp.py:118`) can be one.
* A worker that is not the leader never starts its NTP client, so its `/health` is
  always 503. `is_leader` is read once, before awaits (`app/lifecycle.py:97`).
* `create_app` passes `logging_client` to no notifier and has no setting for automatic
  recovery.

Discrepancy reporting:

* The limit on similar reports does not hold between submissions that overlap
  (`SpacedWhenSequential` excludes them).
* A resolution is to replace an older one, "keep the latest"
  (`discrepancy/service.py:519`); but the answer to a resubmission replaces the
  reporter's whole entry, and erases a resolution that arrived before that answer
  (`AgreeWhenCalm` excludes it); a restart of the reporter
  loses `_submitted`, and later call-backs get 473.
* A type-dependent parameter named like an unset prolog field becomes that field when
  read (`Lossless` excludes it); identifiers that are JSON arrays raise instead
  of being answered 454 (`ClosedStatusSet` excludes them).

Certificates and requests:

* The greedy walk refuses an unordered chain with a cross-signed intermediate that
  a search would accept, such as leaf, cross-signed, intermediate with only the
  intermediate's root trusted (`Complete` excludes it).
* "One LogEvent per HTTP request" (`app/factory.py:97`): requests the outer
  authentication forbids, and those whose handler raises, emit none.
* Events posted in the background during shutdown, GoingDown's own among them, end
  with the loop: nothing awaits `_bg_tasks`.

Dataset cache:

* A change between the initial load and the watcher's first stat, and a source that
  could not be loaded initially, are not loaded until the next change
  (`SeenIsLoaded` and `ChangeIsLoaded` speak of later ones).
* `watch()` "Never raises", but an exception of `on_failure` leaves it.

## 6. Not modelled, and the plan

Not modelled at all: metrics, configuration, conformance checks, test helpers, web
service versions and event classes (no state, or state nobody reads back); `tls.py`
(it builds contexts of a library); the election of a leader (the only
implementation answers True); cryptography, HTTP and SIP wire formats.
In modelled parts: CSeq numbers, URIs and texts; a `send_notify` that
calls back into the SIP notifier; a second `start()` without a `stop()`; leadership
that changes while the server runs.

Done: every component with state, the compositions where they meet, and proofs of all
the safety properties the runs check. What is left:

1. The composition of `FunctionalElement` with `Lifecycle`: that the element's writers in
   the one are the changes of the other.
2. The safety part of `EveryRequestIsServed` and `ChangeIsLoaded` as refinements of abstract
   specifications, so that only their fairness stays with TLC.
3. `OutageIsReported` and `DriftIsCleared`: the safety lemmas they rest on, such as that an
   outage makes the sample age.
