------------------------- MODULE SipNotifier_proofs -------------------------
(***************************************************************************)
(* Proofs about SipNotifier, for every set of Call-IDs and packages, every *)
(* choice of intervals and durations, callers on and off the event loop,   *)
(* with or without restarts.                                               *)
(*                                                                         *)
(* The lemmas of the first part are about one subscription and hold of     *)
(* values, not of states; those of the second part say that each action    *)
(* keeps the inductive invariant IInv; the theorems follow.  The last part *)
(* adds two invariants that rest on IInv: the table never exceeds its      *)
(* capacity, and, when every caller runs on the event loop and stop() is   *)
(* final, timers are armed for exactly the rest of each window.            *)
(***************************************************************************)
EXTENDS SipNotifier, FiniteSetTheorems, TLAPS

USE DEF NoTimer, NoBody, CancelledTimer

\* What TimingInv says of a subscription whose client heard from it `since' ago.
Timed(s, since) ==
    /\ s.elapsed <= s.interval
    /\ s.elapsed <= since
    /\ Armed(s) => s.timer + s.elapsed >= s.interval

\* What OrderInv says of a subscription whose client was sent version `sent' of its
\* package, `announced' having been announced and `current' being stored.
Ordered(s, sent, announced, current) ==
    /\ s.pending # NoBody => s.pending \in sent..current
    /\ ~Expired(s) => (IF s.pending # NoBody THEN s.pending ELSE sent) >= announced

\* r is s, but for its timer, its clock and its queued body.
SameSubscription(r, s) ==
    /\ r.call = s.call
    /\ r.package = s.package
    /\ r.interval = s.interval
    /\ r.life = s.life

----
\* One subscription.

\* The intervals subscriptions have are naturals.
LEMMA IntervalIsNat == ASSUME NEW s \in Subscription PROVE s.interval \in 0..MaxInterval
BY IntervalsAssumption DEF Subscription

\* Arming the timer changes nothing else.
LEMMA ScheduleNotifyTimerEffect ==
    ASSUME NEW s \in Subscription, NEW onLoop \in BOOLEAN,
           NEW r, r = ScheduleNotifyTimer(s, onLoop)
    PROVE  /\ r \in Subscription
           /\ SameSubscription(r, s)
           /\ r.elapsed = s.elapsed
           /\ r.pending = s.pending
           /\ r.timer = s.timer \/ r.timer = s.interval
BY IntervalIsNat, IntervalsAssumption
DEF ScheduleNotifyTimer, Subscription, SameSubscription, TimerValues

\* A delivery empties the queue and starts a window, at the end of which any timer
\* armed is due.
LEMMA DeliverNotifyEffect ==
    ASSUME NEW s \in Subscription, NEW onLoop \in BOOLEAN,
           NEW r, r = DeliverNotify(s, onLoop)
    PROVE  /\ r \in Subscription
           /\ SameSubscription(r, s)
           /\ r.elapsed = 0
           /\ r.pending = NoBody
           /\ r.timer = NoTimer \/ r.timer = s.interval
<1> DEFINE reset == [s EXCEPT !.timer = NoTimer, !.pending = NoBody, !.elapsed = 0]
<1>1. /\ reset \in Subscription
      /\ SameSubscription(reset, s)
      /\ reset.elapsed = 0
      /\ reset.pending = NoBody
      /\ reset.timer = NoTimer
  <2>1. 0 \in 0..MaxInterval /\ NoBody \in 0..MaxVersion /\ NoTimer \in TimerValues
    BY IntervalsAssumption, BoundsAssumption DEF TimerValues
  <2> QED
    BY <2>1 DEF Subscription, SameSubscription
<1>2. r = reset \/ r = ScheduleNotifyTimer(reset, onLoop)
  BY DEF DeliverNotify
<1> HIDE DEF reset
<1> QED
  BY <1>1, <1>2, ScheduleNotifyTimerEffect DEF SameSubscription

\* The timing of a subscription is right after a delivery, whenever that was.
LEMMA DeliveredIsTimed ==
    ASSUME NEW s \in Subscription, NEW onLoop \in BOOLEAN
    PROVE  Timed(DeliverNotify(s, onLoop), 0)
BY DeliverNotifyEffect, IntervalIsNat DEF Timed, Armed, SameSubscription

\* Inside the window a body is queued, in place of the one queued before, and the
\* timing stays right.
LEMMA QueueEffect ==
    ASSUME NEW s \in Subscription, NEW onLoop \in BOOLEAN, NEW since \in Nat,
           NEW version \in Versions, NEW r, r = RateFilteredDeliver(s, version, onLoop),
           ~WindowPassed(s), Timed(s, since)
    PROVE  /\ r \in Subscription
           /\ SameSubscription(r, s)
           /\ r.pending = version
           /\ Timed(r, since)
<1> DEFINE queued == [s EXCEPT !.pending = version]
<1>1. /\ queued \in Subscription
      /\ SameSubscription(queued, s)
      /\ queued.elapsed = s.elapsed
      /\ queued.timer = s.timer
      /\ queued.pending = version
  BY BoundsAssumption DEF Subscription, SameSubscription, Versions
<1>2. r = ScheduleNotifyTimer(queued, onLoop)
  BY DEF RateFilteredDeliver
<1> HIDE DEF queued
<1>3. /\ r \in Subscription
      /\ SameSubscription(r, queued)
      /\ r.elapsed = s.elapsed
      /\ r.pending = version
      /\ r.timer = s.timer \/ r.timer = s.interval
  BY <1>1, <1>2, ScheduleNotifyTimerEffect DEF SameSubscription
<1>4. s.elapsed \in Nat /\ s.interval \in Nat /\ s.timer \in Int
  BY IntervalIsNat, IntervalsAssumption DEF Subscription, TimerValues
<1> QED
  BY <1>1, <1>3, <1>4 DEF SameSubscription, Timed, Armed

\* As time passes the timing stays right, against a history clock capped at
\* MaxInterval.
LEMMA AgeEffect ==
    ASSUME NEW s \in Subscription, NEW since \in 0..MaxInterval, Timed(s, since),
           NEW r, r = Age(s)
    PROVE  /\ r \in Subscription
           /\ r.call = s.call
           /\ r.package = s.package
           /\ r.interval = s.interval
           /\ r.pending = s.pending
           /\ Expired(s) => Expired(r)
           /\ Timed(r, IF since < MaxInterval THEN since + 1 ELSE since)
<1>1. /\ s.elapsed \in 0..MaxInterval
      /\ s.interval \in 0..MaxInterval
      /\ s.life \in 0..MaxSubscription
      /\ s.timer \in TimerValues
  BY IntervalIsNat DEF Subscription
<1>2. /\ r.call = s.call
      /\ r.package = s.package
      /\ r.interval = s.interval
      /\ r.pending = s.pending
      /\ r.life = Countdown(s.life)
      /\ r.timer = Countdown(s.timer)
      /\ r.elapsed = IF s.elapsed < s.interval THEN s.elapsed + 1 ELSE s.elapsed
  BY DEF Age, Subscription
<1>3. /\ Countdown(s.life) \in 0..MaxSubscription
      /\ Countdown(s.timer) \in TimerValues
      /\ r.elapsed \in 0..MaxInterval
  BY <1>1, <1>2, IntervalsAssumption, DurationsAssumption DEF Countdown, TimerValues
<1>4. r \in Subscription
  BY <1>3, <1>2 DEF Age, Subscription
<1>5. Expired(s) => Expired(r)
  BY <1>2 DEF Expired, Countdown
<1>6. Timed(r, IF since < MaxInterval THEN since + 1 ELSE since)
  BY <1>1, <1>2, IntervalsAssumption DEF Timed, Armed, Countdown, TimerValues
<1> QED
  BY <1>2, <1>4, <1>5, <1>6

----
\* The invariant, regrouped by what the actions disturb.

\* The subscription of c.
RowInv(c) ==
    /\ subs[c] \in Subscription
    /\ subs[c].call = c
    /\ Timed(subs[c], quiet[c])
    /\ Ordered(subs[c], seen[c][subs[c].package],
                published[subs[c].package], latest[subs[c].package])

TableInv ==
    /\ DOMAIN subs \subseteq CallIds
    /\ subs = [c \in DOMAIN subs |-> subs[c]]
    /\ \A c \in DOMAIN subs : RowInv(c)

\* What was announced and what was sent.
HistoryInv ==
    /\ seen \in [CallIds -> [Packages -> 0..MaxVersion]]
    /\ quiet \in [CallIds -> 0..MaxInterval]
    /\ wire \subseteq Notifies
    /\ \A c \in CallIds, p \in Packages : seen[c][p] <= latest[p]

StoreInv ==
    /\ latest \in [Packages -> Versions]
    /\ published \in [Packages -> Versions]
    /\ \A p \in Packages : published[p] <= latest[p]

OrphanInv == orphans \subseteq Subscription /\ OrphansExpired

PhaseInv == phase \in {"new", "running", "stopping", "stopped"}

\* IInv is these parts together.
LEMMA IInvParts ==
    IInv => TableInv /\ HistoryInv /\ StoreInv /\ OrphanInv /\ PhaseInv
<1> SUFFICES ASSUME IInv PROVE TableInv /\ HistoryInv /\ StoreInv /\ OrphanInv /\ PhaseInv
  OBVIOUS
<1>1. HistoryInv /\ StoreInv /\ OrphanInv /\ PhaseInv
  BY DEF IInv, TypeOK, OrderInv, HistoryInv, StoreInv, OrphanInv, PhaseInv
<1>2. /\ DOMAIN subs \subseteq CallIds
      /\ subs = [c \in DOMAIN subs |-> subs[c]]
      /\ \A c \in DOMAIN subs : subs[c] \in Subscription
  BY DEF IInv, TypeOK
<1>3. ASSUME NEW c \in DOMAIN subs PROVE RowInv(c)
  <2>1. Timed(subs[c], quiet[c])
    BY DEF IInv, TimingInv, Timed
  <2>2. subs[c].call = c /\ Ordered(subs[c], seen[c][subs[c].package],
                published[subs[c].package], latest[subs[c].package])
    BY DEF IInv, OrderInv, Newest, Ordered
  <2> QED
    BY <1>2, <2>1, <2>2 DEF RowInv
<1> QED
  BY <1>1, <1>2, <1>3 DEF TableInv

\* And the parts together are IInv, in the next state too.
LEMMA PartsIInv ==
    ASSUME TableInv', HistoryInv', StoreInv', OrphanInv', PhaseInv'
    PROVE  IInv'
<1>1. TypeOK'
  BY DEF TypeOK, TableInv, RowInv, HistoryInv, StoreInv, OrphanInv, PhaseInv
<1>2. TimingInv'
  BY DEF TimingInv, TableInv, RowInv, Timed
<1>3. OrderInv'
  BY DEF OrderInv, TableInv, RowInv, Ordered, Newest, HistoryInv, StoreInv
<1> QED
  BY <1>1, <1>2, <1>3 DEF IInv, OrphanInv

\* Sending nothing.
LEMMA SendNothingEffect ==
    ASSUME HistoryInv, SendNothing, latest' = latest
    PROVE  HistoryInv'
BY DEF HistoryInv, SendNothing

----
\* Each action keeps the invariant.

\* The empty table of a new SipNotifier satisfies the invariant.
LEMMA InitEstablishes == Init => IInv
<1> SUFFICES ASSUME Init PROVE IInv
  OBVIOUS
<1>1. DOMAIN subs = {}
  BY DEF Init
<1>2. subs \in [{} -> Subscription]
  BY DEF Init
<1>3. \E calls \in SUBSET CallIds : subs \in [calls -> Subscription]
  BY <1>2
<1>4. /\ latest \in [Packages -> Versions]
      /\ published \in [Packages -> Versions]
      /\ seen \in [CallIds -> [Packages -> 0..MaxVersion]]
      /\ quiet \in [CallIds -> 0..MaxInterval]
  BY BoundsAssumption, IntervalsAssumption DEF Init, Versions
<1>5. TypeOK
  BY <1>3, <1>4 DEF Init, TypeOK
<1>6. TimingInv /\ OrphansExpired
  BY <1>1 DEF Init, TimingInv, OrphansExpired
<1>7. OrderInv
  BY <1>1 DEF Init, OrderInv
<1> QED
  BY <1>5, <1>6, <1>7 DEF IInv

\* A subscription whose history and whose package's state do not change keeps its row.
LEMMA RowUntouched ==
    ASSUME NEW c \in CallIds, RowInv(c), subs'[c] = subs[c], quiet'[c] = quiet[c],
           seen'[c][subs[c].package] = seen[c][subs[c].package],
           published'[subs[c].package] = published[subs[c].package],
           latest'[subs[c].package] = latest[subs[c].package]
    PROVE  RowInv(c)'
BY DEF RowInv

\* A row is right after a delivery of the newest body sent on it.
LEMMA RowDelivered ==
    ASSUME NEW c \in CallIds, NEW s \in Subscription, NEW onLoop \in BOOLEAN,
           s.call = c, subs'[c] = DeliverNotify(s, onLoop), quiet'[c] = 0,
           ~Expired(s) => seen'[c][s.package] >= published'[s.package]
    PROVE  RowInv(c)'
<1> DEFINE r == DeliverNotify(s, onLoop)
<1>1. /\ r \in Subscription
      /\ SameSubscription(r, s)
      /\ r.pending = NoBody
  BY DeliverNotifyEffect
<1>2. Timed(r, 0)
  BY DeliveredIsTimed
<1> HIDE DEF r
<1>3. subs'[c] = r
  BY DEF r
<1> QED
  BY <1>1, <1>2, <1>3 DEF RowInv, Ordered, SameSubscription, Expired

\* The fresh subscription of a SUBSCRIBE.
LEMMA NewSubscriptionType ==
    ASSUME NEW c \in CallIds, NEW p \in Packages, NEW interval \in Intervals,
           NEW expires \in ExpiresHeaders, expires # 0,
           Requested(expires) >= MinSubscription
    PROVE  /\ NewSubscription(c, p, interval, expires) \in Subscription
           /\ ~Expired(NewSubscription(c, p, interval, expires))
<1>1. Negotiated(expires) \in 1..MaxSubscription
  BY ExpiresAssumption, DurationsAssumption DEF Negotiated, Requested, NoExpires
<1>2. 0 \in 0..MaxInterval /\ NoTimer \in TimerValues /\ NoBody \in 0..MaxVersion
  BY IntervalsAssumption, BoundsAssumption DEF TimerValues
<1> QED
  BY <1>1, <1>2, DurationsAssumption DEF NewSubscription, Subscription, Expired

\* handle_subscribe: the new row has just been sent the current state.
LEMMA SubscribeKeeps ==
    ASSUME IInv, NEW c \in CallIds, NEW p \in Packages, NEW interval \in Intervals,
           NEW expires \in ExpiresHeaders, NEW onLoop \in BOOLEAN,
           Subscribe(c, p, interval, expires, onLoop)
    PROVE  IInv'
<1> DEFINE new == NewSubscription(c, p, interval, expires)
<1>1. TableInv /\ HistoryInv /\ StoreInv /\ OrphanInv /\ PhaseInv
  BY IInvParts
<1>2. latest[p] \in 0..MaxVersion /\ latest[p] >= published[p]
  BY <1>1, BoundsAssumption DEF StoreInv, Versions
<1>3. /\ seen' \in [CallIds -> [Packages -> 0..MaxVersion]]
      /\ quiet' \in [CallIds -> 0..MaxInterval]
      /\ wire' \subseteq Notifies
      /\ \A d \in CallIds : quiet'[d] = IF d = c THEN 0 ELSE quiet[d]
      /\ \A d \in CallIds, q \in Packages :
           seen'[d][q] = IF d = c /\ q = p THEN latest[p] ELSE seen[d][q]
  <2>1. wire' \subseteq Notifies
    BY DEF Subscribe, Send, Notifies, Causes
  <2>2. /\ quiet' \in [CallIds -> 0..MaxInterval]
        /\ \A d \in CallIds : quiet'[d] = IF d = c THEN 0 ELSE quiet[d]
    BY <1>1, IntervalsAssumption DEF Subscribe, Send, HistoryInv
  <2>3. /\ seen' \in [CallIds -> [Packages -> 0..MaxVersion]]
        /\ \A d \in CallIds, q \in Packages :
             seen'[d][q] = IF d = c /\ q = p THEN latest[p] ELSE seen[d][q]
    BY <1>1, <1>2 DEF Subscribe, Send, HistoryInv
  <2> QED
    BY <2>1, <2>2, <2>3
<1>4. HistoryInv'
  BY <1>1, <1>3 DEF HistoryInv, Subscribe
<1>5. StoreInv' /\ OrphanInv' /\ PhaseInv'
  BY <1>1 DEF Subscribe, StoreInv, OrphanInv, OrphansExpired, PhaseInv
<1>6. /\ new \in Subscription
      /\ new.call = c /\ new.package = p
  BY NewSubscriptionType DEF Subscribe, NewSubscription
<1> HIDE DEF new
<1>7. subs' = [d \in DOMAIN subs \cup {c} |->
                 IF d = c THEN DeliverNotify(new, onLoop) ELSE subs[d]]
  BY DEF Subscribe, new
<1>8. RowInv(c)'
  BY <1>2, <1>3, <1>6, <1>7, RowDelivered DEF Subscribe
<1>9. ASSUME NEW d \in DOMAIN subs, d # c PROVE RowInv(d)'
  <2>1. d \in CallIds /\ RowInv(d) /\ subs[d].package \in Packages
    BY <1>1 DEF TableInv, RowInv, Subscription
  <2> QED
    BY <1>3, <1>7, <1>9, <2>1, RowUntouched DEF Subscribe
<1>10. TableInv'
  BY <1>1, <1>7, <1>8, <1>9 DEF TableInv
<1> QED
  BY <1>4, <1>5, <1>10, PartsIInv

\* The actions that only take rows out of the table.
LEMMA ShrinkingKeeps ==
    ASSUME IInv, NEW S \in SUBSET DOMAIN subs, subs' = [c \in S |-> subs[c]],
           SendNothing, UNCHANGED <<latest, published, orphans, phase>>
    PROVE  IInv'
<1>1. TableInv /\ HistoryInv /\ StoreInv /\ OrphanInv /\ PhaseInv
  BY IInvParts
<1>2. HistoryInv' /\ StoreInv' /\ OrphanInv' /\ PhaseInv'
  BY <1>1, SendNothingEffect DEF StoreInv, OrphanInv, OrphansExpired, PhaseInv
<1>3. ASSUME NEW c \in S PROVE RowInv(c)'
  BY <1>1, RowUntouched DEF TableInv, SendNothing
<1>4. TableInv'
  BY <1>1, <1>3 DEF TableInv
<1> QED
  BY <1>2, <1>4, PartsIInv

\* Expires 0: the rows that stay are untouched.
LEMMA UnsubscribeKeeps == ASSUME IInv, NEW c \in CallIds, Unsubscribe(c) PROVE IInv'
BY ShrinkingKeeps DEF Unsubscribe

\* The cleanup loop only removes rows.
LEMMA CleanupKeeps == IInv /\ Cleanup => IInv'
<1> SUFFICES ASSUME IInv, Cleanup PROVE IInv'
  OBVIOUS
<1> DEFINE S == {d \in DOMAIN subs : ~Expired(subs[d])}
<1>1. S \in SUBSET DOMAIN subs /\ subs' = [c \in S |-> subs[c]]
  BY DEF Cleanup
<1> HIDE DEF S
<1> QED
  BY <1>1, ShrinkingKeeps DEF Cleanup

\* A fan-out of version v of p, subscription by subscription.
FannedOut(p, v, onLoop) ==
    LET Matches(c) == subs[c].package = p
        Sent(c) == c \in DOMAIN subs /\ ~Expired(subs[c]) /\ Matches(c) /\ WindowPassed(subs[c])
    IN  /\ subs' = [c \in DOMAIN subs' |-> subs'[c]]
        /\ \A c : c \in DOMAIN subs' <=> c \in DOMAIN subs /\ ~Expired(subs[c])
        /\ \A c \in DOMAIN subs' :
             subs'[c] = IF Matches(c) THEN RateFilteredDeliver(subs[c], v, onLoop)
                        ELSE subs[c]
        /\ orphans' = orphans \cup
             {subs[c] : c \in {d \in DOMAIN subs : Expired(subs[d]) /\ Armed(subs[d])}}
        /\ wire' \subseteq Notifies
        /\ quiet' \in [CallIds -> 0..MaxInterval]
        /\ \A c \in CallIds : quiet'[c] = IF Sent(c) THEN 0 ELSE quiet[c]
        /\ seen' \in [CallIds -> [Packages -> 0..MaxVersion]]
        /\ \A c \in CallIds, q \in Packages :
             seen'[c][q] = IF Sent(c) /\ q = p THEN v ELSE seen[c][q]

\* A fan-out keeps the invariant if it carries the newest version, which is announced
\* by it.
LEMMA FanOutKeeps ==
    ASSUME IInv, NEW p \in Packages, NEW v \in Versions, NEW onLoop \in BOOLEAN,
           FannedOut(p, v, onLoop), StoreInv', v >= latest[p],
           latest'[p] = v, published'[p] = v,
           \A q \in Packages \ {p} : latest'[q] = latest[q] /\ published'[q] = published[q],
           phase' = phase
    PROVE  IInv'
<1>1. TableInv /\ HistoryInv /\ StoreInv /\ OrphanInv /\ PhaseInv
  BY IInvParts
<1>2. PhaseInv'
  BY <1>1 DEF PhaseInv
<1>3. OrphanInv'
  BY <1>1 DEF FannedOut, OrphanInv, OrphansExpired, TableInv, RowInv
<1>4. \A q \in Packages : latest[q] \in Nat /\ latest'[q] \in Nat /\ latest'[q] >= latest[q]
  BY <1>1, BoundsAssumption DEF StoreInv, Versions
<1>5. \A c \in CallIds, q \in Packages : seen[c][q] \in Nat /\ seen[c][q] <= latest[q]
  BY <1>1, BoundsAssumption DEF HistoryInv
<1>6. HistoryInv'
  <2>1. /\ seen' \in [CallIds -> [Packages -> 0..MaxVersion]]
        /\ quiet' \in [CallIds -> 0..MaxInterval]
        /\ wire' \subseteq Notifies
    BY DEF FannedOut
  <2>2. ASSUME NEW c \in CallIds, NEW q \in Packages PROVE seen'[c][q] <= latest'[q]
    <3>1. seen'[c][q] = seen[c][q] \/ (q = p /\ seen'[c][q] = v)
      BY DEF FannedOut
    <3> QED
      BY <1>4, <1>5, <3>1
  <2> QED
    BY <2>1, <2>2 DEF HistoryInv
<1>7. ASSUME NEW c \in DOMAIN subs, ~Expired(subs[c]) PROVE RowInv(c)'
  <2> DEFINE s == subs[c]
  <2>1. /\ c \in CallIds
        /\ s \in Subscription
        /\ s.call = c
        /\ Timed(s, quiet[c])
        /\ Ordered(s, seen[c][s.package], published[s.package], latest[s.package])
    BY <1>1 DEF TableInv, RowInv
  <2>2. s.package \in Packages /\ quiet[c] \in Nat
    BY <1>1, <2>1, IntervalsAssumption DEF Subscription, HistoryInv
  <2>3. c \in DOMAIN subs'
    BY <1>7 DEF FannedOut
  <2> HIDE DEF s
  <2>4. CASE s.package # p
    <3>1. subs'[c] = s /\ quiet'[c] = quiet[c] /\ seen'[c][s.package] = seen[c][s.package]
      BY <2>1, <2>2, <2>3, <2>4 DEF FannedOut, s
    <3>2. published'[s.package] = published[s.package] /\ latest'[s.package] = latest[s.package]
      BY <2>2, <2>4
    <3> QED
      BY <2>1, <3>1, <3>2 DEF RowInv
  <2>5. CASE s.package = p /\ WindowPassed(s)
    <3>1. /\ subs'[c] = DeliverNotify(s, onLoop)
          /\ quiet'[c] = 0
          /\ seen'[c][p] = v
      BY <1>7, <2>1, <2>3, <2>5 DEF FannedOut, s, RateFilteredDeliver
    <3> QED
      BY <2>1, <2>5, <3>1, RowDelivered DEF Versions
  <2>6. CASE s.package = p /\ ~WindowPassed(s)
    <3>1. /\ subs'[c] = RateFilteredDeliver(s, v, onLoop)
          /\ quiet'[c] = quiet[c]
          /\ seen'[c][p] = seen[c][p]
      BY <2>1, <2>3, <2>6 DEF FannedOut, s
    <3>2. /\ subs'[c] \in Subscription
          /\ SameSubscription(subs'[c], s)
          /\ subs'[c].pending = v
          /\ Timed(subs'[c], quiet[c])
      BY <2>1, <2>2, <2>6, <3>1, QueueEffect
    <3>3. v \in seen[c][p]..v /\ v >= v /\ v # NoBody
      BY <1>4, <1>5, <2>1 DEF Versions
    <3> QED
      BY <2>1, <2>6, <3>1, <3>2, <3>3 DEF RowInv, Ordered, SameSubscription
  <2> QED
    BY <2>4, <2>5, <2>6
<1>8. TableInv'
  BY <1>1, <1>7 DEF TableInv, FannedOut
<1> QED
  BY <1>2, <1>3, <1>6, <1>8, PartsIInv

\* FanOut does what FannedOut says.
LEMMA FanOutEffect ==
    ASSUME IInv, NEW p \in Packages, NEW v \in Versions, NEW onLoop \in BOOLEAN,
           FanOut(p, v, onLoop)
    PROVE  FannedOut(p, v, onLoop)
<1>1. HistoryInv /\ TableInv
  BY IInvParts
<1>2. v \in 0..MaxVersion
  BY BoundsAssumption DEF Versions
<1>3. /\ wire' \subseteq Notifies
      /\ quiet' \in [CallIds -> 0..MaxInterval]
      /\ seen' \in [CallIds -> [Packages -> 0..MaxVersion]]
  <2>1. wire' \subseteq Notifies
    BY <1>1 DEF FanOut, Send, Notifies, Causes, TableInv
  <2>2. quiet' \in [CallIds -> 0..MaxInterval]
    BY <1>1, IntervalsAssumption DEF FanOut, Send, HistoryInv
  <2>3. seen' \in [CallIds -> [Packages -> 0..MaxVersion]]
    BY <1>1, <1>2 DEF FanOut, Send, HistoryInv
  <2> QED
    BY <2>1, <2>2, <2>3
<1>4. /\ subs' = [c \in DOMAIN subs' |-> subs'[c]]
      /\ \A c : c \in DOMAIN subs' <=> c \in DOMAIN subs /\ ~Expired(subs[c])
      /\ \A c \in DOMAIN subs' :
           subs'[c] = IF subs[c].package = p THEN RateFilteredDeliver(subs[c], v, onLoop)
                      ELSE subs[c]
  BY DEF FanOut
<1>5. orphans' = orphans \cup
        {subs[c] : c \in {d \in DOMAIN subs : Expired(subs[d]) /\ Armed(subs[d])}}
  BY DEF FanOut
<1>6. \A c \in CallIds :
        quiet'[c] = IF /\ c \in DOMAIN subs /\ ~Expired(subs[c])
                       /\ subs[c].package = p /\ WindowPassed(subs[c])
                    THEN 0 ELSE quiet[c]
  BY DEF FanOut, Send
<1>7. \A c \in CallIds, q \in Packages :
        seen'[c][q] = IF /\ c \in DOMAIN subs /\ ~Expired(subs[c])
                         /\ subs[c].package = p /\ WindowPassed(subs[c])
                         /\ q = p
                      THEN v ELSE seen[c][q]
  BY <1>1 DEF FanOut, Send, HistoryInv
<1> QED
  BY <1>3, <1>4, <1>5, <1>6, <1>7 DEF FannedOut

\* A change announced at once, to live rows of its package.
LEMMA ChangeAnnouncedKeeps ==
    ASSUME IInv, NEW p \in Packages, NEW onLoop \in BOOLEAN, ChangeAnnounced(p, onLoop)
    PROVE  IInv'
<1>1. StoreInv
  BY IInvParts
<1>2. PICK v \in Versions : v = latest[p] + 1
  BY <1>1, BoundsAssumption DEF StoreInv, Versions, ChangeAnnounced
<1>3. latest' = [latest EXCEPT ![p] = v] /\ published' = [published EXCEPT ![p] = v]
  BY <1>2 DEF ChangeAnnounced
<1>4. /\ v >= latest[p] /\ v >= v
      /\ latest'[p] = v /\ published'[p] = v
      /\ \A q \in Packages \ {p} : latest'[q] = latest[q] /\ published'[q] = published[q]
  BY <1>1, <1>2, <1>3 DEF StoreInv, Versions
<1>5. StoreInv'
  BY <1>1, <1>3, <1>4 DEF StoreInv
<1>6. FanOut(p, v, onLoop)
  BY <1>2 DEF ChangeAnnounced
<1> QED
  BY <1>4, <1>5, <1>6, FanOutEffect, FanOutKeeps DEF ChangeAnnounced

\* A deferred or repeated announcement of the current state.
LEMMA AnnounceKeeps ==
    ASSUME IInv, NEW p \in Packages, NEW onLoop \in BOOLEAN, Announce(p, onLoop)
    PROVE  IInv'
<1>1. StoreInv
  BY IInvParts
<1>2. PICK v \in Versions : v = latest[p]
  BY <1>1 DEF StoreInv
<1>3. latest' = latest /\ published' = [published EXCEPT ![p] = v]
  BY <1>2 DEF Announce
<1>4. /\ v >= latest[p] /\ v >= v
      /\ latest'[p] = v /\ published'[p] = v
      /\ \A q \in Packages \ {p} : latest'[q] = latest[q] /\ published'[q] = published[q]
  BY <1>1, <1>2, <1>3 DEF StoreInv, Versions
<1>5. StoreInv'
  BY <1>1, <1>3, <1>4 DEF StoreInv
<1>6. FanOut(p, v, onLoop)
  BY <1>2 DEF Announce
<1> QED
  BY <1>4, <1>5, <1>6, FanOutEffect, FanOutKeeps DEF Announce

\* A deferred change only moves the store ahead.
LEMMA ChangeDeferredKeeps ==
    ASSUME IInv, NEW p \in Packages, ChangeDeferred(p) PROVE IInv'
<1>1. TableInv /\ HistoryInv /\ StoreInv /\ OrphanInv /\ PhaseInv
  BY IInvParts
<1>2. \A q \in Packages : latest'[q] \in Versions /\ latest[q] \in Versions
                          /\ latest'[q] >= latest[q]
  BY <1>1, BoundsAssumption DEF StoreInv, Versions, ChangeDeferred
<1>3. StoreInv'
  BY <1>1, <1>2 DEF StoreInv, ChangeDeferred, Versions
<1>4. HistoryInv'
  BY <1>1, <1>2, BoundsAssumption DEF HistoryInv, ChangeDeferred, SendNothing, Versions
<1>5. OrphanInv' /\ PhaseInv'
  BY <1>1 DEF OrphanInv, OrphansExpired, PhaseInv, ChangeDeferred
<1>6. ASSUME NEW c \in DOMAIN subs PROVE RowInv(c)'
  <2> DEFINE s == subs[c]
             q == s.package
  <2>1. /\ c \in CallIds
        /\ s \in Subscription
        /\ s.call = c
        /\ Timed(s, quiet[c])
        /\ Ordered(s, seen[c][q], published[q], latest[q])
    BY <1>1 DEF TableInv, RowInv
  <2>2. q \in Packages /\ s.pending \in Nat /\ seen[c][q] \in Nat
    BY <1>1, <2>1, BoundsAssumption DEF Subscription, HistoryInv
  <2>3. UNCHANGED <<subs, seen, quiet, published>>
    BY DEF ChangeDeferred, SendNothing
  <2> HIDE DEF s
  <2>4. Ordered(s, seen[c][q], published[q], latest'[q])
    BY <1>2, <2>1, <2>2 DEF Ordered, Versions
  <2> QED
    BY <2>1, <2>3, <2>4 DEF RowInv, s
<1>7. TableInv'
  BY <1>1, <1>6 DEF TableInv, ChangeDeferred
<1> QED
  BY <1>3, <1>4, <1>5, <1>7, PartsIInv

\* The body a timer sends is not older than what was sent or announced before.
LEMMA TimerBodyIsNewest ==
    ASSUME IInv, NEW c \in DOMAIN subs, NEW body, body = TimerBody(subs[c])
    PROVE  /\ body \in 0..MaxVersion
           /\ body >= seen[c][subs[c].package]
           /\ body <= latest[subs[c].package]
           /\ ~Expired(subs[c]) => body >= published[subs[c].package]
<1> DEFINE s == subs[c]
           q == s.package
<1>1. /\ c \in CallIds
      /\ s \in Subscription
      /\ Ordered(s, seen[c][q], published[q], latest[q])
  BY IInvParts DEF TableInv, RowInv
<1>2. HistoryInv /\ StoreInv
  BY IInvParts
<1>3. q \in Packages /\ s.pending \in 0..MaxVersion
  BY <1>1 DEF Subscription
<1>4. /\ seen[c][q] \in Nat /\ latest[q] \in 0..MaxVersion /\ published[q] \in Nat
      /\ seen[c][q] <= latest[q] /\ published[q] <= latest[q]
  BY <1>1, <1>2, <1>3, BoundsAssumption DEF HistoryInv, StoreInv, Versions
<1>5. body = IF s.pending # NoBody THEN s.pending ELSE latest[q]
  BY DEF TimerBody
<1> HIDE DEF s
<1>6. /\ body \in 0..MaxVersion /\ body >= seen[c][q] /\ body <= latest[q]
      /\ ~Expired(s) => body >= published[q]
  BY <1>1, <1>3, <1>4, <1>5, BoundsAssumption DEF Ordered
<1> QED
  BY <1>6 DEF s

\* A timer that finds its subscription expired only gives its handle back.
LEMMA ExpiredTimerKeeps ==
    ASSUME IInv, NEW c \in DOMAIN subs, subs[c].timer = 0,
           subs' = [subs EXCEPT ![c].timer = NoTimer],
           SendNothing, UNCHANGED <<latest, published, orphans, phase>>
    PROVE  IInv'
<1>1. TableInv /\ HistoryInv /\ StoreInv /\ OrphanInv /\ PhaseInv
  BY IInvParts
<1>2. HistoryInv' /\ StoreInv' /\ OrphanInv' /\ PhaseInv'
  BY <1>1, SendNothingEffect DEF StoreInv, OrphanInv, OrphansExpired, PhaseInv
<1>3. RowInv(c)'
  <2> DEFINE s == subs[c]
             r == [s EXCEPT !.timer = NoTimer]
  <2>1. c \in CallIds /\ s \in Subscription /\ RowInv(c)
    BY <1>1 DEF TableInv, RowInv
  <2>2. /\ r \in Subscription /\ SameSubscription(r, s)
        /\ r.elapsed = s.elapsed /\ r.pending = s.pending /\ r.timer = NoTimer
    BY <2>1 DEF Subscription, SameSubscription, TimerValues
  <2>3. subs'[c] = r
    OBVIOUS
  <2> HIDE DEF r
  <2> QED
    BY <2>1, <2>2, <2>3
    DEF RowInv, Timed, Armed, Ordered, Expired, SameSubscription, SendNothing
<1>4. ASSUME NEW d \in DOMAIN subs, d # c PROVE RowInv(d)'
  <2>1. d \in CallIds /\ RowInv(d) /\ subs'[d] = subs[d]
    BY <1>1, <1>4 DEF TableInv
  <2> QED
    BY <2>1 DEF RowInv, SendNothing
<1>5. TableInv'
  BY <1>1, <1>3, <1>4 DEF TableInv
<1> QED
  BY <1>2, <1>5, PartsIInv

\* A timer that sends.
LEMMA SendingTimerKeeps ==
    ASSUME IInv, NEW c \in DOMAIN subs, subs[c].timer = 0, ~Expired(subs[c]),
           subs' = [subs EXCEPT ![c] = DeliverNotify(@, TRUE)],
           Send({c}, subs[c].package, TimerBody(subs[c]), "timer"),
           UNCHANGED <<latest, published, orphans, phase>>
    PROVE  IInv'
<1>1. TableInv /\ HistoryInv /\ StoreInv /\ OrphanInv /\ PhaseInv
  BY IInvParts
<1>2. StoreInv' /\ OrphanInv' /\ PhaseInv'
  BY <1>1 DEF StoreInv, OrphanInv, OrphansExpired, PhaseInv
<1>3. c \in CallIds /\ subs[c] \in Subscription /\ subs[c].call = c
      /\ subs[c].package \in Packages
  BY <1>1 DEF TableInv, RowInv, Subscription
<1>4. PICK p \in Packages : p = subs[c].package
  BY <1>3
<1>5. PICK body \in 0..MaxVersion : body = TimerBody(subs[c])
  BY TimerBodyIsNewest
<1>6. body <= latest[p] /\ body >= published[p]
  BY <1>4, <1>5, TimerBodyIsNewest
<1>7. /\ seen' \in [CallIds -> [Packages -> 0..MaxVersion]]
      /\ \A d \in CallIds, q \in Packages :
           seen'[d][q] = IF d = c /\ q = p THEN body ELSE seen[d][q]
  BY <1>1, <1>4, <1>5 DEF Send, HistoryInv
<1>8. /\ quiet' \in [CallIds -> 0..MaxInterval]
      /\ \A d \in CallIds : quiet'[d] = IF d = c THEN 0 ELSE quiet[d]
  BY <1>1, IntervalsAssumption DEF Send, HistoryInv
<1>9. wire' \subseteq Notifies
  BY <1>3 DEF Send, Notifies, Causes
<1>10. HistoryInv'
  BY <1>1, <1>6, <1>7, <1>8, <1>9 DEF HistoryInv
<1>11. RowInv(c)'
  BY <1>3, <1>4, <1>6, <1>7, <1>8, RowDelivered
<1>12. ASSUME NEW d \in DOMAIN subs, d # c PROVE RowInv(d)'
  <2>1. d \in CallIds /\ RowInv(d) /\ subs'[d] = subs[d] /\ subs[d].package \in Packages
    BY <1>1, <1>12 DEF TableInv, RowInv, Subscription
  <2> QED
    BY <1>7, <1>8, <1>12, <2>1, RowUntouched
<1>13. TableInv'
  BY <1>1, <1>11, <1>12 DEF TableInv
<1> QED
  BY <1>2, <1>10, <1>13, PartsIInv

\* A timer of the table sends what is queued, or the current state.
LEMMA TimerFiredKeeps == ASSUME IInv, NEW c \in CallIds, TimerFired(c) PROVE IInv'
<1>1. CASE /\ Expired(subs[c])
           /\ subs' = [subs EXCEPT ![c].timer = NoTimer]
           /\ SendNothing
  BY <1>1, ExpiredTimerKeeps DEF TimerFired
<1>2. CASE /\ ~Expired(subs[c])
           /\ subs' = [subs EXCEPT ![c] = DeliverNotify(@, TRUE)]
           /\ Send({c}, subs[c].package, TimerBody(subs[c]), "timer")
  BY <1>2, SendingTimerKeeps DEF TimerFired
<1> QED
  BY <1>1, <1>2 DEF TimerFired

\* An orphan's timer finds it expired, so it never sends.
LEMMA OrphanTimerFiredKeeps ==
    ASSUME IInv, NEW s \in orphans, OrphanTimerFired(s)
    PROVE  IInv' /\ wire' = {}
<1>1. TableInv /\ HistoryInv /\ StoreInv /\ OrphanInv /\ PhaseInv
  BY IInvParts
<1>2. Expired(s)
  BY <1>1 DEF OrphanInv, OrphansExpired
<1>3. orphans' = orphans \ {s} /\ SendNothing
  BY <1>2 DEF OrphanTimerFired
<1>4. HistoryInv' /\ StoreInv' /\ OrphanInv' /\ PhaseInv'
  BY <1>1, <1>3, SendNothingEffect
  DEF OrphanTimerFired, StoreInv, OrphanInv, OrphansExpired, PhaseInv
<1>5. TableInv'
  BY <1>1, <1>3 DEF OrphanTimerFired, SendNothing, TableInv, RowInv
<1> QED
  BY <1>3, <1>4, <1>5, PartsIInv DEF SendNothing

\* start() and the first half of stop() touch no row.
LEMMA StartKeeps == IInv /\ (Start \/ StopCleanup) => IInv'
<1> SUFFICES ASSUME IInv, Start \/ StopCleanup PROVE IInv'
  OBVIOUS
<1>1. TableInv /\ HistoryInv /\ StoreInv /\ OrphanInv /\ PhaseInv
  BY IInvParts
<1>2. HistoryInv' /\ StoreInv' /\ OrphanInv' /\ PhaseInv'
  BY <1>1, SendNothingEffect
  DEF Start, StopCleanup, StoreInv, OrphanInv, OrphansExpired, PhaseInv
<1>3. TableInv'
  BY <1>1 DEF Start, StopCleanup, SendNothing, TableInv, RowInv
<1> QED
  BY <1>2, <1>3, PartsIInv

\* A cancelled timer is not armed.
LEMMA StopTimersKeeps == IInv /\ StopTimers => IInv'
<1> SUFFICES ASSUME IInv, StopTimers PROVE IInv'
  OBVIOUS
<1>1. TableInv /\ HistoryInv /\ StoreInv /\ OrphanInv /\ PhaseInv
  BY IInvParts
<1>2. HistoryInv' /\ StoreInv' /\ OrphanInv' /\ PhaseInv'
  BY <1>1, SendNothingEffect
  DEF StopTimers, StoreInv, OrphanInv, OrphansExpired, PhaseInv
<1>3. ASSUME NEW c \in DOMAIN subs PROVE RowInv(c)'
  <2> DEFINE s == subs[c]
             r == [s EXCEPT !.timer = CancelledTimer]
  <2>1. c \in CallIds /\ s \in Subscription /\ RowInv(c)
    BY <1>1 DEF TableInv, RowInv
  <2>2. /\ r \in Subscription /\ SameSubscription(r, s)
        /\ r.elapsed = s.elapsed /\ r.pending = s.pending /\ r.timer = CancelledTimer
    BY <2>1 DEF Subscription, SameSubscription, TimerValues
  <2>3. subs'[c] = r \/ subs'[c] = s
    BY DEF StopTimers
  <2> HIDE DEF r
  <2>4. UNCHANGED <<seen, quiet, latest, published>>
    BY DEF StopTimers, SendNothing
  <2> QED
    BY <2>1, <2>2, <2>3, <2>4
    DEF RowInv, Timed, Armed, Ordered, Expired, SameSubscription
<1>4. TableInv'
  BY <1>1, <1>3 DEF TableInv, StopTimers
<1> QED
  BY <1>2, <1>4, PartsIInv

\* The passing of time.
LEMMA TickKeeps == IInv /\ Tick => IInv'
<1> SUFFICES ASSUME IInv, Tick PROVE IInv'
  OBVIOUS
<1>1. TableInv /\ HistoryInv /\ StoreInv /\ OrphanInv /\ PhaseInv
  BY IInvParts
<1>2. StoreInv' /\ PhaseInv'
  BY <1>1 DEF Tick, StoreInv, PhaseInv
<1>3. /\ quiet' \in [CallIds -> 0..MaxInterval]
      /\ \A c \in CallIds :
           quiet'[c] = IF quiet[c] < MaxInterval THEN quiet[c] + 1 ELSE quiet[c]
  BY <1>1, IntervalsAssumption DEF Tick, HistoryInv
<1>4. HistoryInv'
  BY <1>1, <1>3 DEF Tick, HistoryInv
<1>5. OrphanInv'
  <2>1. ASSUME NEW s \in orphans PROVE Age(s) \in Subscription /\ Expired(Age(s))
    <3>1. s \in Subscription /\ Expired(s)
      BY <1>1 DEF OrphanInv, OrphansExpired
    <3>2. Countdown(s.life) \in 0..MaxSubscription /\ Countdown(s.timer) \in TimerValues
      BY <3>1, IntervalsAssumption, DurationsAssumption
      DEF Subscription, Countdown, TimerValues
    <3>3. (IF s.elapsed < s.interval THEN s.elapsed + 1 ELSE s.elapsed) \in 0..MaxInterval
      BY <3>1, IntervalIsNat, IntervalsAssumption DEF Subscription
    <3>4. Age(s) \in Subscription
      BY <3>1, <3>2, <3>3 DEF Age, Subscription
    <3>5. Expired(Age(s))
      BY <3>1 DEF Age, Expired, Subscription, Countdown
    <3> QED
      BY <3>4, <3>5
  <2> QED
    BY <2>1 DEF Tick, OrphanInv, OrphansExpired
<1>6. ASSUME NEW c \in DOMAIN subs PROVE RowInv(c)'
  <2> DEFINE s == subs[c]
             r == Age(s)
  <2>1. /\ c \in CallIds
        /\ s \in Subscription
        /\ s.call = c
        /\ Timed(s, quiet[c])
        /\ Ordered(s, seen[c][s.package], published[s.package], latest[s.package])
        /\ quiet[c] \in 0..MaxInterval
    BY <1>1 DEF TableInv, RowInv, HistoryInv
  <2>2. subs'[c] = r /\ UNCHANGED <<seen, latest, published>>
    BY DEF Tick
  <2> HIDE DEF s, r
  <2>3. /\ r \in Subscription
        /\ r.call = s.call
        /\ r.package = s.package
        /\ r.pending = s.pending
        /\ Expired(s) => Expired(r)
        /\ Timed(r, IF quiet[c] < MaxInterval THEN quiet[c] + 1 ELSE quiet[c])
    BY <2>1, AgeEffect DEF r
  <2>4. Timed(r, quiet'[c])
    BY <1>3, <2>1, <2>3
  <2>5. Ordered(r, seen[c][r.package], published[r.package], latest[r.package])
    BY <2>1, <2>3 DEF Ordered
  <2> QED
    BY <2>1, <2>2, <2>3, <2>4, <2>5 DEF RowInv
<1>7. TableInv'
  BY <1>1, <1>6 DEF TableInv, Tick
<1> QED
  BY <1>2, <1>4, <1>5, <1>7, PartsIInv

\* Every step of the notifier keeps the invariant.
LEMMA NextKeeps == IInv /\ [Next]_vars => IInv'
<1> SUFFICES ASSUME IInv, [Next]_vars PROVE IInv'
  OBVIOUS
<1>1. CASE \E c \in CallIds, p \in Packages, interval \in Intervals,
              expires \in ExpiresHeaders, onLoop \in Loops :
                Subscribe(c, p, interval, expires, onLoop)
  BY <1>1, FlagsAssumption, SubscribeKeeps
<1>2. CASE \E c \in CallIds : Unsubscribe(c)
  BY <1>2, UnsubscribeKeeps
<1>3. CASE \E p \in Packages, onLoop \in Loops : ChangeAnnounced(p, onLoop)
  BY <1>3, FlagsAssumption, ChangeAnnouncedKeeps
<1>4. CASE \E p \in Packages, onLoop \in Loops : Announce(p, onLoop)
  BY <1>4, FlagsAssumption, AnnounceKeeps
<1>5. CASE \E p \in Packages : ChangeDeferred(p)
  BY <1>5, ChangeDeferredKeeps
<1>6. CASE \E c \in CallIds : TimerFired(c)
  BY <1>6, TimerFiredKeeps
<1>7. CASE \E s \in orphans : OrphanTimerFired(s)
  BY <1>7, OrphanTimerFiredKeeps
<1>8. CASE Cleanup
  BY <1>8, CleanupKeeps
<1>9. CASE Start \/ StopCleanup
  BY <1>9, StartKeeps
<1>10. CASE StopTimers
  BY <1>10, StopTimersKeeps
<1>11. CASE Tick
  BY <1>11, TickKeeps
<1>12. CASE UNCHANGED vars
  BY <1>12 DEF vars, IInv, TypeOK, TimingInv, OrderInv, Newest, OrphansExpired
<1> QED
  BY <1>1, <1>2, <1>3, <1>4, <1>5, <1>6, <1>7, <1>8, <1>9, <1>10, <1>11, <1>12 DEF Next

----
\* The theorems.

\* The table, its timers and its queued bodies stay consistent with what clients have
\* been sent, through every interleaving of clients, changes, timers and restarts.
THEOREM Invariance == Spec => []IInv
BY InitEstablishes, NextKeeps, PTL DEF Spec

\* Every variable stays within its type: no subscription outlives the maximum, no
\* timer is set for longer than the subscription's interval.
THEOREM TypeCorrectness == Spec => []TypeOK
BY Invariance, PTL DEF IInv

\* No live subscription misses what a state notifier announced.
THEOREM NothingMissed == Spec => []NoMissedAnnouncement
<1>1. IInv => NoMissedAnnouncement
  BY DEF IInv, OrderInv, NoMissedAnnouncement
<1> QED
  BY <1>1, Invariance, PTL

\* What a step can do to the history: the NOTIFYs it sends carry nothing older than
\* what was sent before.
LEMMA StepNeverBackwards ==
    ASSUME IInv, [Next]_vars, NEW c \in CallIds, NEW p \in Packages
    PROVE  seen'[c][p] >= seen[c][p]
<1>1. TableInv /\ HistoryInv /\ StoreInv
  BY IInvParts
<1>2. /\ seen[c][p] \in Nat /\ latest[p] \in Nat /\ latest[p] \in 0..MaxVersion
      /\ seen[c][p] <= latest[p]
  BY <1>1, BoundsAssumption DEF HistoryInv, StoreInv, Versions
<1>3. CASE UNCHANGED seen
  BY <1>2, <1>3
<1>4. ASSUME NEW d \in CallIds, NEW q \in Packages, NEW interval \in Intervals,
             NEW expires \in ExpiresHeaders, NEW onLoop \in Loops,
             Subscribe(d, q, interval, expires, onLoop)
      PROVE  seen'[c][p] >= seen[c][p]
  <2>1. seen'[c][p] = seen[c][p] \/ (p = q /\ seen'[c][p] = latest[p])
    BY <1>1, <1>4 DEF Subscribe, Send, HistoryInv
  <2> QED
    BY <1>2, <2>1
<1>5. ASSUME NEW q \in Packages, NEW v \in Versions, NEW onLoop \in BOOLEAN,
             FannedOut(q, v, onLoop), v >= latest[q]
      PROVE  seen'[c][p] >= seen[c][p]
  <2>1. seen'[c][p] = seen[c][p] \/ (p = q /\ seen'[c][p] = v)
    BY <1>5 DEF FannedOut
  <2> QED
    BY <1>2, <1>5, <2>1, BoundsAssumption DEF Versions
<1>6. ASSUME NEW q \in Packages, NEW onLoop \in Loops, ChangeAnnounced(q, onLoop)
      PROVE  seen'[c][p] >= seen[c][p]
  <2>1. PICK v \in Versions : v = latest[q] + 1
    BY <1>1, <1>6, BoundsAssumption DEF StoreInv, Versions, ChangeAnnounced
  <2>2. v >= latest[q]
    BY <1>1, <2>1 DEF StoreInv, Versions
  <2>3. FanOut(q, v, onLoop)
    BY <1>6, <2>1 DEF ChangeAnnounced
  <2> QED
    BY <1>5, <2>2, <2>3, FanOutEffect, FlagsAssumption
<1>7. ASSUME NEW q \in Packages, NEW onLoop \in Loops, Announce(q, onLoop)
      PROVE  seen'[c][p] >= seen[c][p]
  <2>1. PICK v \in Versions : v = latest[q]
    BY <1>1 DEF StoreInv
  <2>2. v >= latest[q]
    BY <2>1 DEF Versions
  <2>3. FanOut(q, v, onLoop)
    BY <1>7, <2>1 DEF Announce
  <2> QED
    BY <1>5, <2>2, <2>3, FanOutEffect, FlagsAssumption
<1>8. ASSUME NEW d \in CallIds, TimerFired(d) PROVE seen'[c][p] >= seen[c][p]
  <2>1. CASE SendNothing
    BY <1>3, <2>1 DEF SendNothing
  <2>2. CASE Send({d}, subs[d].package, TimerBody(subs[d]), "timer")
    <3>1. d \in DOMAIN subs
      BY <1>8 DEF TimerFired
    <3>2. PICK body \in 0..MaxVersion : body = TimerBody(subs[d])
      BY <3>1, TimerBodyIsNewest
    <3>3. body >= seen[d][subs[d].package]
      BY <3>1, <3>2, TimerBodyIsNewest
    <3>4. seen'[c][p] = seen[c][p]
          \/ (c = d /\ p = subs[d].package /\ seen'[c][p] = body)
      BY <1>1, <2>2, <3>2 DEF Send, HistoryInv
    <3> QED
      BY <1>2, <3>3, <3>4
  <2> QED
    BY <1>8, <2>1, <2>2 DEF TimerFired
<1>9. ASSUME NEW s \in orphans, OrphanTimerFired(s) PROVE UNCHANGED seen
  BY <1>9, IInvParts DEF OrphanTimerFired, OrphanInv, OrphansExpired, SendNothing
<1>10. ASSUME \/ \E d \in CallIds : Unsubscribe(d)
              \/ \E q \in Packages : ChangeDeferred(q)
              \/ Cleanup \/ Start \/ StopCleanup \/ StopTimers \/ Tick \/ UNCHANGED vars
       PROVE  UNCHANGED seen
  BY <1>10 DEF Unsubscribe, ChangeDeferred, Cleanup, Start, StopCleanup, StopTimers,
               Tick, SendNothing, vars
<1> QED
  BY <1>3, <1>4, <1>6, <1>7, <1>8, <1>9, <1>10 DEF Next

\* States of a package never arrive out of order on a Call-ID.
THEOREM Monotonicity == Spec => NeverBackwards
<1>1. IInv /\ [Next]_vars => \A c \in CallIds, p \in Packages : seen'[c][p] >= seen[c][p]
  BY StepNeverBackwards
<1>2. IInv /\ [Next]_vars
      => [\A c \in CallIds, p \in Packages : seen'[c][p] >= seen[c][p]]_vars
  BY <1>1
<1> QED
  BY <1>2, Invariance, PTL DEF Spec, NeverBackwards

\* What a NOTIFY of a step is about: a subscription of the table, before and after the
\* step, that has not expired; unless it answers a SUBSCRIBE, its window has passed.
NotifyIsDue(n) ==
    /\ n.cause # "orphan"
    /\ n.call \in DOMAIN subs'
    /\ n.package = subs'[n.call].package
    /\ ~Expired(subs'[n.call])
    /\ n.cause # "initial" => quiet[n.call] >= subs[n.call].interval

\* A subscription whose window has passed by the code's clock has had it pass by the
\* client's.
LEMMA WindowIsQuiet ==
    ASSUME IInv, NEW c \in DOMAIN subs, WindowPassed(subs[c]) \/ subs[c].timer = 0
    PROVE  quiet[c] >= subs[c].interval
<1> DEFINE s == subs[c]
<1>1. c \in CallIds /\ s \in Subscription /\ Timed(s, quiet[c])
  BY IInvParts DEF TableInv, RowInv
<1>2. quiet[c] \in Nat
  BY <1>1, IInvParts, IntervalsAssumption DEF HistoryInv
<1>3. s.interval \in Nat /\ s.elapsed \in Nat
  BY <1>1, IntervalIsNat, IntervalsAssumption DEF Subscription
<1>4. WindowPassed(s) \/ s.timer = 0
  OBVIOUS
<1> HIDE DEF s
<1>5. quiet[c] >= s.interval
  BY <1>1, <1>2, <1>3, <1>4 DEF Timed, Armed, WindowPassed
<1> QED
  BY <1>5 DEF s

\* The NOTIFYs of a fan-out are due: the window of their row has passed.
LEMMA FanOutIsDue ==
    ASSUME IInv, NEW p \in Packages, NEW v \in Versions, NEW onLoop \in BOOLEAN,
           FanOut(p, v, onLoop), NEW n \in wire'
    PROVE  NotifyIsDue(n)
<1>1. PICK c \in DOMAIN subs :
        /\ n = [call |-> c, package |-> p, cause |-> "change"]
        /\ ~Expired(subs[c]) /\ subs[c].package = p /\ WindowPassed(subs[c])
  BY DEF FanOut, Send
<1>2. subs[c] \in Subscription
  BY IInvParts DEF TableInv, RowInv
<1>3. c \in DOMAIN subs' /\ subs'[c] = DeliverNotify(subs[c], onLoop)
  BY <1>1 DEF FanOut, RateFilteredDeliver
<1>4. SameSubscription(subs'[c], subs[c])
  BY <1>2, <1>3, DeliverNotifyEffect
<1>5. quiet[c] >= subs[c].interval
  BY <1>1, WindowIsQuiet
<1> QED
  BY <1>1, <1>3, <1>4, <1>5 DEF NotifyIsDue, SameSubscription, Expired

\* The NOTIFY that answers a SUBSCRIBE waits for no window.
LEMMA SubscribeIsDue ==
    ASSUME IInv, NEW c \in CallIds, NEW p \in Packages, NEW interval \in Intervals,
           NEW expires \in ExpiresHeaders, NEW onLoop \in BOOLEAN,
           Subscribe(c, p, interval, expires, onLoop), NEW n \in wire'
    PROVE  NotifyIsDue(n)
<1> DEFINE new == NewSubscription(c, p, interval, expires)
<1>1. n = [call |-> c, package |-> p, cause |-> "initial"]
  BY DEF Subscribe, Send
<1>2. new \in Subscription /\ ~Expired(new) /\ new.package = p
  BY NewSubscriptionType DEF Subscribe, NewSubscription
<1>3. c \in DOMAIN subs' /\ subs'[c] = DeliverNotify(new, onLoop)
  BY DEF Subscribe
<1> HIDE DEF new
<1>4. SameSubscription(subs'[c], new)
  BY <1>2, <1>3, DeliverNotifyEffect
<1> QED
  BY <1>1, <1>2, <1>3, <1>4 DEF NotifyIsDue, SameSubscription, Expired

\* So is the NOTIFY of a timer: no timer is due before its window has passed.
LEMMA TimerIsDue ==
    ASSUME IInv, NEW c \in CallIds, TimerFired(c), NEW n \in wire'
    PROVE  NotifyIsDue(n)
<1>1. /\ c \in DOMAIN subs /\ subs[c].timer = 0 /\ ~Expired(subs[c])
      /\ subs' = [subs EXCEPT ![c] = DeliverNotify(@, TRUE)]
      /\ Send({c}, subs[c].package, TimerBody(subs[c]), "timer")
  BY DEF TimerFired, SendNothing
<1>2. n = [call |-> c, package |-> subs[c].package, cause |-> "timer"]
  BY <1>1 DEF Send
<1>3. subs[c] \in Subscription
  BY <1>1, IInvParts DEF TableInv, RowInv
<1>4. c \in DOMAIN subs' /\ SameSubscription(subs'[c], subs[c])
  BY <1>1, <1>3, DeliverNotifyEffect
<1>5. quiet[c] >= subs[c].interval
  BY <1>1, WindowIsQuiet
<1> QED
  BY <1>1, <1>2, <1>4, <1>5 DEF NotifyIsDue, SameSubscription, Expired

\* Whatever sends a NOTIFY, it is due.
LEMMA StepIsDue == ASSUME IInv, Next, NEW n \in wire' PROVE NotifyIsDue(n)
<1>1. StoreInv
  BY IInvParts
<1>2. ASSUME NEW c \in CallIds, NEW p \in Packages, NEW interval \in Intervals,
             NEW expires \in ExpiresHeaders, NEW onLoop \in Loops,
             Subscribe(c, p, interval, expires, onLoop)
      PROVE  NotifyIsDue(n)
  BY <1>2, FlagsAssumption, SubscribeIsDue
<1>3. ASSUME NEW p \in Packages, NEW onLoop \in Loops, ChangeAnnounced(p, onLoop)
      PROVE  NotifyIsDue(n)
  <2>1. PICK v \in Versions : v = latest[p] + 1
    BY <1>1, <1>3, BoundsAssumption DEF StoreInv, Versions, ChangeAnnounced
  <2>2. FanOut(p, v, onLoop)
    BY <1>3, <2>1 DEF ChangeAnnounced
  <2> QED
    BY <2>2, FanOutIsDue, FlagsAssumption
<1>4. ASSUME NEW p \in Packages, NEW onLoop \in Loops, Announce(p, onLoop)
      PROVE  NotifyIsDue(n)
  <2>1. PICK v \in Versions : v = latest[p]
    BY <1>1 DEF StoreInv
  <2>2. FanOut(p, v, onLoop)
    BY <1>4, <2>1 DEF Announce
  <2> QED
    BY <2>2, FanOutIsDue, FlagsAssumption
<1>5. ASSUME NEW c \in CallIds, TimerFired(c) PROVE NotifyIsDue(n)
  BY <1>5, TimerIsDue
<1>6. ASSUME NEW s \in orphans, OrphanTimerFired(s) PROVE FALSE
  BY <1>6, OrphanTimerFiredKeeps
<1>7. ASSUME \/ \E d \in CallIds : Unsubscribe(d)
             \/ \E q \in Packages : ChangeDeferred(q)
             \/ Cleanup \/ Start \/ StopCleanup \/ StopTimers \/ Tick
      PROVE  FALSE
  BY <1>7 DEF Unsubscribe, ChangeDeferred, Cleanup, Start, StopCleanup, StopTimers,
              Tick, SendNothing
<1> QED
  BY <1>2, <1>3, <1>4, <1>5, <1>6, <1>7 DEF Next

\* Two NOTIFYs on a Call-ID keep their distance, the answers to SUBSCRIBEs excepted.
THEOREM Spacing == Spec => MinIntervalKept
<1>1. IInv /\ [Next]_vars
      => [\A n \in wire' : n.cause # "initial" =>
            quiet[n.call] >= subs[n.call].interval]_vars
  BY StepIsDue DEF NotifyIsDue
<1> QED
  BY <1>1, Invariance, PTL DEF Spec, MinIntervalKept

\* Subscriptions that were replaced, cancelled, pruned or have expired are silent.
THEOREM Silence == Spec => OnlyCurrentSubscriptions
<1>1. IInv /\ [Next]_vars
      => [\A n \in wire' :
            /\ n.cause # "orphan"
            /\ n.call \in DOMAIN subs'
            /\ n.package = subs'[n.call].package
            /\ ~Expired(subs'[n.call])]_vars
  BY StepIsDue DEF NotifyIsDue
<1> QED
  BY <1>1, Invariance, PTL DEF Spec, OnlyCurrentSubscriptions

----
\* A step adds at most one subscription to the table, and only if there is room.
LEMMA StepRespectsCapacity ==
    IInv /\ CapacityRespected /\ [Next]_vars => CapacityRespected'
<1> SUFFICES ASSUME IInv, CapacityRespected, [Next]_vars PROVE CapacityRespected'
  OBVIOUS
<1>1. DOMAIN subs \subseteq CallIds /\ IsFiniteSet(DOMAIN subs)
  BY IInvParts, BoundsAssumption, FS_Subset DEF TableInv
<1>2. Cardinality(DOMAIN subs) \in Nat /\ Cardinality(DOMAIN subs) <= MaxSubscriptions
  BY <1>1, FS_CardinalityType DEF CapacityRespected
<1>3. CASE DOMAIN subs' \subseteq DOMAIN subs
  <2>1. Cardinality(DOMAIN subs') <= Cardinality(DOMAIN subs)
    BY <1>1, <1>3, FS_Subset
  <2>2. Cardinality(DOMAIN subs') \in Nat
    BY <1>1, <1>3, FS_Subset, FS_CardinalityType
  <2> QED
    BY <1>2, <2>1, <2>2, BoundsAssumption DEF CapacityRespected
<1>4. ASSUME NEW c \in CallIds, NEW p \in Packages, NEW interval \in Intervals,
             NEW expires \in ExpiresHeaders, NEW onLoop \in Loops,
             Subscribe(c, p, interval, expires, onLoop)
      PROVE  CapacityRespected'
  <2>1. DOMAIN subs' = DOMAIN subs \cup {c}
    BY <1>4 DEF Subscribe
  <2>2. CASE c \in DOMAIN subs
    BY <1>3, <2>1, <2>2
  <2>3. CASE c \notin DOMAIN subs
    <3>1. Cardinality(DOMAIN subs) < MaxSubscriptions
      BY <1>4, <2>3 DEF Subscribe, HasCapacity
    <3>2. Cardinality(DOMAIN subs \cup {c}) = Cardinality(DOMAIN subs) + 1
      BY <1>1, <2>3, FS_AddElement
    <3> QED
      BY <1>2, <2>1, <3>1, <3>2, BoundsAssumption DEF CapacityRespected
  <2> QED
    BY <2>2, <2>3
<1>5. CASE \/ \E c \in CallIds : Unsubscribe(c)
           \/ \E p \in Packages, onLoop \in Loops :
                ChangeAnnounced(p, onLoop) \/ Announce(p, onLoop)
           \/ \E p \in Packages : ChangeDeferred(p)
           \/ \E c \in CallIds : TimerFired(c)
           \/ \E s \in orphans : OrphanTimerFired(s)
           \/ Cleanup \/ Start \/ StopCleanup \/ StopTimers \/ Tick
           \/ UNCHANGED vars
  <2>1. DOMAIN subs' \subseteq DOMAIN subs
    BY <1>5 DEF Unsubscribe, ChangeAnnounced, Announce, FanOut, ChangeDeferred,
                TimerFired, OrphanTimerFired, Cleanup, Start, StopCleanup, StopTimers,
                Tick, vars
  <2> QED
    BY <1>3, <2>1
<1> QED
  BY <1>4, <1>5 DEF Next

\* The capacity of the table is never exceeded.
THEOREM Capacity == Spec => []CapacityRespected
<1>1. Init => CapacityRespected
  BY FS_EmptySet, BoundsAssumption DEF Init, CapacityRespected
<1> QED
  BY <1>1, StepRespectsCapacity, Invariance, PTL DEF Spec

----
\* The timer of a live rate-limited subscription is armed for the rest of its window.
Beats(s) == s.interval > 0 /\ ~Expired(s) => s.timer = s.interval - s.elapsed

\* So it is until stop() cancels it.
Beating == phase # "stopped" => \A c \in DOMAIN subs : Beats(subs[c])

\* On the event loop, a delivery arms the timer.
LEMMA DeliverNotifyBeats ==
    ASSUME NEW s \in Subscription PROVE Beats(DeliverNotify(s, TRUE))
BY IntervalIsNat, IntervalsAssumption
DEF Beats, DeliverNotify, ScheduleNotifyTimer, Subscription

\* Queueing a body leaves the armed timer alone.
LEMMA RateFilteredDeliverBeats ==
    ASSUME NEW s \in Subscription, NEW version, Beats(s), ~Expired(s)
    PROVE  Beats(RateFilteredDeliver(s, version, TRUE))
<1>1. CASE WindowPassed(s)
  BY <1>1, DeliverNotifyBeats DEF RateFilteredDeliver
<1>2. CASE ~WindowPassed(s)
  <2>1. s.interval \in Nat /\ s.elapsed \in Nat
    BY IntervalIsNat, IntervalsAssumption DEF Subscription
  <2>2. s.interval > 0 /\ s.elapsed < s.interval
    BY <1>2, <2>1 DEF WindowPassed
  <2>3. s.timer = s.interval - s.elapsed /\ s.timer # NoTimer
    BY <2>1, <2>2 DEF Beats
  <2>4. RateFilteredDeliver(s, version, TRUE) = [s EXCEPT !.pending = version]
    BY <1>2, <2>3 DEF RateFilteredDeliver, ScheduleNotifyTimer, Subscription
  <2> QED
    BY <2>3, <2>4 DEF Beats, Expired, Subscription
<1> QED
  BY <1>1, <1>2

\* The timer and the window run out together.
LEMMA AgeBeats ==
    ASSUME NEW s \in Subscription, Beats(s), s.elapsed <= s.interval PROVE Beats(Age(s))
<1>1. s.interval \in Nat /\ s.elapsed \in Nat /\ s.life \in Nat /\ s.timer \in Int
  BY IntervalIsNat, IntervalsAssumption, DurationsAssumption DEF Subscription, TimerValues
<1>2. /\ Age(s).interval = s.interval
      /\ Age(s).life = Countdown(s.life)
      /\ Age(s).timer = Countdown(s.timer)
      /\ Age(s).elapsed = IF s.elapsed < s.interval THEN s.elapsed + 1 ELSE s.elapsed
  BY DEF Age, Subscription
<1> QED
  BY <1>1, <1>2 DEF Beats, Expired, Countdown

\* Every step keeps the timers of live rows running to the end of their window.
LEMMA StepBeats ==
    ASSUME Loops = {TRUE}, ~Restartable, IInv, Beating, [Next]_vars
    PROVE  Beating'
<1>1. TableInv /\ StoreInv /\ PhaseInv
  BY IInvParts
<1>2. \A c \in DOMAIN subs :
        subs[c] \in Subscription /\ subs[c].elapsed <= subs[c].interval
  BY <1>1 DEF TableInv, RowInv, Timed
<1>3. CASE phase = "stopped"
  <2>1. phase' = "stopped"
    BY <1>3 DEF Next, Subscribe, Unsubscribe, ChangeAnnounced, Announce, ChangeDeferred,
                TimerFired, OrphanTimerFired, Cleanup, Start, StopCleanup, StopTimers,
                Tick, vars
  <2> QED
    BY <2>1 DEF Beating
<1>4. CASE phase # "stopped" /\ \E c \in CallIds, p \in Packages, interval \in Intervals,
              expires \in ExpiresHeaders, onLoop \in Loops :
                Subscribe(c, p, interval, expires, onLoop)
  <2>1. PICK c \in CallIds, p \in Packages, interval \in Intervals,
             expires \in ExpiresHeaders :
               Subscribe(c, p, interval, expires, TRUE)
    BY <1>4
  <2>2. NewSubscription(c, p, interval, expires) \in Subscription
    BY <2>1, NewSubscriptionType DEF Subscribe
  <2>3. subs' = [d \in DOMAIN subs \cup {c} |-> IF d = c
                  THEN DeliverNotify(NewSubscription(c, p, interval, expires), TRUE)
                  ELSE subs[d]]
    BY <2>1 DEF Subscribe
  <2> QED
    BY <1>4, <2>2, <2>3, DeliverNotifyBeats DEF Beating
<1>5. ASSUME phase # "stopped", NEW p \in Packages, NEW v, FanOut(p, v, TRUE)
      PROVE  Beating'
  <2>1. \A c \in DOMAIN subs' :
          /\ c \in DOMAIN subs /\ ~Expired(subs[c])
          /\ \/ subs'[c] = RateFilteredDeliver(subs[c], v, TRUE)
             \/ subs'[c] = subs[c]
    BY <1>5 DEF FanOut
  <2> QED
    BY <1>2, <1>5, <2>1, RateFilteredDeliverBeats DEF Beating
<1>6. CASE phase # "stopped" /\ \E p \in Packages, onLoop \in Loops :
             ChangeAnnounced(p, onLoop)
  <2>1. PICK p \in Packages : ChangeAnnounced(p, TRUE)
    BY <1>6
  <2>2. PICK v : v = latest[p] + 1
    OBVIOUS
  <2>3. FanOut(p, v, TRUE)
    BY <2>1, <2>2 DEF ChangeAnnounced
  <2> QED
    BY <1>5, <1>6, <2>3
<1>7. CASE phase # "stopped" /\ \E p \in Packages, onLoop \in Loops : Announce(p, onLoop)
  <2>1. PICK p \in Packages : Announce(p, TRUE)
    BY <1>7
  <2>2. PICK v : v = latest[p]
    OBVIOUS
  <2>3. FanOut(p, v, TRUE)
    BY <2>1, <2>2 DEF Announce
  <2> QED
    BY <1>5, <1>7, <2>3
<1>8. CASE phase # "stopped" /\ \E c \in CallIds : TimerFired(c)
  <2>1. PICK c \in DOMAIN subs :
          \/ Expired(subs[c]) /\ subs' = [subs EXCEPT ![c].timer = NoTimer]
          \/ subs' = [subs EXCEPT ![c] = DeliverNotify(@, TRUE)]
    BY <1>8 DEF TimerFired
  <2>2. Beats(subs'[c])
    BY <1>2, <2>1, DeliverNotifyBeats DEF Beats, Expired, Subscription
  <2>3. DOMAIN subs' = DOMAIN subs /\ \A d \in DOMAIN subs \ {c} : subs'[d] = subs[d]
    BY <2>1
  <2> QED
    BY <1>8, <2>2, <2>3 DEF Beating
<1>9. CASE phase # "stopped" /\ Tick
  BY <1>2, <1>9, AgeBeats DEF Tick, Beating
<1>10. CASE StopTimers
  BY <1>10 DEF StopTimers, Beating
<1>11. CASE /\ phase # "stopped"
            /\ \/ \E c \in CallIds : Unsubscribe(c)
               \/ \E p \in Packages : ChangeDeferred(p)
               \/ \E s \in orphans : OrphanTimerFired(s)
               \/ Cleanup \/ Start \/ StopCleanup \/ UNCHANGED vars
  BY <1>11 DEF Unsubscribe, ChangeDeferred, OrphanTimerFired, Cleanup, Start,
               StopCleanup, vars, Beating
<1> QED
  BY <1>3, <1>4, <1>6, <1>7, <1>8, <1>9, <1>10, <1>11 DEF Next

\* A timer runs on every live rate-limited subscription, before start() already, to the
\* end of its window.
LEMMA TimersBeat ==
    ASSUME Loops = {TRUE}, ~Restartable PROVE Spec => []Beating
<1>1. Init => Beating
  BY DEF Init, Beating
<1>2. IInv /\ Beating /\ [Next]_vars => Beating'
  BY StepBeats
<1> QED
  BY <1>1, <1>2, Invariance, PTL DEF Spec

\* With every caller on the event loop and no start() after a stop(), queued changes are
\* due at the end of their window and heartbeats go on, for as long as the notifier runs.
THEOREM Heartbeats ==
    ASSUME Loops = {TRUE}, ~Restartable PROVE Spec => []HeartbeatArmed
<1>1. Beating => HeartbeatArmed
  BY DEF Beating, Beats, HeartbeatArmed
<1> QED
  BY <1>1, TimersBeat, PTL

----
\* Only a subscription with a rate filter has anything queued.
QueuesIfFiltered(s) == s.pending # NoBody => s.interval > 0
Queueing == \A c \in DOMAIN subs : QueuesIfFiltered(subs[c])

\* Neither half of a delivery queues without a filter.
LEMMA DeliveryQueues ==
    ASSUME NEW s \in Subscription, NEW version, NEW onLoop, QueuesIfFiltered(s)
    PROVE  /\ QueuesIfFiltered(DeliverNotify(s, onLoop))
           /\ QueuesIfFiltered(RateFilteredDeliver(s, version, onLoop))
<1>1. s.interval \in Nat
  BY IntervalIsNat, IntervalsAssumption
<1>2. QueuesIfFiltered(DeliverNotify(s, onLoop))
  BY DEF QueuesIfFiltered, DeliverNotify, ScheduleNotifyTimer, Subscription
<1>3. ~WindowPassed(s) => s.interval > 0
  BY <1>1 DEF WindowPassed
<1> QED
  BY <1>2, <1>3
  DEF QueuesIfFiltered, RateFilteredDeliver, ScheduleNotifyTimer, Subscription

\* Every step keeps it so.
LEMMA StepQueues ==
    ASSUME IInv, Queueing, [Next]_vars
    PROVE  Queueing'
<1>1. \A c \in DOMAIN subs : subs[c] \in Subscription
  BY IInvParts DEF TableInv, RowInv
<1>2. ASSUME NEW c \in CallIds, NEW p \in Packages, NEW interval \in Intervals,
             NEW expires \in ExpiresHeaders, NEW onLoop \in Loops,
             Subscribe(c, p, interval, expires, onLoop)
      PROVE  Queueing'
  <2> DEFINE new == NewSubscription(c, p, interval, expires)
  <2>1. new \in Subscription /\ QueuesIfFiltered(new)
    BY <1>2, NewSubscriptionType DEF Subscribe, NewSubscription, QueuesIfFiltered
  <2>2. QueuesIfFiltered(DeliverNotify(new, onLoop))
    BY <2>1, DeliveryQueues
  <2>3. subs' = [d \in DOMAIN subs \cup {c} |->
                   IF d = c THEN DeliverNotify(new, onLoop) ELSE subs[d]]
    BY <1>2 DEF Subscribe
  <2> HIDE DEF new
  <2> QED
    BY <2>2, <2>3 DEF Queueing
<1>3. ASSUME NEW p, NEW v, NEW onLoop, FanOut(p, v, onLoop)
      PROVE  Queueing'
  <2>1. \A c \in DOMAIN subs' :
          /\ c \in DOMAIN subs
          /\ \/ subs'[c] = RateFilteredDeliver(subs[c], v, onLoop)
             \/ subs'[c] = subs[c]
    BY <1>3 DEF FanOut
  <2> QED
    BY <1>1, <2>1, DeliveryQueues DEF Queueing
<1>4. ASSUME NEW p \in Packages, NEW onLoop \in Loops, ChangeAnnounced(p, onLoop) \/ Announce(p, onLoop)
      PROVE  Queueing'
  <2>1. PICK v : FanOut(p, v, onLoop)
    BY <1>4 DEF ChangeAnnounced, Announce
  <2> QED
    BY <1>3, <2>1
<1>5. ASSUME NEW c \in CallIds, TimerFired(c)
      PROVE  Queueing'
  <2>1. /\ c \in DOMAIN subs
        /\ \/ subs' = [subs EXCEPT ![c].timer = NoTimer]
           \/ subs' = [subs EXCEPT ![c] = DeliverNotify(subs[c], TRUE)]
    BY <1>5 DEF TimerFired
  <2>2. QueuesIfFiltered(subs'[c])
    BY <1>1, <2>1, DeliveryQueues DEF Queueing, QueuesIfFiltered, Subscription
  <2>3. DOMAIN subs' = DOMAIN subs /\ \A d \in DOMAIN subs \ {c} : subs'[d] = subs[d]
    BY <2>1
  <2> QED
    BY <2>2, <2>3 DEF Queueing
<1>6. CASE Tick
  BY <1>1, <1>6 DEF Tick, Age, Queueing, QueuesIfFiltered, Subscription
<1>7. CASE StopTimers
  BY <1>1, <1>7 DEF StopTimers, Queueing, QueuesIfFiltered, Subscription
<1>8. CASE \/ \E c \in CallIds : Unsubscribe(c)
           \/ \E p \in Packages : ChangeDeferred(p)
           \/ \E s \in orphans : OrphanTimerFired(s)
           \/ Cleanup \/ Start \/ StopCleanup \/ UNCHANGED vars
  BY <1>8 DEF Unsubscribe, ChangeDeferred, OrphanTimerFired, Cleanup, Start,
              StopCleanup, vars, Queueing
<1> QED
  BY <1>2, <1>4, <1>5, <1>6, <1>7, <1>8 DEF Next

\* A subscription without a rate filter is told at once, so its queue is empty.
THEOREM UnfilteredQueueIsEmpty == Spec => []Queueing
<1>1. Init => Queueing
  BY DEF Init, Queueing
<1> QED
  BY <1>1, StepQueues, Invariance, PTL DEF Spec
=============================================================================
