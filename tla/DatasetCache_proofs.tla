------------------------- MODULE DatasetCache_proofs -------------------------
(***************************************************************************)
(* Proofs about DatasetCache, for every set of broken versions and every   *)
(* bound on versions and starts.                                           *)
(***************************************************************************)
EXTENDS DatasetCache, TLAPS

\* The two halves of TypeOK.
Flags == present \in BOOLEAN /\ watching \in BOOLEAN /\ reloading \in BOOLEAN
Numbers ==
    /\ source \in 1..MaxVersion
    /\ cache \in [mtime : Versions, payload : Versions]
    /\ data \in Versions
    /\ pc \in LoadSteps \cup {"down", "loaded", "sleep", "dead"}
    /\ statted \in Versions /\ current \in Versions /\ last \in Versions
    /\ first \in Versions
    /\ starts \in 0..MaxStarts

\* Together they are TypeOK.
LEMMA TypeHalves == TypeOK <=> Flags /\ Numbers
BY DEF TypeOK, Flags, Numbers

\* Which thread is where.
Phased ==
    /\ pc \in {"down", "loaded"} => ~watching
    /\ pc \in {"sleep", "dead"} => watching

\* Versions only grow from the cache file over what was read to the source; and between
\* the poll that found a version and the end of the load, the version found is later than
\* the one seen and no later than the one statted.
Ordered ==
    /\ cache.mtime <= cache.payload /\ cache.payload <= source
    /\ data <= source /\ statted <= source
    /\ pc = "lookup" => cache.payload <= statted
    /\ pc = "write" => statted <= data
    /\ watching => first <= last /\ last <= source
    /\ ~watching => first = 0 /\ last = 0
    /\ watching /\ pc \in LoadSteps => last < current /\ current <= source
    /\ watching /\ pc \in LoadSteps \ {"stat"} => current <= statted

IInv == TypeOK /\ Phased /\ Ordered /\ SeenIsLoaded /\ ReloadingIsHonest

----
USE MaxVersionAssumption, MaxStartsAssumption

\* The invariant holds before the first start.
LEMMA InitEstablishes == Init => IInv
<1> SUFFICES ASSUME Init PROVE IInv
  OBVIOUS
<1>1. NoCache \in [mtime : Versions, payload : Versions]
  BY DEF NoCache, Versions
<1>2. NoCache.mtime = 0 /\ NoCache.payload = 0
  BY DEF NoCache
<1>3. TypeOK
  <2>1. Numbers
    BY <1>1 DEF Init, Numbers, Versions
  <2>2. Flags
    BY DEF Init, Flags
  <2> QED
    BY <2>1, <2>2, TypeHalves
<1>4. Phased /\ ReloadingIsHonest
  BY DEF Init, Phased, ReloadingIsHonest
<1>5. Ordered /\ SeenIsLoaded
  BY <1>2 DEF Init, Ordered, SeenIsLoaded
<1> QED
  BY <1>3, <1>4, <1>5 DEF IInv

\* Versions and positions keep their types ...
LEMMA NumbersKept == Numbers /\ [Next]_vars => Numbers'
<1> SUFFICES ASSUME Numbers, [Next]_vars PROVE Numbers'
  OBVIOUS
<1>1. CASE Edit \/ Remove
  BY <1>1 DEF Edit, Remove, Numbers, Versions
<1>2. CASE Start \/ Crash
  BY <1>2 DEF Start, Crash, Numbers, Versions, LoadSteps
<1>3. ASSUME NEW dies \in BOOLEAN, LoadStep(dies) PROVE Numbers'
  <2>1. CASE StatSource(dies)
    BY <2>1 DEF StatSource, Raised, Numbers, Versions, LoadSteps
  <2>2. CASE CacheHit(dies)
    BY <2>2 DEF CacheHit, Returned, Numbers, Versions, LoadSteps
  <2>3. CASE CacheMiss
    BY <2>3 DEF CacheMiss, Numbers, Versions, LoadSteps
  <2>4. CASE Populate(dies)
    BY <2>4 DEF Populate, Raised, Numbers, Versions, LoadSteps
  <2>5. CASE WriteCache(dies)
    <3>1. CacheFile \in [mtime : Versions, payload : Versions]
      BY DEF CacheFile, Numbers
    <3>2. cache' \in [mtime : Versions, payload : Versions]
      BY <2>5, <3>1 DEF WriteCache, Numbers
    <3>3. UNCHANGED <<source, data, statted, current, first, starts>>
      BY <2>5 DEF WriteCache, Returned, Raised
    <3>4. /\ last' \in {last, current}
          /\ pc' \in {"loaded", "dead", "sleep"}
      BY <2>5 DEF WriteCache, Returned, Raised
    <3> QED
      BY <3>2, <3>3, <3>4 DEF Numbers
  <2> QED
    BY <1>3, <2>1, <2>2, <2>3, <2>4, <2>5 DEF LoadStep
<1>4. CASE Watch \/ Poll
  BY <1>4 DEF Watch, Poll, Numbers, Versions, LoadSteps
<1>5. CASE UNCHANGED vars
  BY <1>5 DEF vars, Numbers
<1> QED
  BY <1>1, <1>2, <1>3, <1>4, <1>5 DEF Next

\* ... and so do the flags.
LEMMA FlagsKept == Flags /\ [Next]_vars => Flags'
<1> SUFFICES ASSUME Flags, [Next]_vars PROVE Flags'
  OBVIOUS
<1> USE DEF Flags
<1>1. CASE Edit \/ Remove \/ Start \/ Crash \/ Watch \/ Poll
  BY <1>1 DEF Edit, Remove, Start, Crash, Watch, Poll
<1>2. ASSUME NEW dies \in BOOLEAN, LoadStep(dies) PROVE Flags'
  BY <1>2 DEF LoadStep, StatSource, CacheHit, CacheMiss, Populate, WriteCache, Returned, Raised
<1>3. CASE UNCHANGED vars
  BY <1>3 DEF vars
<1> QED
  BY <1>1, <1>2, <1>3 DEF Next

\* Who runs where, and is_reloading with it.
LEMMA PhasesKept ==
    TypeOK /\ Phased /\ ReloadingIsHonest /\ [Next]_vars => Phased' /\ ReloadingIsHonest'
<1> SUFFICES ASSUME TypeOK, Phased, ReloadingIsHonest, [Next]_vars
             PROVE  Phased' /\ ReloadingIsHonest'
  OBVIOUS
<1> USE DEF Phased, ReloadingIsHonest, LoadSteps
<1>1. CASE Edit \/ Remove
  BY <1>1 DEF Edit, Remove
<1>2. CASE Start \/ Crash
  BY <1>2 DEF Start, Crash
<1>3. ASSUME NEW dies \in BOOLEAN, LoadStep(dies) PROVE Phased' /\ ReloadingIsHonest'
  BY <1>3 DEF LoadStep, StatSource, CacheHit, CacheMiss, Populate, WriteCache, Returned, Raised
<1>4. CASE Watch \/ Poll
  BY <1>4 DEF Watch, Poll
<1>5. CASE UNCHANGED vars
  BY <1>5 DEF vars
<1> QED
  BY <1>1, <1>2, <1>3, <1>4, <1>5 DEF Next

\* A load ends: the watcher has seen what it found if the load returned.
LEMMA OrderKept == IInv /\ [Next]_vars => Ordered' /\ SeenIsLoaded'
<1> SUFFICES ASSUME IInv, [Next]_vars PROVE Ordered' /\ SeenIsLoaded'
  OBVIOUS
<1> USE DEF IInv, Phased, Ordered, SeenIsLoaded, LoadSteps
<1>0. /\ source \in Int /\ data \in Int /\ statted \in Int /\ current \in Int
      /\ last \in Int /\ first \in Int
      /\ cache.mtime \in Int /\ cache.payload \in Int
  BY DEF TypeOK, Versions
<1>1. CASE Edit \/ Remove
  BY <1>0, <1>1 DEF Edit, Remove
<1>2. CASE Start \/ Crash
  <2>1. source >= 0
    BY DEF TypeOK
  <2> QED
    BY <1>0, <1>2, <2>1 DEF Start, Crash
<1>3. ASSUME NEW dies \in BOOLEAN, LoadStep(dies) PROVE Ordered' /\ SeenIsLoaded'
  <2>1. CASE StatSource(dies)
    BY <1>0, <2>1 DEF StatSource, Raised
  <2>2. CASE CacheHit(dies)
    BY <1>0, <2>2 DEF CacheHit, Returned
  <2>3. CASE CacheMiss
    BY <1>0, <2>3 DEF CacheMiss
  <2>4. CASE Populate(dies)
    BY <1>0, <2>4 DEF Populate, Raised
  <2>5. CASE WriteCache(dies)
    <3>1. cache' = CacheFile \/ cache' = cache
      BY <2>5 DEF WriteCache
    <3>2. CacheFile.mtime = statted /\ CacheFile.payload = data
      BY DEF CacheFile
    <3>3. cache'.mtime <= cache'.payload /\ cache'.payload <= source
      BY <2>5, <3>1, <3>2 DEF WriteCache
    <3> QED
      BY <1>0, <2>5, <3>3 DEF WriteCache, Returned, Raised
  <2> QED
    BY <1>3, <2>1, <2>2, <2>3, <2>4, <2>5 DEF LoadStep
<1>4. CASE Watch
  <2>1. pc' \in {"sleep", "dead"} /\ UNCHANGED <<source, cache, data, statted>> /\ watching'
    BY <1>4 DEF Watch
  <2>2. last' \in Int /\ last' = first' /\ last' <= source
    <3>1. source >= 0
      BY DEF TypeOK
    <3> QED
      BY <1>0, <1>4, <3>1 DEF Watch
  <2> QED
    BY <1>0, <2>1, <2>2
<1>5. CASE Poll
  BY <1>0, <1>5 DEF Poll
<1>6. CASE UNCHANGED vars
  BY <1>6 DEF vars
<1> QED
  BY <1>1, <1>2, <1>3, <1>4, <1>5, <1>6 DEF Next

\* The versions seen, loaded and cached stay in order, whatever the source does between
\* two file operations and wherever the process ends.
THEOREM Invariance == Spec => []IInv
<1>1. ASSUME IInv, [Next]_vars PROVE IInv'
  <2>1. TypeOK'
    <3>1. Flags /\ Numbers
      BY <1>1, TypeHalves DEF IInv
    <3>2. Flags' /\ Numbers'
      BY <1>1, <3>1, NumbersKept, FlagsKept
    <3> QED
      BY <3>2 DEF TypeOK, Flags, Numbers
  <2> QED
    BY <1>1, <2>1, PhasesKept, OrderKept DEF IInv
<1> QED
  BY <1>1, InitEstablishes, PTL DEF Spec

\* The watcher passes over no version.
THEOREM NothingPassedOver == Spec => []SeenIsLoaded
BY Invariance, PTL DEF IInv

\* is_reloading tells the watcher's loads.
THEOREM ReloadingTold == Spec => []ReloadingIsHonest
BY Invariance, PTL DEF IInv

\* A cache hit brings back the version that was statted: the payload of a cache file is
\* no older than its time, and no later than the source was at the stat.
THEOREM HitsAreExact == Spec => []HitIsExact
<1>1. IInv => HitIsExact
  <2>1. IInv => statted \in Int /\ cache.mtime \in Int /\ cache.payload \in Int
    BY DEF IInv, TypeOK, Versions
  <2> QED
    BY <2>1 DEF IInv, Ordered, HitIsExact
<1> QED
  BY <1>1, Invariance, PTL
=============================================================================
