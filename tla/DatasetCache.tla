---------------------------- MODULE DatasetCache ----------------------------
(***************************************************************************)
(* DatasetCache: load() through the cache file, and the watcher thread     *)
(* that loads again when the source file changes.  The source is written   *)
(* by others at any time, between any two file operations of load(); the   *)
(* process may end between any two, and its cache file stays.              *)
(*                                                                         *)
(* The functional element loads once, then starts the watcher, as the      *)
(* tests do.  A version of the source stands for its contents and for its  *)
(* modification time: a later version has a later time.                    *)
(***************************************************************************)
EXTENDS Integers

CONSTANTS
    Broken,     \* versions populate_from_source raises on
    MaxVersion, \* bound on the versions of the source
    MaxStarts   \* bound on the starts of the process

ASSUME BrokenAssumption == Broken \subseteq Nat
ASSUME MaxVersionAssumption == MaxVersion \in Nat \ {0}
ASSUME MaxStartsAssumption == MaxStarts \in Nat

VARIABLES
    \* files
    source,     \* version of the source
    present,    \* does the source exist?
    cache,      \* the cache file, or NoCache
    \* the process
    data,       \* version of the data populated, 0 before any
    pc,         \* where the one thread that loads is
    watching,   \* is this the watcher, rather than the initial load?
    statted,    \* source_mtime of load()
    current,    \* current_mtime of watch()
    last,       \* last_mtime of watch()
    reloading,  \* is_reloading
    \* history
    first,      \* the first last_mtime of this watcher
    starts

fileVars == <<source, present>>
vars == <<source, present, cache, data, pc, watching, statted, current, last, reloading,
          first, starts>>

Versions == 0..MaxVersion
NoCache == [mtime |-> 0, payload |-> 0]
LoadSteps == {"stat", "lookup", "populate", "write"}

\* Types of the state.
TypeOK ==
    /\ source \in 1..MaxVersion
    /\ present \in BOOLEAN
    /\ cache \in [mtime : Versions, payload : Versions]
    /\ data \in Versions
    /\ pc \in LoadSteps \cup {"down", "loaded", "sleep", "dead"}
    /\ watching \in BOOLEAN
    /\ statted \in Versions /\ current \in Versions /\ last \in Versions
    /\ reloading \in BOOLEAN
    /\ first \in Versions
    /\ starts \in 0..MaxStarts

Init ==
    /\ source = 1 /\ present = TRUE /\ cache = NoCache
    /\ data = 0 /\ pc = "down" /\ watching = FALSE
    /\ statted = 0 /\ current = 0 /\ last = 0 /\ reloading = FALSE
    /\ first = 0 /\ starts = 0

----
\* The source is replaced by a newer version, or taken away.
Edit ==
    /\ source < MaxVersion
    /\ source' = source + 1
    /\ present' = TRUE
    /\ UNCHANGED <<cache, data, pc, watching, statted, current, last, reloading, first, starts>>

Remove ==
    /\ present
    /\ present' = FALSE
    /\ UNCHANGED <<source, cache, data, pc, watching, statted, current, last, reloading,
                   first, starts>>

\* The process starts and calls load().
Start ==
    /\ pc = "down" /\ starts < MaxStarts
    /\ starts' = starts + 1
    /\ pc' = "stat"
    /\ UNCHANGED <<source, present, cache, data, watching, statted, current, last,
                   reloading, first>>

\* It ends, anywhere; so do its threads.
Crash ==
    /\ pc # "down"
    /\ pc' = "down"
    /\ data' = 0 /\ watching' = FALSE /\ statted' = 0 /\ current' = 0 /\ last' = 0
    /\ reloading' = FALSE /\ first' = 0
    /\ UNCHANGED <<source, present, cache, starts>>

----
\* A faulty variant of Returned: the version seen is the one there now.
ReturnedLate(dies) ==
    /\ pc' = IF ~watching THEN "loaded" ELSE IF dies THEN "dead" ELSE "sleep"
    /\ last' = IF watching THEN source ELSE last
    /\ reloading' = FALSE
    /\ UNCHANGED <<watching, current, first, starts>>

\* load() returns.  The watcher has seen the version it went by, calls on_success, which
\* may raise, and then on_failure; if that raises too, the exception leaves watch().
\* Of the initial load, the functional element takes care either way.
Returned(dies) ==
    /\ pc' = IF ~watching THEN "loaded" ELSE IF dies THEN "dead" ELSE "sleep"
    /\ last' = IF watching THEN current ELSE last
    /\ reloading' = FALSE
    /\ UNCHANGED <<watching, current, first, starts>>

\* Faulty variants of Raised: a version that could not be loaded counts as seen;
\* is_reloading is not reset.
RaisedSeen(dies) == Returned(dies)
RaisedUnreset(dies) ==
    /\ pc' = IF ~watching THEN "loaded" ELSE IF dies THEN "dead" ELSE "sleep"
    /\ UNCHANGED <<watching, current, last, reloading, first, starts>>

\* load() raises: on_failure is called, and may raise.
Raised(dies) ==
    /\ pc' = IF ~watching THEN "loaded" ELSE IF dies THEN "dead" ELSE "sleep"
    /\ reloading' = FALSE
    /\ UNCHANGED <<watching, current, last, first, starts>>

\* load(), one file operation after the other: stat the source;
StatSource(dies) ==
    /\ pc = "stat"
    /\ IF present
       THEN /\ statted' = source
            /\ pc' = "lookup"
            /\ UNCHANGED <<watching, current, last, reloading, first, starts>>
       ELSE Raised(dies) /\ UNCHANGED statted
    /\ UNCHANGED <<source, present, cache, data>>

\* read the cache file, and take its payload if its time is the one of the stat;
CacheHit(dies) ==
    /\ pc = "lookup"
    /\ cache # NoCache /\ cache.mtime = statted
    /\ data' = cache.payload
    /\ Returned(dies)
    /\ UNCHANGED <<source, present, cache, statted>>

\* a cache file that cannot be read or has another time is a miss;
CacheMiss ==
    /\ pc = "lookup"
    /\ pc' = "populate"
    /\ UNCHANGED <<source, present, cache, data, watching, statted, current, last,
                   reloading, first, starts>>

\* read the source, by now perhaps another version;
Populate(dies) ==
    /\ pc = "populate"
    /\ IF present /\ source \notin Broken
       THEN /\ data' = source
            /\ pc' = "write"
            /\ UNCHANGED <<watching, current, last, reloading, first, starts>>
       ELSE Raised(dies) /\ UNCHANGED data
    /\ UNCHANGED <<source, present, cache, statted>>

\* A faulty variant of CacheFile: its time is taken when it is written.
CacheFileNow == [mtime |-> source, payload |-> data]

\* and replace the cache file.  An OSError is swallowed; what serialize() or json.dump
\* raise is not.
CacheFile == [mtime |-> statted, payload |-> data]

WriteCache(dies) ==
    /\ pc = "write"
    /\ \/ cache' \in {CacheFile, cache} /\ Returned(dies)
       \/ UNCHANGED cache /\ Raised(dies)
    /\ UNCHANGED <<source, present, data, statted>>

LoadStep(dies) ==
    StatSource(dies) \/ CacheHit(dies) \/ CacheMiss \/ Populate(dies) \/ WriteCache(dies)

----
\* watch() starts in its thread: it gives up without a source.
Watch ==
    /\ pc = "loaded"
    /\ watching' = TRUE
    /\ IF present THEN pc' = "sleep" /\ last' = source /\ first' = source
       ELSE pc' = "dead" /\ UNCHANGED <<last, first>>
    /\ UNCHANGED <<source, present, cache, data, statted, current, reloading, starts>>

\* A poll that finds a later time; every other poll changes nothing.
Poll ==
    /\ pc = "sleep"
    /\ present /\ source > last
    /\ current' = source
    /\ reloading' = TRUE
    /\ pc' = "stat"
    /\ UNCHANGED <<source, present, cache, data, watching, statted, last, first, starts>>

Next ==
    \/ Edit \/ Remove
    \/ Start \/ Crash
    \/ \E dies \in BOOLEAN : LoadStep(dies)
    \/ Watch \/ Poll

Spec == Init /\ [][Next]_vars

\* The threads run; the source and the process are left to others.
Fairness == WF_vars(\E dies \in BOOLEAN : LoadStep(dies)) /\ WF_vars(Poll)

FairSpec == Spec /\ Fairness

----
\* The contents a cache hit brings back are those of the version that was statted,
\* although the cache file may hold a later version under an earlier time, left by a
\* load that the source changed under, in this process or an earlier one.
HitIsExact ==
    pc = "lookup" /\ cache # NoCache /\ cache.mtime = statted => cache.payload = statted

\* A version the watcher counts as seen, and was not there when it started, is loaded,
\* or a later one is: no version is passed over by a change in the middle of a load.
SeenIsLoaded == watching /\ last > first => data >= last

\* is_reloading is true during the watcher's loads and at no other time, failed ones and
\* the thread's end included.
ReloadingIsHonest == reloading <=> watching /\ pc \in LoadSteps

\* A change after the watcher started is loaded in the end, whatever loads failed in
\* between, unless the source is broken, goes away, or the thread has ended.
ChangeIsLoaded ==
    \A v \in 1..MaxVersion \ Broken :
        (watching /\ source = v /\ v > last)
          ~> (data = v \/ source # v \/ ~present \/ pc \in {"down", "dead"})
=============================================================================
