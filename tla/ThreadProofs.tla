---------------------------- MODULE ThreadProofs ----------------------------
(***************************************************************************)
(* The threads of one process that share a table in memory, for any number *)
(* of threads, scales, streams and phases: proofs about RegistryFlight and *)
(* LoadTest, which have no state in common.                                *)
(*                                                                         *)
(* Registry: one load at a time, and none older than the last clear_cache. *)
(* Both need that the slot of a loader stays in _loading until it          *)
(* publishes: it is what keeps a second loader out, and what clear_cache   *)
(* saw of the loads it could not stop.                                     *)
(*                                                                         *)
(* Load test: what is in the dictionary of futures has no result, and what *)
(* has left it has one, and has ended or been abandoned.  While no launch  *)
(* fails, the counts of active streams are the sizes of that dictionary,   *)
(* and what is live is in it, which keeps the roles on their targets.      *)
(***************************************************************************)
EXTENDS RegistryFlight, LoadTest, FiniteSetTheorems, TLAPS

Lookups ==
    [at : {"idle", "again", "wait", "load", "publish"}, scale : Scales,
     calls : 0..MaxVersion, event : BOOLEAN, outcome : Outcomes \cup {"none"},
     result : 0..MaxVersion]

RegistryTypeOK ==
    /\ lookup \in [Threads -> Lookups]
    /\ loading \subseteq Scales
    /\ cached \in [Scales -> Versions \cup {Nothing, Uncached}]
    /\ provider \in 0..MaxVersion
    /\ cleared \in [version : 0..MaxVersion, scales : SUBSET Scales]

Loads(t) == lookup[t].at \in {"load", "publish"}

\* A loader owns the slot of its scale.
Owned ==
    /\ \A t \in Threads : Loads(t) => lookup[t].scale \in loading
    /\ \A t, u \in Threads : Loads(t) /\ Loads(u) /\ lookup[t].scale = lookup[u].scale => t = u

\* A loader called a provider no older than the last clear_cache, or was loading then, and
\* publishes what this provider returned.
Current ==
    /\ cleared.version <= provider
    /\ \A t \in Threads : Loads(t) =>
           /\ lookup[t].calls >= cleared.version \/ lookup[t].scale \in cleared.scales
           /\ lookup[t].at = "publish" => lookup[t].result \in {lookup[t].calls, Nothing}

FlightInv == RegistryTypeOK /\ Owned /\ Current /\ FreshAfterClear

-----------------------------------------------------------------------------

Quiet(r) == r \in Lookups /\ r.at \notin {"load", "publish"}

\* An answer leaves no load behind.
LEMMA AnswersAreQuiet ==
    Quiet(Resting) /\ \A c, result, outcome : Quiet(Answered(c, result, outcome))
    <1>1. 0 \in 0..MaxVersion BY RegistryAssumption
    <1>2. Resting \in Lookups /\ Resting.at = "idle"
      BY <1>1, RegistryAssumption DEF Resting, Lookups, Nothing
    <1>3. [Resting EXCEPT !.at = "again"] \in Lookups
      BY <1>2 DEF Lookups
    <1>4. [Resting EXCEPT !.at = "again"].at = "again"
      BY <1>2 DEF Lookups
    <1> QED BY <1>2, <1>3, <1>4 DEF Quiet, Answered

\* A step after which one thread loads nothing, and nothing else has changed but what its
\* caller sees, keeps the invariant.
LEMMA QuietStep ==
    ASSUME FlightInv, NEW t \in Threads, NEW r, Quiet(r),
           lookup' = [lookup EXCEPT ![t] = r],
           UNCHANGED <<loading, cached, provider, cleared>>
    PROVE  FlightInv'
    <1>1. /\ lookup' \in [Threads -> Lookups] /\ ~Loads(t)'
          /\ \A u \in Threads \ {t} : lookup'[u] = lookup[u]
      BY DEF FlightInv, RegistryTypeOK, Quiet, Loads
    <1> QED BY <1>1 DEF FlightInv, RegistryTypeOK, Owned, Current, FreshAfterClear, Loads

LEMMA LookUpKept ==
    ASSUME FlightInv, NEW t \in Threads, NEW c \in Scales, ~Loads(t), LookUp(t, c)
    PROVE  FlightInv'
    <1>1. CASE Answer(t, c)
      BY <1>1, AnswersAreQuiet, QuietStep DEF LookUp, Answer, Become
    <1>2. CASE Join(t, c)
      <2>1. Quiet([Resting EXCEPT !.at = "wait", !.scale = c])
        BY AnswersAreQuiet DEF Quiet, Lookups
      <2> QED BY <1>2, <2>1, QuietStep DEF LookUp, Join, Become
    <1>3. CASE BeginLoad(t, c)
      <2> DEFINE r == [Resting EXCEPT !.at = "load", !.scale = c, !.calls = provider]
      <2>1. /\ lookup' = [lookup EXCEPT ![t] = r] /\ loading' = loading \cup {c}
            /\ c \notin loading /\ UNCHANGED <<cached, provider, cleared>>
        BY <1>3 DEF LookUp, BeginLoad, Become, InFlight
      <2>2. r \in Lookups /\ r.at = "load" /\ r.scale = c /\ r.calls = provider
        <3>1. Resting \in Lookups /\ provider \in 0..MaxVersion
          BY AnswersAreQuiet DEF Quiet, FlightInv, RegistryTypeOK
        <3> QED BY <3>1 DEF Lookups
      <2> HIDE DEF r
      <2>3. /\ lookup' \in [Threads -> Lookups] /\ lookup'[t] = r
            /\ \A u \in Threads \ {t} : lookup'[u] = lookup[u]
        BY <2>1, <2>2 DEF FlightInv, RegistryTypeOK
      <2>4. RegistryTypeOK' BY <2>1, <2>3 DEF FlightInv, RegistryTypeOK
      <2>5. Owned' BY <2>1, <2>2, <2>3 DEF FlightInv, Owned, Loads
      <2>6. Current'
        <3>1. cleared.version <= provider /\ r.calls >= cleared.version
          BY <2>2 DEF FlightInv, Current, RegistryTypeOK
        <3> QED BY <2>1, <2>2, <2>3, <3>1 DEF FlightInv, Current, Loads
      <2> QED BY <2>1, <2>4, <2>5, <2>6 DEF FlightInv, FreshAfterClear
    <1> QED BY <1>1, <1>2, <1>3 DEF LookUp

LEMMA PublishKept ==
    ASSUME FlightInv, NEW t \in Threads, Publish(t)
    PROVE  FlightInv'
    <1> DEFINE c == lookup[t].scale
               o == lookup[t].outcome
    <1>1. /\ lookup[t].at = "publish" /\ loading' = loading \ {c}
          /\ cached' = IF o = "failed" THEN cached ELSE [cached EXCEPT ![c] = lookup[t].result]
          /\ UNCHANGED <<provider, cleared>>
      BY DEF Publish, At
    <1>2. lookup \in [Threads -> Lookups] /\ c \in Scales /\ Loads(t)
      BY <1>1 DEF FlightInv, RegistryTypeOK, Lookups, Loads
    <1>3. /\ Quiet(lookup'[t])
          /\ \A w \in Threads \ {t} :
                 \/ lookup'[w] = lookup[w]
                 \/ lookup[w].at = "wait" /\ lookup'[w] = Published(t, w)
      BY AnswersAreQuiet DEF Publish, Waiters, At
    <1>4. \A w \in Threads : lookup[w].at = "wait" => Quiet(Published(t, w))
      BY <1>2 DEF Published, Quiet, Lookups
    <1>5. lookup' \in [Threads -> Lookups]
      <2>1. \A w \in Threads : lookup'[w] \in Lookups
        BY <1>2, <1>3, <1>4 DEF Quiet
      <2>2. lookup' = [w \in Threads |-> lookup'[w]]
        BY DEF Publish
      <2> QED BY <2>1, <2>2
    <1>6. \A w \in Threads : Loads(w)' => w # t /\ Loads(w) /\ lookup'[w] = lookup[w]
      BY <1>3, <1>4 DEF Loads, Quiet
    <1>7. Owned'
      BY <1>1, <1>2, <1>6 DEF FlightInv, Owned
    <1>8. Current'
      BY <1>1, <1>6 DEF FlightInv, Current
    <1>9. FreshAfterClear'
      <2>1. /\ cached \in [Scales -> Versions \cup {Nothing, Uncached}]
            /\ lookup[t].result \in {lookup[t].calls, Nothing}
            /\ lookup[t].calls >= cleared.version \/ c \in cleared.scales
        BY <1>1, <1>2 DEF FlightInv, RegistryTypeOK, Current
      <2>2. lookup[t].result \notin Versions \/ lookup[t].result = lookup[t].calls
        BY <2>1 DEF Versions, Nothing
      <2> QED BY <1>1, <1>2, <2>1, <2>2 DEF FlightInv, FreshAfterClear
    <1>10. RegistryTypeOK'
      <2>1. lookup[t].result \in Versions \cup {Nothing, Uncached}
        BY <1>2, RegistryAssumption DEF Lookups, Versions, Nothing
      <2> QED BY <1>1, <1>2, <1>5, <2>1 DEF FlightInv, RegistryTypeOK
    <1> QED BY <1>7, <1>8, <1>9, <1>10 DEF FlightInv

LEMMA FlightKept == FlightInv /\ [RegistryNext]_registryVars => FlightInv'
    <1> SUFFICES ASSUME FlightInv, [RegistryNext]_registryVars PROVE FlightInv'
      OBVIOUS
    <1>1. CASE UNCHANGED registryVars
      BY <1>1 DEF registryVars, FlightInv, RegistryTypeOK, Owned, Current, FreshAfterClear, Loads
    <1>2. ASSUME NEW t \in Threads, LookUpAny(t) \/ LookUpUnitScale(t) PROVE FlightInv'
      <2>1. ~Loads(t) /\ \E c \in Scales : LookUp(t, c)
        BY <1>2, RegistryAssumption DEF LookUpAny, LookUpUnitScale, At, Loads
      <2> QED BY <2>1, LookUpKept
    <1>3. ASSUME NEW t \in Threads, ProviderReturns(t) PROVE FlightInv'
      <2>1. PICK o \in Outcomes :
                lookup' = [lookup EXCEPT ![t] =
                    [lookup[t] EXCEPT !.at = "publish", !.outcome = o, !.event = TRUE,
                         !.result = IF o = "hit" THEN lookup[t].calls ELSE Nothing]]
        BY <1>3 DEF ProviderReturns, Become
      <2>2. /\ Loads(t) /\ lookup \in [Threads -> Lookups]
            /\ UNCHANGED <<loading, cached, provider, cleared>>
        BY <1>3 DEF ProviderReturns, At, Loads, FlightInv, RegistryTypeOK
      <2>3. /\ lookup'[t] \in Lookups /\ lookup'[t].at = "publish"
            /\ lookup'[t].scale = lookup[t].scale /\ lookup'[t].calls = lookup[t].calls
            /\ lookup'[t].result \in {lookup[t].calls, Nothing}
        <3>1. lookup[t] \in Lookups /\ 0 \in 0..MaxVersion
          BY <2>2, RegistryAssumption
        <3>2. lookup'[t] = [lookup[t] EXCEPT !.at = "publish", !.outcome = o, !.event = TRUE,
                               !.result = IF o = "hit" THEN lookup[t].calls ELSE Nothing]
          BY <2>1, <2>2
        <3>3. (IF o = "hit" THEN lookup[t].calls ELSE Nothing) \in 0..MaxVersion
          BY <3>1 DEF Lookups, Nothing
        <3> QED BY <3>1, <3>2, <3>3 DEF Lookups
      <2>4. lookup' \in [Threads -> Lookups] /\ \A u \in Threads \ {t} : lookup'[u] = lookup[u]
        BY <2>1, <2>2, <2>3
      <2>5. \A u \in Threads : Loads(u)' =>
                Loads(u) /\ lookup'[u].scale = lookup[u].scale /\ lookup'[u].calls = lookup[u].calls
        BY <2>2, <2>3, <2>4 DEF Loads
      <2>6. RegistryTypeOK' BY <2>2, <2>4 DEF FlightInv, RegistryTypeOK
      <2>7. Owned' BY <2>2, <2>5 DEF FlightInv, Owned
      <2>8. Current' BY <2>2, <2>3, <2>4, <2>5 DEF FlightInv, Current
      <2> QED BY <2>2, <2>6, <2>7, <2>8 DEF FlightInv, FreshAfterClear
    <1>4. ASSUME NEW t \in Threads, ProviderBreaksOff(t) PROVE FlightInv'
      BY <1>4, AnswersAreQuiet, QuietStep DEF ProviderBreaksOff, Become
    <1>5. ASSUME NEW t \in Threads, Wake(t) \/ WaitTimesOut(t) PROVE FlightInv'
      BY <1>5, AnswersAreQuiet, QuietStep DEF Wake, WaitTimesOut, Took, Become
    <1>6. ASSUME Clear PROVE FlightInv'
      <2>1. /\ cached' = [c \in Scales |-> Uncached] /\ UNCHANGED <<lookup, loading, provider>>
            /\ cleared' = [version |-> provider, scales |-> loading]
        BY <1>6 DEF Clear, KeptSlots
      <2>2. RegistryTypeOK'
        <3>1. cleared' \in [version : 0..MaxVersion, scales : SUBSET Scales]
          BY <2>1 DEF FlightInv, RegistryTypeOK
        <3> QED BY <2>1, <3>1 DEF FlightInv, RegistryTypeOK
      <2>3. Owned' BY <2>1 DEF FlightInv, Owned, Loads
      <2>4. Current'
        <3>1. cleared'.version = provider /\ cleared'.scales = loading /\ provider <= provider
          BY <2>1 DEF FlightInv, RegistryTypeOK
        <3> QED BY <2>1, <3>1 DEF FlightInv, Owned, Current, Loads
      <2>5. FreshAfterClear'
        BY <2>1, RegistryAssumption DEF FreshAfterClear, Versions, Uncached
      <2> QED BY <2>2, <2>3, <2>4, <2>5 DEF FlightInv
    <1>7. ASSUME Register PROVE FlightInv'
      <2>1. /\ provider' = provider + 1 /\ provider < MaxVersion
            /\ UNCHANGED <<lookup, loading, cached, cleared>>
        BY <1>7 DEF Register
      <2>2. provider' \in 0..MaxVersion /\ cleared.version <= provider'
        BY <2>1, RegistryAssumption DEF FlightInv, RegistryTypeOK, Current
      <2> QED BY <2>1, <2>2
             DEF FlightInv, RegistryTypeOK, Owned, Current, FreshAfterClear, Loads
    <1> QED BY <1>1, <1>2, <1>3, <1>4, <1>5, <1>6, <1>7, PublishKept DEF RegistryNext, LookupStep

LEMMA FlightHolds == RegistrySpec => []FlightInv
    <1>1. RegistryInit => FlightInv
      BY RegistryAssumption
      DEF RegistryInit, FlightInv, RegistryTypeOK, Owned, Current, FreshAfterClear, Loads,
          Resting, Lookups, Outcomes, Nothing, Uncached, Versions
    <1> QED BY <1>1, FlightKept, PTL DEF RegistrySpec

-----------------------------------------------------------------------------

\* At most one thread at a time calls the provider for a scale factor, and its slot is in
\* flight (SingleFlight; _load_benchmark_results, clear_cache).
THEOREM LoadsAreSingleFlight == RegistrySpec => []SingleFlight
    <1>1. FlightInv => SingleFlight
      BY DEF FlightInv, Owned, Loads, SingleFlight, Loaders, InFlight
    <1> QED BY <1>1, FlightHolds, PTL

\* Results cached are not older than the last clear_cache, except at a scale factor that
\* was loading then (FreshAfterClear; clear_cache, _load_benchmark_results).
THEOREM CacheIsFresh == RegistrySpec => []FreshAfterClear
    <1>1. FlightInv => FreshAfterClear
      BY DEF FlightInv
    <1> QED BY <1>1, FlightHolds, PTL

-----------------------------------------------------------------------------
(* The load test.                                                          *)

DriverStages ==
    {"idle", "loop", "launch", "wait", "record", "shutdown", "report", "returned",
     "failing", "raised"}
StreamStages == {"new", "queued", "look", "begin", "query", "ended", "cancelled"}

DriverStates == [at : DriverStages, phase : PhaseIds, todo : [Roles -> Int],
                 draining : SUBSET Streams, pending : SUBSET Streams]
StreamStates ==
    [at : StreamStages, role : Roles \cup {NoRole}, left : Int, stop : BOOLEAN, late : Nat]
Counts == [total : Int, of : [Roles -> Int]]

LoadTypeOK ==
    /\ driver \in DriverStates
    /\ stream \in [Streams -> StreamStates]
    /\ launched \in 0..MaxStreams
    /\ futures \in SUBSET Streams
    /\ active \in Counts
    /\ results \in [Streams -> Nat]
    /\ abandoned \in SUBSET Streams /\ outstanding \in SUBSET Streams

\* A stream that has been stopped has begun a query since then only if it is past the
\* point where it looks at its event.
LateOnce ==
    \A s \in Streams : /\ stream[s].late <= 1
                       /\ ~stream[s].stop \/ stream[s].at = "begin" => stream[s].late = 0

\* The driver went astray when a launch failed.
Astray == driver.at \in {"failing", "raised"}

\* Streams not launched are new, and the others in the dictionary or recorded: what was
\* recorded has ended or been abandoned.
Kept ==
    /\ \A s \in Streams : s > launched => stream[s].at = "new" /\ results[s] = 0
    /\ \A s \in futures : s <= launched
    /\ ~Astray => \A s \in Streams : s <= launched =>
           /\ results[s] = IF s \in futures THEN 0 ELSE 1
           /\ s \in futures \/ Done(s) \/ s \in abandoned

\* A drain takes what it waited for out of the dictionary, the last one all of it.
Draining ==
    /\ driver.at \in {"wait", "record"} => /\ driver.draining \subseteq futures
                                           /\ IsLast(driver.phase) => driver.draining = futures
    /\ driver.at = "record" => \A s \in driver.draining \ driver.pending : Done(s)
    /\ driver.at \in {"shutdown", "report", "returned"} => futures = {}

\* Once the queue has been emptied nothing begins.
Reported ==
    /\ driver.at \in {"report", "returned"} => Queued = {}
    /\ driver.at = "returned" => \A s \in Streams : Running(s) => s \in outstanding

LoadInv == LoadTypeOK /\ LateOnce /\ Kept /\ Draining /\ Reported

StreamStep(s) == Start(s) \/ LookAtStop(s) \/ BeginQuery(s) \/ QueryEnds(s) \/ StreamFails(s)

\* Streams are finitely many.
LEMMA StreamsAreFinite ==
    \A S \in SUBSET Streams : IsFiniteSet(S) /\ Cardinality(S) \in Nat
<1>1. IsFiniteSet(Streams)
  BY LoadAssumption, FS_Interval DEF Streams
<1> QED BY <1>1, FS_Subset, FS_CardinalityType

\* Recording streams keeps the types.
LEMMA Recorded ==
    ASSUME LoadTypeOK, NEW S \in SUBSET Streams, Record(S)
    PROVE  results' \in [Streams -> Nat] /\ active' \in Counts
<1>1. results' \in [Streams -> Nat]
  BY DEF Record, LoadTypeOK
<1>2. ASSUME NEW r \in Roles
      PROVE  Less(active.of[r], Cardinality({s \in S : stream[s].role = r})) \in Int
  <2>1. {s \in S : stream[s].role = r} \in SUBSET Streams
    OBVIOUS
  <2> QED BY <2>1, StreamsAreFinite DEF Less, LoadTypeOK, Counts
<1>3. active.total - Cardinality(S) \in Int
  BY StreamsAreFinite DEF LoadTypeOK, Counts
<1> QED BY <1>1, <1>2, <1>3 DEF Record, Counts

\* Submitting a stream keeps the types.
LEMMA Submitted ==
    ASSUME LoadTypeOK, NEW r \in ToLaunch, Submit(r)
    PROVE  /\ launched + 1 \in Streams
           /\ stream' \in [Streams -> StreamStates]
           /\ launched' \in 0..MaxStreams
           /\ active' \in Counts
<1>1. r \in Roles /\ launched + 1 \in Streams /\ launched' \in 0..MaxStreams
  BY LoadAssumption DEF ToLaunch, Submit, Streams, LoadTypeOK
<1>a. QueriesPerStream \in Int
  BY LoadAssumption
<1>2. [Unborn EXCEPT !.at = "queued", !.role = r, !.left = QueriesPerStream] \in StreamStates
  BY <1>1, <1>a DEF Unborn, StreamStates, StreamStages
<1>3. stream' \in [Streams -> StreamStates]
  BY <1>1, <1>2 DEF Submit, LoadTypeOK
<1>4. [active.of EXCEPT ![r] = active.of[r] + 1] \in [Roles -> Int] /\ active.total + 1 \in Int
  BY <1>1 DEF LoadTypeOK, Counts
<1>5. active' = [total |-> active.total + 1, of |-> [active.of EXCEPT ![r] = active.of[r] + 1]]
  BY DEF Submit, LoadTypeOK, Counts
<1>6. active' \in Counts
  BY <1>4, <1>5 DEF Counts
<1> QED BY <1>1, <1>3, <1>6

\* What is to be launched is counted.
LEMMA PlannedTargets ==
    ASSUME LoadTypeOK, NEW k \in PhaseIds
    PROVE  RoleTargets(k) \in [Roles -> Int]
<1> SUFFICES ASSUME NEW r \in Roles, r \in DOMAIN Phases[k]
             PROVE  Less(Phases[k][r], IF HasRoles(k) THEN active.of[r] ELSE active.total) \in Int
  BY DEF RoleTargets
<1>1. Phases[k][r] \in Int
  BY LoadAssumption DEF PhaseIds
<1>2. active.of[r] \in Int /\ active.total \in Int
  BY DEF LoadTypeOK, Counts
<1> QED BY <1>1, <1>2 DEF Less

\* The type invariant holds initially and is kept by every step.
LEMMA LoadTypes ==
    /\ LoadInit => LoadTypeOK
    /\ LoadTypeOK /\ [LoadNext]_loadVars => LoadTypeOK'
<1>1. ASSUME LoadInit PROVE LoadTypeOK
  <2>1. 1 \in PhaseIds
    BY LoadAssumption DEF PhaseIds
  <2>2. driver \in DriverStates
    BY <1>1, <2>1 DEF LoadInit, Driver, DriverStates, DriverStages
  <2>3. stream \in [Streams -> StreamStates]
    BY <1>1 DEF LoadInit, Unborn, StreamStates, StreamStages
  <2> QED BY <1>1, <2>2, <2>3, LoadAssumption DEF LoadInit, LoadTypeOK, Counts
<1>2. ASSUME LoadTypeOK, [LoadNext]_loadVars PROVE LoadTypeOK'
  <2> USE <1>2 DEF LoadTypeOK
  <2>1. CASE Run
    BY <2>1 DEF Run, DGoto, DriverStates, DriverStages
  <2>2. CASE Plan
    <3>1. RoleTargets(driver.phase) \in [Roles -> Int]
      BY PlannedTargets DEF DriverStates
    <3> QED BY <2>2, <3>1 DEF Plan, DriverStates, DriverStages
  <2>3. CASE Launch
    <3>1. PICK r \in ToLaunch : Submit(r) /\ driver' = [driver EXCEPT !.todo[r] = @ - 1]
      BY <2>3 DEF Launch
    <3>2. driver' \in DriverStates
      BY <3>1 DEF ToLaunch, DriverStates
    <3> QED BY <2>3, <3>1, <3>2, Submitted DEF Launch
  <2>4. CASE LaunchFails
    <3>1. PICK r \in ToLaunch : Submit(r)
      BY <2>4 DEF LaunchFails
    <3>2. driver' \in DriverStates
      BY <2>4 DEF LaunchFails, DGoto, DriverStates, DriverStages
    <3> QED BY <2>4, <3>1, <3>2, Submitted DEF LaunchFails
  <2>5. CASE Collect
    <3>1. driver' \in DriverStates
      BY <2>5 DEF Collect, DGoto, DriverStates, DriverStages
    <3>2. {s \in futures : Done(s)} \in SUBSET Streams
      OBVIOUS
    <3> QED BY <2>5, <3>1, <3>2, Recorded DEF Collect
  <2>6. CASE PhaseOver
    <3>1. Leaving(driver.phase) \in SUBSET Streams
      BY DEF Leaving
    <3> QED BY <2>6, <3>1 DEF PhaseOver, DriverStates, DriverStages
  <2>7. CASE WaitEnds
    BY <2>7 DEF WaitEnds, DriverStates, DriverStages
  <2>8. CASE Drain
    <3>1. PICK s \in Streams :
             /\ driver' = [driver EXCEPT !.draining = @ \ {s}]
             /\ futures' = futures \ {s}
             /\ Record({s})
             /\ stream' = [stream EXCEPT ![s].stop = @ \/ s \in driver.pending]
             /\ abandoned' = Remembered(s)
      BY <2>8 DEF Drain
    <3>2. driver' \in DriverStates
      BY <3>1 DEF DriverStates
    <3>3. stream' \in [Streams -> StreamStates]
      BY <3>1 DEF StreamStates
    <3>4. abandoned' \in SUBSET Streams
      BY <3>1 DEF Remembered
    <3> QED BY <2>8, <3>1, <3>2, <3>3, <3>4, Recorded DEF Drain
  <2>9. CASE Drained
    <3>1. IsLast(driver.phase) \/ driver.phase + 1 \in PhaseIds
      BY LoadAssumption DEF IsLast, PhaseIds, DriverStates
    <3>2. driver' \in DriverStates
      BY <2>9, <3>1 DEF Drained, Driver, DriverStates, DriverStages
    <3> QED BY <2>9, <3>2 DEF Drained
  <2>10. CASE CancelQueued
    BY <2>10 DEF CancelQueued, SGoto, StreamStates, StreamStages
  <2>11. CASE ShutDown
    BY <2>11 DEF ShutDown, DGoto, DriverStates, DriverStages
  <2>12. CASE Report
    BY <2>12 DEF Report, DGoto, DriverStates, DriverStages
  <2>13. CASE \E s \in Streams : StreamStep(s)
    <3>1. PICK s \in Streams : StreamStep(s)
      BY <2>13
    <3>2. stream' \in [Streams -> StreamStates]
      BY <3>1 DEF StreamStep, Start, LookAtStop, BeginQuery, QueryEnds, StreamFails, SGoto, End,
                  StreamStates, StreamStages
    <3> QED BY <3>1, <3>2 DEF StreamStep, Start, LookAtStop, BeginQuery, QueryEnds, StreamFails
  <2>14. CASE UNCHANGED loadVars
    BY <2>14 DEF loadVars
  <2> QED
    BY <2>1, <2>2, <2>3, <2>4, <2>5, <2>6, <2>7, <2>8, <2>9, <2>10, <2>11, <2>12, <2>13, <2>14
    DEF LoadNext, DriverStep, StreamStep
<1> QED BY <1>1, <1>2

\* What a step of a stream does: it stays between "look" and its end, or comes from the queue,
\* and nothing else changes.
LEMMA StreamMoves ==
    ASSUME LoadTypeOK, NEW s \in Streams, StreamStep(s)
    PROVE  /\ UNCHANGED <<driver, launched, futures, active, results, abandoned, outstanding>>
           /\ \A t \in Streams \ {s} : stream'[t] = stream[t]
           /\ stream[s].at \in {"queued", "look", "begin", "query"}
           /\ stream'[s].at \in {"look", "begin", "query", "ended"}
           /\ Queued' \subseteq Queued
<1>1. /\ UNCHANGED <<driver, launched, futures, active, results, abandoned, outstanding>>
      /\ \A t \in Streams \ {s} : stream'[t] = stream[t]
      /\ stream[s].at \in {"queued", "look", "begin", "query"}
      /\ stream'[s].at \in {"look", "begin", "query", "ended"}
  <2> USE DEF LoadTypeOK, StreamStates
  <2>1. CASE Start(s)
    BY <2>1 DEF Start, SGoto, IsFirst, Queued, SAt
  <2>2. CASE LookAtStop(s)
    BY <2>2 DEF LookAtStop, SGoto, End, SAt
  <2>3. CASE BeginQuery(s)
    BY <2>3 DEF BeginQuery, SAt
  <2>4. CASE QueryEnds(s)
    BY <2>4 DEF QueryEnds, SGoto, SAt
  <2>5. CASE StreamFails(s)
    BY <2>5 DEF StreamFails, End, SAt
  <2> QED BY <2>1, <2>2, <2>3, <2>4, <2>5 DEF StreamStep
<1> QED BY <1>1 DEF Queued, SAt

\* What a submission does to the streams.
LEMMA SubmitMoves ==
    ASSUME LoadTypeOK, NEW r \in ToLaunch, Submit(r)
    PROVE  /\ launched' = launched + 1 /\ launched + 1 \in Streams
           /\ \A t \in Streams \ {launched + 1} : stream'[t] = stream[t]
           /\ stream'[launched + 1].at = "queued"
           /\ ~stream'[launched + 1].stop /\ stream'[launched + 1].late = 0
BY Submitted DEF Submit, LoadTypeOK, Unborn

\* What recording a set of streams does to the results.
LEMMA RecordMoves ==
    ASSUME LoadTypeOK, NEW S \in SUBSET Streams, Record(S)
    PROVE  \A s \in Streams : results'[s] = IF s \in S THEN results[s] + 1 ELSE results[s]
BY DEF Record, LoadTypeOK

\* What draining one stream does.
LEMMA DrainMoves ==
    ASSUME LoadTypeOK, Drain
    PROVE  \E s \in driver.draining :
              /\ driver.at = "record" /\ s \in Streams
              /\ driver' = [driver EXCEPT !.draining = @ \ {s}]
              /\ futures' = futures \ {s}
              /\ \A t \in Streams :
                    /\ results'[t] = IF t = s THEN results[t] + 1 ELSE results[t]
                    /\ t # s => stream'[t] = stream[t]
              /\ stream'[s].at = stream[s].at /\ stream'[s].late = stream[s].late
              /\ stream[s].stop => stream'[s].stop
              /\ abandoned' = abandoned \cup ({s} \cap driver.pending)
              /\ UNCHANGED <<launched, outstanding>>
<1>1. PICK s \in Streams :
         /\ IsFirst(s, driver.draining)
         /\ driver' = [driver EXCEPT !.draining = @ \ {s}]
         /\ futures' = futures \ {s}
         /\ Record({s})
         /\ stream' = [stream EXCEPT ![s].stop = @ \/ s \in driver.pending]
         /\ abandoned' = Remembered(s)
  BY DEF Drain
<1>2. s \in driver.draining
  BY <1>1 DEF IsFirst
<1>3. \A t \in Streams : results'[t] = IF t = s THEN results[t] + 1 ELSE results[t]
  BY <1>1, RecordMoves
<1>4. /\ \A t \in Streams : t # s => stream'[t] = stream[t]
      /\ stream'[s].at = stream[s].at /\ stream'[s].late = stream[s].late
      /\ stream[s].stop => stream'[s].stop
  BY <1>1 DEF LoadTypeOK, StreamStates
<1> QED BY <1>1, <1>2, <1>3, <1>4 DEF Drain, DAt, Remembered

\* What taking a stream off the queue does.
LEMMA CancelMoves ==
    ASSUME LoadTypeOK, CancelQueued
    PROVE  \E s \in Streams :
              /\ driver.at \in {"shutdown", "failing"}
              /\ \A t \in Streams \ {s} : stream'[t] = stream[t]
              /\ stream[s].at = "queued" /\ stream'[s].at = "cancelled"
              /\ stream'[s].stop = stream[s].stop /\ stream'[s].late = stream[s].late
              /\ UNCHANGED <<driver, launched, futures, results, abandoned, outstanding>>
<1>1. PICK s \in Streams : IsFirst(s, Queued) /\ SGoto(s, "cancelled")
  BY DEF CancelQueued
<1> QED BY <1>1 DEF CancelQueued, DAt, SGoto, IsFirst, Queued, SAt, LoadTypeOK, StreamStates

\* A step keeps LateOnce: a stream looks at its event before it comes to begin.
LEMMA LateOnceKept ==
    ASSUME LoadTypeOK, LateOnce, [LoadNext]_loadVars
    PROVE  LateOnce'
<1>1. ASSUME stream' = stream PROVE LateOnce'
  BY <1>1 DEF LateOnce
<1>2. ASSUME NEW r \in ToLaunch, Submit(r) PROVE LateOnce'
  BY <1>2, SubmitMoves DEF LateOnce
<1>3. CASE Launch \/ LaunchFails
  BY <1>2, <1>3 DEF Launch, LaunchFails
<1>4. CASE Drain
  BY <1>4, DrainMoves DEF LateOnce, LoadTypeOK
<1>5. CASE CancelQueued
  BY <1>5, CancelMoves DEF LateOnce
<1>6. ASSUME NEW s \in Streams, StreamStep(s) PROVE LateOnce'
  <2>1. \A t \in Streams \ {s} : stream'[t] = stream[t]
    BY <1>6, StreamMoves
  <2>2. /\ stream'[s].late <= 1
        /\ ~stream'[s].stop \/ stream'[s].at = "begin" => stream'[s].late = 0
    <3> USE DEF LoadTypeOK, StreamStates, LateOnce
    <3>1. CASE Start(s)
      BY <3>1 DEF Start, SGoto
    <3>2. CASE LookAtStop(s)
      BY <3>2 DEF LookAtStop, MayGoOn, SGoto, End
    <3>3. CASE BeginQuery(s)
      BY <3>3 DEF BeginQuery, SAt
    <3>4. CASE QueryEnds(s)
      BY <3>4 DEF QueryEnds, SGoto
    <3>5. CASE StreamFails(s)
      BY <3>5 DEF StreamFails, End
    <3> QED BY <1>6, <3>1, <3>2, <3>3, <3>4, <3>5 DEF StreamStep
  <2> QED BY <2>1, <2>2 DEF LateOnce
<1> QED
  BY <1>1, <1>3, <1>4, <1>5, <1>6
  DEF LoadNext, DriverStep, StreamStep, Run, Plan, PhaseOver, Collect, WaitEnds, Drained,
      ShutDown, Report, loadVars

\* A step keeps Kept: what leaves the dictionary gets its result then.
LEMMA KeptKept ==
    ASSUME LoadTypeOK, Kept, Draining, [LoadNext]_loadVars
    PROVE  Kept'
<1> USE DEF LoadTypeOK
<1>1. CASE Run \/ Plan \/ PhaseOver \/ WaitEnds \/ Drained \/ ShutDown \/ Report
  <2>1. UNCHANGED <<stream, launched, futures, results, abandoned>> /\ (~Astray' => ~Astray)
    BY <1>1 DEF Run, Plan, PhaseOver, WaitEnds, Drained, ShutDown, Report, Driver, DAt, DGoto,
                Astray, DriverStates
  <2> QED BY <2>1 DEF Kept, Done, SAt
<1>2. CASE Launch
  <2>1. PICK r \in ToLaunch : Submit(r) /\ driver' = [driver EXCEPT !.todo[r] = @ - 1]
    BY <1>2 DEF Launch
  <2>2. futures' = futures \cup {launched + 1} /\ UNCHANGED <<results, abandoned>> /\ ~Astray
    BY <1>2 DEF Launch, DAt, Astray
  <2>3. \A t \in Streams \ {launched + 1} : Done(t)' = Done(t)
    BY <2>1, SubmitMoves DEF Done, SAt
  <2> QED BY <2>1, <2>2, <2>3, SubmitMoves DEF Kept, Streams
<1>3. CASE LaunchFails
  <2>1. PICK r \in ToLaunch : Submit(r)
    BY <1>3 DEF LaunchFails
  <2>2. UNCHANGED <<futures, results>> /\ Astray'
    BY <1>3 DEF LaunchFails, DGoto, Astray, DriverStates
  <2> QED BY <2>1, <2>2, SubmitMoves DEF Kept, Streams
<1>4. CASE Collect
  <2> DEFINE S == {s \in futures : Done(s)}
  <2>1. UNCHANGED <<stream, launched, abandoned>> /\ futures' = futures \ S /\ ~Astray
    BY <1>4 DEF Collect, DAt, Astray
  <2>2. \A s \in Streams : results'[s] = IF s \in S THEN results[s] + 1 ELSE results[s]
    BY <1>4, RecordMoves DEF Collect
  <2>3. \A s \in Streams : Done(s)' = Done(s)
    BY <2>1 DEF Done, SAt
  <2>4. ASSUME NEW s \in Streams, s <= launched
        PROVE  /\ results'[s] = IF s \in futures' THEN 0 ELSE 1
               /\ s \in futures' \/ Done(s)' \/ s \in abandoned'
    BY <2>1, <2>2, <2>3, <2>4 DEF Kept
  <2>5. \A s \in Streams : s > launched => stream[s].at = "new" /\ results'[s] = 0
    BY <2>2 DEF Kept, Streams
  <2> QED BY <2>1, <2>4, <2>5 DEF Kept
<1>5. CASE Drain
  <2>1. PICK s \in driver.draining :
            /\ driver.at = "record" /\ s \in Streams
            /\ futures' = futures \ {s}
            /\ \A t \in Streams :
                  /\ results'[t] = IF t = s THEN results[t] + 1 ELSE results[t]
                  /\ t # s => stream'[t] = stream[t]
            /\ stream'[s].at = stream[s].at
            /\ abandoned' = abandoned \cup ({s} \cap driver.pending)
            /\ launched' = launched
    BY <1>5, DrainMoves
  <2>2. s \in futures /\ (Done(s) \/ s \in driver.pending) /\ ~Astray
    BY <2>1 DEF Draining, Astray
  <2>3. \A t \in Streams : stream'[t].at = stream[t].at
    BY <2>1
  <2>4. \A t \in Streams : Done(t)' = Done(t)
    BY <2>3 DEF Done, SAt
  <2>5. ASSUME NEW t \in Streams, t <= launched
        PROVE  /\ results'[t] = IF t \in futures' THEN 0 ELSE 1
               /\ t \in futures' \/ Done(t)' \/ t \in abandoned'
    BY <2>1, <2>2, <2>4, <2>5 DEF Kept
  <2>6. \A t \in Streams : t > launched => stream'[t].at = "new" /\ results'[t] = 0
    BY <2>1, <2>2, <2>3 DEF Kept, Streams
  <2> QED BY <2>1, <2>5, <2>6 DEF Kept
<1>6. CASE CancelQueued
  <2>1. UNCHANGED <<driver, launched, futures, results, abandoned>>
    BY <1>6, CancelMoves
  <2>2. \A t \in Streams : /\ stream[t].at = "new" => stream'[t].at = "new"
                           /\ Done(t) => Done(t)'
    BY <1>6, CancelMoves DEF Done, SAt
  <2> QED BY <2>1, <2>2 DEF Kept, Astray
<1>7. ASSUME NEW s \in Streams, StreamStep(s) PROVE Kept'
  <2>1. UNCHANGED <<driver, launched, futures, results, abandoned>>
    BY <1>7, StreamMoves
  <2>2. \A t \in Streams : /\ stream[t].at = "new" => stream'[t].at = "new"
                           /\ Done(t) => Done(t)'
    BY <1>7, StreamMoves DEF Done, SAt
  <2> QED BY <2>1, <2>2 DEF Kept, Astray
<1>8. CASE UNCHANGED loadVars
  BY <1>8 DEF loadVars, Kept, Astray, Done, SAt
<1> QED
  BY <1>1, <1>2, <1>3, <1>4, <1>5, <1>6, <1>7, <1>8 DEF LoadNext, DriverStep, StreamStep

\* A step keeps Draining.
LEMMA DrainingKept ==
    ASSUME LoadTypeOK, Draining, [LoadNext]_loadVars
    PROVE  Draining'
<1> USE DEF LoadTypeOK, DriverStates
<1>1. CASE Run \/ Plan \/ Launch \/ LaunchFails \/ Collect
  <2>1. driver'.at \in {"loop", "launch", "failing"}
    <3>1. CASE Launch
      <4>1. PICK r \in ToLaunch : driver' = [driver EXCEPT !.todo[r] = @ - 1]
        BY <3>1 DEF Launch
      <4> QED BY <3>1, <4>1 DEF Launch, DAt
    <3> QED BY <1>1, <3>1 DEF Run, Plan, LaunchFails, Collect, DGoto
  <2> QED BY <2>1 DEF Draining
<1>2. CASE PhaseOver
  <2>1. /\ driver'.at = "wait" /\ driver'.draining = Leaving(driver.phase)
        /\ driver'.phase = driver.phase /\ futures' = futures
    BY <1>2 DEF PhaseOver
  <2>2. /\ Leaving(driver.phase) \subseteq futures
        /\ IsLast(driver.phase) => Leaving(driver.phase) = futures
    BY DEF Leaving
  <2> QED BY <2>1, <2>2 DEF Draining, IsLast
<1>3. CASE WaitEnds
  <2>1. /\ driver.at = "wait" /\ driver'.at = "record" /\ driver'.draining = driver.draining
        /\ driver'.phase = driver.phase /\ futures' = futures /\ stream' = stream
        /\ driver'.pending = {s \in driver.draining : ~Done(s)}
    BY <1>3 DEF WaitEnds, DAt
  <2> QED BY <2>1 DEF Draining, IsLast, Done, SAt
<1>4. CASE Drain
  <2>1. PICK s \in driver.draining :
            /\ driver.at = "record" /\ s \in Streams
            /\ driver' = [driver EXCEPT !.draining = @ \ {s}]
            /\ futures' = futures \ {s}
            /\ \A t \in Streams : t # s => stream'[t] = stream[t]
    BY <1>4, DrainMoves
  <2>2. \A t \in driver'.draining : Done(t)' = Done(t)
    BY <2>1 DEF Done, SAt
  <2> QED BY <2>1, <2>2 DEF Draining, IsLast
<1>5. CASE Drained
  <2>1. CASE IsLast(driver.phase)
    BY <1>5, <2>1 DEF Drained, Driver, DAt, Draining
  <2>2. CASE ~IsLast(driver.phase)
    BY <1>5, <2>2 DEF Drained, Driver, Draining
  <2> QED BY <2>1, <2>2
<1>6. CASE ShutDown
  BY <1>6 DEF ShutDown, DAt, DGoto, Draining
<1>7. CASE Report
  BY <1>7 DEF Report, DAt, DGoto, Draining
<1>8. CASE CancelQueued
  <2>1. driver' = driver /\ futures' = futures /\ driver.at \in {"shutdown", "failing"}
    BY <1>8, CancelMoves
  <2> QED BY <2>1 DEF Draining
<1>9. ASSUME NEW s \in Streams, StreamStep(s) PROVE Draining'
  <2>1. driver' = driver /\ futures' = futures
    BY <1>9, StreamMoves
  <2>2. \A t \in Streams : Done(t) => Done(t)'
    BY <1>9, StreamMoves DEF Done, SAt
  <2> QED BY <2>1, <2>2 DEF Draining, IsLast
<1>10. CASE UNCHANGED loadVars
  BY <1>10 DEF loadVars, Draining, IsLast, Done, SAt
<1> QED
  BY <1>1, <1>2, <1>3, <1>4, <1>5, <1>6, <1>7, <1>8, <1>9, <1>10
  DEF LoadNext, DriverStep, StreamStep

\* A step keeps Reported.
LEMMA ReportedKept ==
    ASSUME LoadTypeOK, Kept, Draining, Reported, [LoadNext]_loadVars
    PROVE  Reported'
<1> USE DEF LoadTypeOK, DriverStates
<1>1. CASE Run \/ Plan \/ PhaseOver \/ Launch \/ LaunchFails \/ Collect \/ WaitEnds \/ Drain
           \/ Drained
  <2>1. driver'.at \notin {"report", "returned"}
    <3>1. CASE Launch
      <4>1. PICK r \in ToLaunch : driver' = [driver EXCEPT !.todo[r] = @ - 1]
        BY <3>1 DEF Launch
      <4> QED BY <3>1, <4>1 DEF Launch, DAt
    <3>2. CASE Drain
      BY <3>2, DrainMoves
    <3>3. CASE Drained
      BY <3>3 DEF Drained, Driver
    <3>4. CASE Run \/ Plan \/ PhaseOver \/ LaunchFails \/ Collect \/ WaitEnds
      BY <3>4 DEF Run, Plan, PhaseOver, LaunchFails, Collect, WaitEnds, DGoto
    <3> QED BY <1>1, <3>1, <3>2, <3>3, <3>4
  <2> QED BY <2>1 DEF Reported
<1>2. CASE ShutDown
  <2>1. Queued = {} /\ driver'.at \in {"report", "raised"} /\ stream' = stream
    BY <1>2 DEF ShutDown, DGoto
  <2> QED BY <2>1 DEF Reported, Queued, SAt
<1>3. CASE Report
  <2>1. /\ driver.at = "report" /\ driver'.at = "returned" /\ stream' = stream
        /\ outstanding' = {s \in abandoned : ~Done(s)}
    BY <1>3 DEF Report, DAt, DGoto
  <2>2. ASSUME NEW s \in Streams, Running(s) PROVE s \in outstanding'
    <3>1. s \notin futures /\ s <= launched /\ ~Done(s) /\ ~Astray
      BY <2>1, <2>2 DEF Draining, Kept, Running, Done, SAt, Streams, Astray
    <3> QED BY <2>1, <3>1 DEF Kept
  <2> QED BY <2>1, <2>2 DEF Reported, Queued, Running, SAt
<1>4. CASE CancelQueued
  <2>1. driver' = driver /\ driver.at \in {"shutdown", "failing"}
    BY <1>4, CancelMoves
  <2> QED BY <2>1 DEF Reported
<1>5. ASSUME NEW s \in Streams, StreamStep(s) PROVE Reported'
  <2>1. UNCHANGED <<driver, outstanding>> /\ Queued' \subseteq Queued
    BY <1>5, StreamMoves
  <2>2. \A t \in Streams : Running(t)' => Running(t) \/ t \in Queued
    BY <1>5, StreamMoves DEF Running, Queued, SAt
  <2> QED BY <2>1, <2>2 DEF Reported
<1>6. CASE UNCHANGED loadVars
  BY <1>6 DEF loadVars, Reported, Queued, Running, SAt
<1> QED
  BY <1>1, <1>2, <1>3, <1>4, <1>5, <1>6 DEF LoadNext, DriverStep, StreamStep

\* The invariant holds at the start.
LEMMA LoadStarts == LoadInit => LoadInv
<1>1. ASSUME LoadInit PROVE LateOnce /\ Kept /\ Draining /\ Reported
  BY <1>1 DEF LoadInit, Driver, Unborn, LateOnce, Kept, Draining, Reported, Streams, Astray
<1> QED BY <1>1, LoadTypes DEF LoadInv

\* The invariant is kept.
LEMMA LoadKept == LoadInv /\ [LoadNext]_loadVars => LoadInv'
BY LoadTypes, LateOnceKept, KeptKept, DrainingKept, ReportedKept DEF LoadInv

\* The invariant holds.
LEMMA LoadHolds == LoadSpec => []LoadInv
BY LoadStarts, LoadKept, PTL DEF LoadSpec

\* An abandoned stream begins at most the one query that it was about to begin.
THEOREM StreamsAreStopped == LoadSpec => []StopsBetweenQueries
<1>1. LoadInv => StopsBetweenQueries
  BY DEF LoadInv, LateOnce, StopsBetweenQueries
<1> QED BY <1>1, LoadHolds, PTL

\* When run returns, every stream has one result, and what still runs is reported.
THEOREM StreamsAreAccountedFor == LoadSpec => []AllAccountedFor
<1>1. ASSUME LoadInv, DAt("returned"), NEW s \in Streams
      PROVE  /\ results[s] = IF s <= launched THEN 1 ELSE 0
             /\ Running(s) \/ SAt(s, {"queued"}) => s \in outstanding
  <2>1. futures = {} /\ Queued = {} /\ ~Astray
    BY <1>1 DEF LoadInv, Draining, Reported, DAt, Astray
  <2>2. results[s] = IF s <= launched THEN 1 ELSE 0
    BY <1>1, <2>1 DEF LoadInv, LoadTypeOK, Kept, Streams
  <2> QED BY <1>1, <2>1, <2>2 DEF LoadInv, Reported, DAt, Queued
<1>2. LoadInv => AllAccountedFor
  BY <1>1 DEF AllAccountedFor
<1> QED BY <1>2, LoadHolds, PTL

-----------------------------------------------------------------------------
(* The roles stay on their targets.                                         *)

OfRole(S, r) == {s \in S : stream[s].role = r}

\* The counts of active streams, which the code keeps, are those of the dictionary.
Counted ==
    ~Astray => /\ active.total = Cardinality(futures)
               /\ \A r \in Roles : active.of[r] = Cardinality(OfRole(futures, r))

\* What is still to be launched does not pass the target.
Announced ==
    driver.at = "launch" => \A r \in Roles : driver.todo[r] > 0 =>
        /\ r \in DOMAIN Phases[driver.phase]
        /\ Cardinality(OfRole(futures, r)) + driver.todo[r] <= Phases[driver.phase][r]

\* The streams in the dictionary are of roles of the phase, or are being drained before it.
Admitted ==
    /\ driver.at \in {"idle", "loop", "launch"} /\ HasRoles(driver.phase) =>
           \A s \in futures : stream[s].role \in DOMAIN Phases[driver.phase]
    /\ driver.at \in {"wait", "record"} /\ ~IsLast(driver.phase) /\ HasRoles(driver.phase + 1) =>
           \A s \in futures \ driver.draining : stream[s].role \in DOMAIN Phases[driver.phase + 1]

Stopped == \A s \in abandoned : s <= launched /\ stream[s].stop

Within(r) ==
    \/ LiveIn(r) = {}
    \/ \E k \in 1..driver.phase : r \in DOMAIN Phases[k] /\ Cardinality(LiveIn(r)) <= Phases[k][r]

RolesInv ==
    LoadInv /\ Counted /\ Announced /\ Admitted /\ Stopped /\ \A r \in Roles : Within(r)

IsLive(s) == ~stream[s].stop /\ (Running(s) \/ SAt(s, {"queued"}))

\* Removing some streams from others.
LEMMA FewerStreams ==
    ASSUME NEW S \in SUBSET Streams, NEW T \in SUBSET S
    PROVE  Cardinality(S \ T) = Cardinality(S) - Cardinality(T)
           /\ Cardinality(T) <= Cardinality(S)
<1>1. IsFiniteSet(S) /\ IsFiniteSet(T) /\ S \cap T = T
  BY StreamsAreFinite
<1>2. Cardinality(T) <= Cardinality(S)
  BY <1>1, FS_Subset
<1>3. Cardinality(S \ T) = Cardinality(S) - Cardinality(S \cap T)
  BY <1>1, FS_Difference
<1> QED BY <1>1, <1>2, <1>3

\* A step that launches nothing leaves the roles alone, and no stream becomes live.
LEMMA NothingLaunched ==
    ASSUME LoadTypeOK, [LoadNext]_loadVars, ~Launch, ~LaunchFails, NEW t \in Streams
    PROVE  /\ stream'[t].role = stream[t].role
           /\ stream[t].stop => stream'[t].stop
           /\ IsLive(t)' => IsLive(t)
<1> USE DEF LoadTypeOK
<1>1. ASSUME stream' = stream
      PROVE  /\ stream'[t].role = stream[t].role
             /\ stream[t].stop => stream'[t].stop
             /\ IsLive(t)' => IsLive(t)
  BY <1>1 DEF IsLive, Running, SAt
<1>2. CASE Drain
  <2>1. PICK s \in Streams :
            stream' = [stream EXCEPT ![s].stop = @ \/ s \in driver.pending]
    BY <1>2 DEF Drain
  <2>2. stream'[t].role = stream[t].role /\ stream'[t].at = stream[t].at
    BY <2>1 DEF StreamStates
  <2>3. stream[t].stop => stream'[t].stop
    BY <2>1 DEF StreamStates
  <2> QED BY <2>2, <2>3 DEF IsLive, Running, SAt
<1>3. CASE CancelQueued
  <2>1. PICK s \in Streams : IsFirst(s, Queued) /\ stream' = [stream EXCEPT ![s].at = "cancelled"]
    BY <1>3 DEF CancelQueued, SGoto
  <2>2. stream'[t].role = stream[t].role /\ stream'[t].stop = stream[t].stop
    BY <2>1 DEF StreamStates
  <2>3. stream'[t].at = stream[t].at \/ stream'[t].at = "cancelled"
    BY <2>1 DEF StreamStates
  <2> QED BY <2>2, <2>3 DEF IsLive, Running, SAt
<1>4. ASSUME NEW s \in Streams, StreamStep(s)
      PROVE  /\ stream'[t].role = stream[t].role
             /\ stream[t].stop => stream'[t].stop
             /\ IsLive(t)' => IsLive(t)
  <2>1. stream'[t].role = stream[t].role /\ stream'[t].stop = stream[t].stop
    BY <1>4 DEF StreamStep, Start, LookAtStop, BeginQuery, QueryEnds, StreamFails, SGoto, End,
                StreamStates
  <2>2. Running(t)' \/ SAt(t, {"queued"})' => Running(t) \/ SAt(t, {"queued"})
    BY <1>4, StreamMoves DEF Running, SAt
  <2> QED BY <2>1, <2>2 DEF IsLive
<1> QED
  BY <1>1, <1>2, <1>3, <1>4
  DEF LoadNext, DriverStep, StreamStep, Run, Plan, PhaseOver, Collect, WaitEnds, Drained,
      ShutDown, Report, loadVars

\* A submission adds one stream, of the role that is given.
LEMMA OneMoreStream ==
    ASSUME LoadTypeOK, Kept, NEW r \in ToLaunch, Submit(r)
    PROVE  /\ launched + 1 \in Streams /\ launched + 1 \notin futures
           /\ stream'[launched + 1].role = r
           /\ \A t \in Streams \ {launched + 1} : stream'[t] = stream[t]
           /\ active'.total = active.total + 1
           /\ \A q \in Roles : active'.of[q] = IF q = r THEN active.of[q] + 1 ELSE active.of[q]
<1>1. launched + 1 \in Streams /\ \A t \in Streams \ {launched + 1} : stream'[t] = stream[t]
  BY SubmitMoves
<1>2. launched + 1 \notin futures
  BY DEF Kept, LoadTypeOK
<1>3. stream'[launched + 1].role = r
  BY <1>1 DEF Submit, LoadTypeOK, Unborn
<1>4. active'.total = active.total + 1
  BY DEF Submit, LoadTypeOK, Counts
<1>5. \A q \in Roles : active'.of[q] = IF q = r THEN active.of[q] + 1 ELSE active.of[q]
  BY DEF Submit, LoadTypeOK, Counts, ToLaunch
<1> QED BY <1>1, <1>2, <1>3, <1>4, <1>5

\* After a step that recorded the streams of S and took them out of the dictionary the
\* counts are right again.
LEMMA CountsRecorded ==
    ASSUME LoadTypeOK, Counted, ~Astray, NEW S \in SUBSET futures,
           Record(S), futures' = futures \ S,
           \A s \in Streams : stream'[s].role = stream[s].role
    PROVE  Counted'
<1> USE DEF LoadTypeOK
<1>1. active' = [total |-> active.total - Cardinality(S),
                 of |-> [r \in Roles |->
                            Less(active.of[r], Cardinality({s \in S : stream[s].role = r}))]]
  BY DEF Record
<1>2. active'.total = Cardinality(futures')
  BY <1>1, FewerStreams DEF Counted
<1>3. ASSUME NEW r \in Roles PROVE active'.of[r] = Cardinality(OfRole(futures, r)')
  <2>1. OfRole(futures, r)' = OfRole(futures, r) \ OfRole(S, r)
    BY DEF OfRole
  <2>2. /\ Cardinality(OfRole(futures, r) \ OfRole(S, r))
               = Cardinality(OfRole(futures, r)) - Cardinality(OfRole(S, r))
        /\ Cardinality(OfRole(S, r)) <= Cardinality(OfRole(futures, r))
    <3>1. OfRole(futures, r) \in SUBSET Streams /\ OfRole(S, r) \in SUBSET OfRole(futures, r)
      BY DEF OfRole
    <3> QED BY <3>1, FewerStreams
  <2>3. active'.of[r] = Less(active.of[r], Cardinality(OfRole(S, r)))
    BY <1>1 DEF OfRole
  <2>4. Cardinality(OfRole(S, r)) \in Nat /\ Cardinality(OfRole(futures, r)) \in Nat
    <3>1. OfRole(S, r) \in SUBSET Streams /\ OfRole(futures, r) \in SUBSET Streams
      BY DEF OfRole
    <3> QED BY <3>1, StreamsAreFinite
  <2>5. active.of[r] = Cardinality(OfRole(futures, r))
    BY DEF Counted
  <2>6. Less(active.of[r], Cardinality(OfRole(S, r)))
            = Cardinality(OfRole(futures, r) \ OfRole(S, r))
    BY <2>2, <2>4, <2>5 DEF Less
  <2> QED BY <2>1, <2>3, <2>6
<1> QED BY <1>2, <1>3 DEF Counted

\* A step keeps Counted: what leaves the dictionary is taken off the counts then.
LEMMA CountedKept ==
    ASSUME LoadTypeOK, Kept, Draining, Counted, [LoadNext]_loadVars
    PROVE  Counted'
<1> USE DEF LoadTypeOK
<1>1. CASE Launch
  <2>1. PICK r \in ToLaunch : Submit(r)
    BY <1>1 DEF Launch
  <2>2. futures' = futures \cup {launched + 1} /\ ~Astray
    BY <1>1 DEF Launch, DAt, Astray
  <2>3. active'.total = Cardinality(futures')
    BY <2>1, <2>2, OneMoreStream, StreamsAreFinite, FS_AddElement DEF Counted
  <2>4. ASSUME NEW q \in Roles PROVE active'.of[q] = Cardinality(OfRole(futures, q)')
    <3>1. OfRole(futures, q)' = IF q = r THEN OfRole(futures, q) \cup {launched + 1}
                                ELSE OfRole(futures, q)
      BY <2>1, <2>2, OneMoreStream DEF OfRole
    <3>2. OfRole(futures, q) \in SUBSET Streams /\ launched + 1 \notin OfRole(futures, q)
      BY <2>1, OneMoreStream DEF OfRole
    <3>3. /\ IsFiniteSet(OfRole(futures, q))
          /\ active.of[q] = Cardinality(OfRole(futures, q))
      BY <2>2, <3>2, StreamsAreFinite DEF Counted
    <3>4. Cardinality(OfRole(futures, q) \cup {launched + 1}) = Cardinality(OfRole(futures, q)) + 1
      BY <3>2, <3>3, FS_AddElement
    <3> QED BY <2>1, <3>1, <3>3, <3>4, OneMoreStream
  <2> QED BY <2>3, <2>4 DEF Counted
<1>2. CASE LaunchFails
  BY <1>2 DEF LaunchFails, DGoto, Counted, Astray, DriverStates
<1>3. CASE Collect
  <2>1. {s \in futures : Done(s)} \in SUBSET futures /\ ~Astray
    BY <1>3 DEF Collect, DAt, Astray
  <2> QED BY <1>3, <2>1, CountsRecorded DEF Collect
<1>4. CASE Drain
  <2>1. ~Launch /\ ~LaunchFails /\ ~Astray /\ driver.draining \subseteq futures
    BY <1>4 DEF Launch, LaunchFails, Drain, DAt, Astray, Draining
  <2>2. PICK s \in Streams :
           IsFirst(s, driver.draining) /\ futures' = futures \ {s} /\ Record({s})
    BY <1>4 DEF Drain
  <2>3. {s} \in SUBSET futures
    BY <2>1, <2>2 DEF IsFirst
  <2>4. \A t \in Streams : stream'[t].role = stream[t].role
    BY <2>1, NothingLaunched
  <2> QED BY <2>1, <2>2, <2>3, <2>4, CountsRecorded
<1>5. ASSUME ~Launch, ~LaunchFails, ~Collect, ~Drain PROVE Counted'
  <2>1. UNCHANGED <<active, futures>> /\ (~Astray' => ~Astray)
    <3>1. CASE \E s \in Streams : StreamStep(s)
      BY <3>1 DEF StreamStep, Start, LookAtStop, BeginQuery, QueryEnds, StreamFails, Astray
    <3>2. CASE Drained
      BY <3>2 DEF Drained, DAt, Astray
    <3>3. CASE CancelQueued \/ Report \/ UNCHANGED loadVars
      BY <3>3 DEF CancelQueued, Report, DAt, Astray, loadVars
    <3>4. CASE Run \/ Plan \/ PhaseOver \/ WaitEnds \/ ShutDown
      BY <3>4 DEF Run, Plan, PhaseOver, WaitEnds, ShutDown, DGoto, DAt, Astray, DriverStates
    <3> QED BY <1>5, <3>1, <3>2, <3>3, <3>4 DEF LoadNext, DriverStep, StreamStep
  <2>2. \A r \in Roles : OfRole(futures, r)' = OfRole(futures, r)
    BY <1>5, <2>1, NothingLaunched DEF OfRole
  <2> QED BY <2>1, <2>2 DEF Counted
<1> QED BY <1>1, <1>2, <1>3, <1>4, <1>5

\* A step keeps Announced: targets are planned from counts that are right.
LEMMA AnnouncedKept ==
    ASSUME LoadTypeOK, Kept, Counted, Announced, [LoadNext]_loadVars
    PROVE  Announced'
<1> USE DEF LoadTypeOK
<1>1. CASE Plan
  <2>1. /\ driver.at = "loop" /\ driver'.phase = driver.phase /\ driver'.todo = RoleTargets(driver.phase)
        /\ UNCHANGED <<stream, futures>>
    BY <1>1 DEF Plan, DAt, DriverStates
  <2> SUFFICES ASSUME NEW r \in Roles, driver'.todo[r] > 0
               PROVE  /\ r \in DOMAIN Phases[driver.phase]
                      /\ Cardinality(OfRole(futures, r)) + driver'.todo[r] <= Phases[driver.phase][r]
    BY <2>1 DEF Announced, OfRole
  <2>2. /\ r \in DOMAIN Phases[driver.phase]
        /\ driver'.todo[r] = Less(Phases[driver.phase][r],
                                  IF HasRoles(driver.phase) THEN active.of[r] ELSE active.total)
    BY <2>1 DEF RoleTargets
  <2>3. Phases[driver.phase][r] \in Nat
    BY <2>2, LoadAssumption DEF DriverStates
  <2>4. /\ active.of[r] = Cardinality(OfRole(futures, r))
        /\ active.total = Cardinality(futures)
    BY <2>1 DEF Counted, Astray
  <2>5. /\ Cardinality(OfRole(futures, r)) <= Cardinality(futures)
        /\ Cardinality(OfRole(futures, r)) \in Nat /\ Cardinality(futures) \in Nat
    <3>1. OfRole(futures, r) \in SUBSET futures
      BY DEF OfRole
    <3> QED BY <3>1, FewerStreams, StreamsAreFinite
  <2> QED BY <2>2, <2>3, <2>4, <2>5 DEF Less
<1>2. CASE Launch
  <2>1. PICK r \in ToLaunch : Submit(r) /\ driver' = [driver EXCEPT !.todo[r] = @ - 1]
    BY <1>2 DEF Launch
  <2>2. futures' = futures \cup {launched + 1} /\ driver.at = "launch"
    BY <1>2 DEF Launch, DAt
  <2>3. driver'.phase = driver.phase /\ driver'.at = "launch"
        /\ \A q \in Roles : driver'.todo[q] = IF q = r THEN driver.todo[q] - 1 ELSE driver.todo[q]
    BY <2>1, <2>2 DEF DriverStates
  <2>4. ASSUME NEW q \in Roles, driver'.todo[q] > 0
        PROVE  /\ q \in DOMAIN Phases[driver.phase]
               /\ Cardinality(OfRole(futures, q)') + driver'.todo[q] <= Phases[driver.phase][q]
    <3>1. driver.todo[q] > 0 /\ driver.todo[q] \in Int
      BY <2>3, <2>4 DEF DriverStates
    <3>2. /\ q \in DOMAIN Phases[driver.phase]
          /\ Cardinality(OfRole(futures, q)) + driver.todo[q] <= Phases[driver.phase][q]
      BY <2>2, <3>1 DEF Announced
    <3>3. OfRole(futures, q)' = IF q = r THEN OfRole(futures, q) \cup {launched + 1}
                                ELSE OfRole(futures, q)
      BY <2>1, <2>2, OneMoreStream DEF OfRole
    <3>4. OfRole(futures, q) \in SUBSET Streams /\ launched + 1 \notin OfRole(futures, q)
      BY <2>1, OneMoreStream DEF OfRole
    <3>5. /\ Cardinality(OfRole(futures, q)) \in Nat
          /\ Cardinality(OfRole(futures, q) \cup {launched + 1}) = Cardinality(OfRole(futures, q)) + 1
      BY <3>4, StreamsAreFinite, FS_AddElement
    <3> QED BY <2>3, <3>1, <3>2, <3>3, <3>5
  <2> QED BY <2>3, <2>4 DEF Announced
<1>3. ASSUME ~Plan, ~Launch PROVE Announced'
  <2>1. CASE driver'.at # "launch"
    BY <2>1 DEF Announced
  <2>2. CASE driver'.at = "launch"
    <3>1. driver' = driver /\ futures' = futures /\ ~LaunchFails
      <4>1. CASE \E s \in Streams : StreamStep(s)
        BY <2>2, <4>1, StreamMoves DEF LaunchFails, DGoto, DriverStates
      <4>2. CASE Drain
        BY <2>2, <4>2, DrainMoves DEF DriverStates
      <4>3. CASE Drained
        BY <2>2, <4>3 DEF Drained, Driver
      <4>4. CASE CancelQueued \/ UNCHANGED loadVars
        BY <2>2, <4>4 DEF CancelQueued, loadVars, LaunchFails, DGoto, DriverStates
      <4>5. CASE Run \/ PhaseOver \/ LaunchFails \/ Collect \/ WaitEnds \/ ShutDown \/ Report
        BY <2>2, <4>5 DEF Run, PhaseOver, LaunchFails, Collect, WaitEnds, ShutDown, Report, DGoto,
                          DriverStates
      <4> QED BY <1>3, <4>1, <4>2, <4>3, <4>4, <4>5 DEF LoadNext, DriverStep, StreamStep
    <3>2. \A r \in Roles : OfRole(futures, r)' = OfRole(futures, r)
      BY <1>3, <3>1, NothingLaunched DEF OfRole
    <3> QED BY <3>1, <3>2 DEF Announced
  <2> QED BY <2>1, <2>2
<1> QED BY <1>1, <1>2, <1>3

\* A step keeps Admitted: a phase begins when the drain before it is over.
LEMMA AdmittedKept ==
    ASSUME LoadTypeOK, Kept, Draining, Announced, Admitted, [LoadNext]_loadVars
    PROVE  Admitted'
<1> USE DEF LoadTypeOK, DriverStates
<1>1. CASE Launch
  <2>1. PICK r \in ToLaunch : Submit(r) /\ driver' = [driver EXCEPT !.todo[r] = @ - 1]
    BY <1>1 DEF Launch
  <2>2. /\ futures' = futures \cup {launched + 1} /\ driver.at = "launch"
        /\ driver'.at = "launch" /\ driver'.phase = driver.phase
    BY <1>1, <2>1 DEF Launch, DAt
  <2>3. r \in DOMAIN Phases[driver.phase]
    BY <2>2 DEF Announced, ToLaunch
  <2> QED BY <2>1, <2>2, <2>3, OneMoreStream DEF Admitted, HasRoles
<1>2. CASE LaunchFails
  BY <1>2 DEF LaunchFails, DGoto, Admitted
<1>3. ASSUME ~Launch, ~LaunchFails PROVE Admitted'
  <2>1. \A s \in Streams : stream'[s].role = stream[s].role
    BY <1>3, NothingLaunched
  <2>2. CASE Run \/ Plan
    <3>1. /\ driver.at \in {"idle", "loop"} /\ driver'.at \in {"loop", "launch"}
          /\ driver'.phase = driver.phase /\ futures' = futures
      BY <2>2 DEF Run, Plan, DAt, DGoto
    <3> QED BY <2>1, <3>1 DEF Admitted, HasRoles
  <2>3. CASE Collect
    <3>1. /\ driver.at = "launch" /\ driver'.at = "loop" /\ driver'.phase = driver.phase
          /\ futures' \subseteq futures
      BY <2>3 DEF Collect, DAt, DGoto
    <3> QED BY <2>1, <3>1 DEF Admitted, HasRoles
  <2>4. CASE PhaseOver
    <3>1. /\ driver'.at = "wait" /\ driver'.phase = driver.phase /\ futures' = futures
          /\ driver'.draining = Leaving(driver.phase)
      BY <2>4 DEF PhaseOver
    <3>2. ~IsLast(driver.phase) /\ HasRoles(driver.phase + 1) =>
              \A s \in futures \ Leaving(driver.phase) :
                  stream[s].role \in DOMAIN Phases[driver.phase + 1]
      BY DEF Leaving
    <3> QED BY <2>1, <3>1, <3>2 DEF Admitted, HasRoles, IsLast
  <2>5. CASE WaitEnds
    <3>1. /\ driver.at = "wait" /\ driver'.at = "record" /\ driver'.phase = driver.phase
          /\ futures' = futures /\ driver'.draining = driver.draining
      BY <2>5 DEF WaitEnds, DAt
    <3> QED BY <2>1, <3>1 DEF Admitted, HasRoles, IsLast
  <2>6. CASE Drain
    <3>1. PICK s \in driver.draining :
              /\ driver.at = "record"
              /\ driver' = [driver EXCEPT !.draining = @ \ {s}]
              /\ futures' = futures \ {s}
      BY <2>6, DrainMoves
    <3>2. /\ driver'.at = "record" /\ driver'.phase = driver.phase
          /\ futures' \ driver'.draining \subseteq futures \ driver.draining
      BY <3>1
    <3> QED BY <2>1, <3>1, <3>2 DEF Admitted, HasRoles, IsLast
  <2>7. CASE Drained
    <3>1. driver.at = "record" /\ driver.draining = {} /\ futures' = futures
      BY <2>7 DEF Drained, DAt
    <3>2. \/ driver'.at = "shutdown"
          \/ ~IsLast(driver.phase) /\ driver'.at = "loop" /\ driver'.phase = driver.phase + 1
      BY <2>7 DEF Drained, Driver
    <3> QED BY <2>1, <3>1, <3>2 DEF Admitted, HasRoles, IsLast
  <2>8. CASE ShutDown \/ Report
    <3>1. driver'.at \in {"report", "raised", "returned"}
      BY <2>8 DEF ShutDown, Report, DGoto
    <3> QED BY <3>1 DEF Admitted
  <2>9. CASE CancelQueued \/ UNCHANGED loadVars \/ \E s \in Streams : StreamStep(s)
    <3>1. driver' = driver /\ futures' = futures
      BY <2>9, StreamMoves DEF CancelQueued, loadVars
    <3> QED BY <2>1, <3>1 DEF Admitted, HasRoles, IsLast
  <2> QED
    BY <1>3, <2>2, <2>3, <2>4, <2>5, <2>6, <2>7, <2>8, <2>9 DEF LoadNext, DriverStep, StreamStep
<1> QED BY <1>1, <1>2, <1>3

\* A step keeps Stopped.
LEMMA StoppedKept ==
    ASSUME LoadTypeOK, Kept, Draining, Stopped, [LoadNext]_loadVars
    PROVE  Stopped'
<1> USE DEF LoadTypeOK
<1>1. CASE Launch \/ LaunchFails
  <2>1. PICK r \in ToLaunch : Submit(r)
    BY <1>1 DEF Launch, LaunchFails
  <2>2. abandoned' = abandoned
    BY <1>1 DEF Launch, LaunchFails
  <2> QED BY <2>1, <2>2, SubmitMoves DEF Stopped, Streams
<1>2. CASE Drain
  <2>1. PICK s \in Streams :
           /\ IsFirst(s, driver.draining)
           /\ stream' = [stream EXCEPT ![s].stop = @ \/ s \in driver.pending]
           /\ abandoned' = Remembered(s)
    BY <1>2 DEF Drain
  <2>2. s <= launched /\ launched' = launched
    BY <1>2, <2>1 DEF Drain, DAt, Draining, Kept, IsFirst
  <2>3. s \in driver.pending => stream'[s].stop
    BY <2>1 DEF StreamStates
  <2>4. \A t \in Streams : stream[t].stop => stream'[t].stop
    BY <2>1 DEF StreamStates
  <2> QED BY <2>1, <2>2, <2>3, <2>4 DEF Remembered, Stopped
<1>3. ASSUME ~Launch, ~LaunchFails, ~Drain PROVE Stopped'
  <2>1. UNCHANGED <<launched, abandoned>>
    BY <1>3, StreamMoves
    DEF LoadNext, DriverStep, StreamStep, Run, Plan, PhaseOver, Collect, WaitEnds, Drained,
        CancelQueued, ShutDown, Report, loadVars
  <2>2. \A t \in Streams : stream[t].stop => stream'[t].stop
    BY <1>3, NothingLaunched
  <2> QED BY <2>1, <2>2 DEF Stopped
<1> QED BY <1>1, <1>2, <1>3

\* While no launch has failed, what is live is in the dictionary.
LEMMA LiveIsKept ==
    ASSUME LoadTypeOK, Kept, Stopped, ~Astray, NEW r \in Roles
    PROVE  LiveIn(r) \subseteq OfRole(futures, r)
BY DEF LoadTypeOK, Kept, Stopped, LiveIn, OfRole, Running, Done, SAt, Streams

\* The phases only advance.
LEMMA PhasesAdvance ==
    ASSUME LoadTypeOK, [LoadNext]_loadVars
    PROVE  driver'.phase = driver.phase \/ driver'.phase = driver.phase + 1
<1> USE DEF LoadTypeOK, DriverStates
<1>1. CASE Launch
  BY <1>1 DEF Launch
<1>2. CASE Drain
  BY <1>2, DrainMoves
<1>3. CASE Drained
  BY <1>3 DEF Drained, Driver
<1>4. CASE CancelQueued \/ UNCHANGED loadVars \/ \E s \in Streams : StreamStep(s)
  BY <1>4, StreamMoves DEF CancelQueued, loadVars
<1>5. CASE Run \/ Plan \/ PhaseOver \/ LaunchFails \/ Collect \/ WaitEnds \/ ShutDown \/ Report
  BY <1>5 DEF Run, Plan, PhaseOver, LaunchFails, Collect, WaitEnds, ShutDown, Report, DGoto
<1> QED BY <1>1, <1>2, <1>3, <1>4, <1>5 DEF LoadNext, DriverStep, StreamStep

\* A role stays within its targets when no stream of it becomes live.
LEMMA WithinShrinks ==
    ASSUME LoadTypeOK, LoadTypeOK', [LoadNext]_loadVars, NEW r \in Roles, Within(r),
           LiveIn(r)' \subseteq LiveIn(r)
    PROVE  Within(r)'
<1>1. CASE LiveIn(r) = {}
  BY <1>1 DEF Within
<1>2. CASE LiveIn(r) # {}
  <2>1. PICK k \in 1..driver.phase : r \in DOMAIN Phases[k] /\ Cardinality(LiveIn(r)) <= Phases[k][r]
    BY <1>2 DEF Within
  <2>2. /\ driver.phase \in PhaseIds /\ driver'.phase \in PhaseIds
        /\ Len(Phases) \in Nat
    BY LoadAssumption DEF LoadTypeOK, DriverStates
  <2>3. k \in 1..driver'.phase /\ k \in PhaseIds
    BY <2>2, PhasesAdvance DEF PhaseIds
  <2>4. Phases[k][r] \in Nat
    BY <2>1, <2>3, LoadAssumption
  <2>5. /\ IsFiniteSet(LiveIn(r)) /\ Cardinality(LiveIn(r)) \in Nat
        /\ Cardinality(LiveIn(r)') \in Nat
        /\ Cardinality(LiveIn(r)') <= Cardinality(LiveIn(r))
    <3>1. LiveIn(r) \in SUBSET Streams /\ LiveIn(r)' \in SUBSET Streams
      BY DEF LiveIn
    <3>2. IsFiniteSet(LiveIn(r)) /\ Cardinality(LiveIn(r)) \in Nat /\ Cardinality(LiveIn(r)') \in Nat
      BY <3>1, StreamsAreFinite
    <3> QED BY <3>2, FS_Subset
  <2>6. Cardinality(LiveIn(r)') <= Phases[k][r]
    BY <2>1, <2>4, <2>5
  <2> QED BY <2>1, <2>3, <2>6 DEF Within
<1> QED BY <1>1, <1>2

\* A step keeps a role within its targets.
LEMMA WithinKept ==
    ASSUME LoadTypeOK, LoadTypeOK', Kept, Announced, Stopped, [LoadNext]_loadVars,
           NEW q \in Roles, Within(q)
    PROVE  Within(q)'
<1> USE DEF LoadTypeOK
<1>1. CASE ~Launch /\ ~LaunchFails
  <2>1. \A s \in Streams : stream'[s].role = stream[s].role /\ (IsLive(s)' => IsLive(s))
    BY <1>1, NothingLaunched
  <2>2. LiveIn(q)' \subseteq LiveIn(q)
    BY <2>1 DEF LiveIn, IsLive
  <2> QED BY <2>2, WithinShrinks
<1>2. CASE Launch \/ LaunchFails
  <2>1. PICK r \in ToLaunch : Submit(r)
    BY <1>2 DEF Launch, LaunchFails
  <2>2. driver.at = "launch" /\ ~Astray
    BY <1>2 DEF Launch, LaunchFails, DAt, Astray
  <2>3. CASE q # r
    <3>1. LiveIn(q)' \subseteq LiveIn(q)
      BY <2>1, <2>3, OneMoreStream DEF LiveIn, Running, SAt
    <3> QED BY <3>1, WithinShrinks
  <2>4. CASE q = r
    <3>1. /\ r \in DOMAIN Phases[driver.phase] /\ driver.todo[r] > 0 /\ driver.todo[r] \in Int
          /\ Cardinality(OfRole(futures, r)) + driver.todo[r] <= Phases[driver.phase][r]
      BY <2>2, <2>4 DEF Announced, ToLaunch, DriverStates
    <3>2. LiveIn(r)' \subseteq OfRole(futures, r) \cup {launched + 1}
      <4>1. LiveIn(r) \subseteq OfRole(futures, r)
        BY <2>2, <2>4, LiveIsKept
      <4>2. \A t \in Streams \ {launched + 1} : t \in LiveIn(r)' => t \in LiveIn(r)
        BY <2>1, OneMoreStream DEF LiveIn, Running, SAt
      <4> QED BY <4>1, <4>2 DEF LiveIn
    <3>3. /\ Cardinality(OfRole(futures, r)) \in Nat
          /\ IsFiniteSet(OfRole(futures, r) \cup {launched + 1})
          /\ Cardinality(OfRole(futures, r) \cup {launched + 1}) = Cardinality(OfRole(futures, r)) + 1
      <4>1. OfRole(futures, r) \in SUBSET Streams /\ launched + 1 \notin OfRole(futures, r)
        BY <2>1, OneMoreStream DEF OfRole
      <4> QED BY <4>1, StreamsAreFinite, FS_AddElement
    <3>4. /\ Cardinality(LiveIn(r)') \in Nat
          /\ Cardinality(LiveIn(r)') <= Cardinality(OfRole(futures, r)) + 1
      <4>1. LiveIn(r)' \in SUBSET Streams
        BY DEF LiveIn
      <4> QED BY <3>2, <3>3, <4>1, StreamsAreFinite, FS_Subset
    <3>5. driver'.phase = driver.phase
      <4>1. CASE Launch
        BY <4>1 DEF Launch, DriverStates
      <4>2. CASE LaunchFails
        BY <4>2 DEF LaunchFails, DGoto, DriverStates
      <4> QED BY <1>2, <4>1, <4>2
    <3>6. driver.phase \in 1..driver'.phase /\ Phases[driver.phase][r] \in Nat
      BY <3>1, <3>5, LoadAssumption DEF DriverStates, PhaseIds
    <3>7. Cardinality(LiveIn(r)') <= Phases[driver.phase][r]
      BY <3>1, <3>3, <3>4, <3>6
    <3> QED BY <2>4, <3>1, <3>6, <3>7 DEF Within
  <2> QED BY <2>3, <2>4
<1> QED BY <1>1, <1>2

\* A role has never more live streams than a target it has had, and in a phase that has roles
\* none if it is not among them.
THEOREM RolesStayOnTarget == LoadSpec => []RolesOnTarget
<1>1. LoadInit => RolesInv
  <2>1. ASSUME LoadInit PROVE Counted /\ Announced /\ Admitted /\ Stopped
    <3>1. \A r \in Roles : OfRole(futures, r) = {}
      BY <2>1 DEF LoadInit, OfRole
    <3> QED BY <2>1, <3>1, FS_EmptySet
            DEF LoadInit, Driver, Counted, Announced, Admitted, Stopped, Astray
  <2>2. ASSUME LoadInit, NEW r \in Roles PROVE LiveIn(r) = {}
    BY <2>2 DEF LoadInit, Unborn, LiveIn, Running, SAt
  <2> QED BY <2>1, <2>2, LoadStarts DEF RolesInv, Within
<1>2. RolesInv /\ [LoadNext]_loadVars => RolesInv'
  <2> SUFFICES ASSUME RolesInv, [LoadNext]_loadVars PROVE RolesInv'
    OBVIOUS
  <2>1. LoadInv'
    BY LoadKept DEF RolesInv
  <2>2. Counted' /\ Announced' /\ Admitted' /\ Stopped'
    BY CountedKept, AnnouncedKept, AdmittedKept, StoppedKept DEF RolesInv, LoadInv
  <2>3. \A r \in Roles : Within(r)'
    BY <2>1, WithinKept DEF RolesInv, LoadInv
  <2> QED BY <2>1, <2>2, <2>3 DEF RolesInv
<1>3. RolesInv => RolesOnTarget
  <2> SUFFICES ASSUME RolesInv, NEW r \in Roles, LiveIn(r) # {}
               PROVE  /\ \E k \in 1..driver.phase : /\ r \in DOMAIN Phases[k]
                                                    /\ Cardinality(LiveIn(r)) <= Phases[k][r]
                      /\ DAt("launch") /\ HasRoles(driver.phase) => r \in DOMAIN Phases[driver.phase]
    BY DEF RolesOnTarget
  <2>1. DAt("launch") => LiveIn(r) \subseteq OfRole(futures, r)
    BY LiveIsKept DEF RolesInv, LoadInv, DAt, Astray
  <2>2. DAt("launch") /\ HasRoles(driver.phase) => r \in DOMAIN Phases[driver.phase]
    BY <2>1 DEF RolesInv, Admitted, DAt, OfRole
  <2> QED BY <2>2 DEF RolesInv, Within
<1> QED BY <1>1, <1>2, <1>3, PTL DEF LoadSpec
=============================================================================
