------------------------------ MODULE LoadTest ------------------------------
(***************************************************************************)
(* ConcurrentLoadExecutor.run (experimental/load_testing/executor.py): the *)
(* thread that calls it keeps the streams of each phase at its target,     *)
(* waits for those whose role the next phase lacks, for a bounded time,    *)
(* and at the end for all; what has not ended by then is abandoned.        *)
(* Streams run their queries on the threads of a pool, in the order in     *)
(* which they were submitted.                                              *)
(*                                                                         *)
(* Of the clock there is left that a phase ends and that a wait may time   *)
(* out.  Queries take any time and may hang.  Queue times, latencies, the  *)
(* resource monitor and max_concurrency_reached are left out.              *)
(***************************************************************************)
EXTENDS Integers, Sequences, FiniteSets

CONSTANTS
    Phases,                 \* of the pattern: for each one, the target of each role
    NoRole,                 \* the role of the streams of a phase that has none
    MaxConcurrency,         \* threads of the pool
    QueriesPerStream,
    MaxStreams              \* bounds the streams of a run

Streams == 1..MaxStreams
PhaseIds == 1..Len(Phases)
Roles == UNION {DOMAIN Phases[k] : k \in PhaseIds}

ASSUME LoadAssumption ==
    /\ Len(Phases) \in Nat \ {0}
    /\ \A k \in PhaseIds : \A r \in DOMAIN Phases[k] : Phases[k][r] \in Nat
    /\ \A k \in PhaseIds : NoRole \in DOMAIN Phases[k] => DOMAIN Phases[k] = {NoRole}
    /\ MaxConcurrency \in Nat \ {0} /\ QueriesPerStream \in Nat /\ MaxStreams \in Nat

VARIABLES
    driver,     \* the thread in run: where it is, and the local variables it uses there
    stream,     \* what each stream is doing, and its _stream_stops event
    launched,   \* stream_counter
    futures,    \* the streams with a future in the dictionary of that name
    active,     \* _active_streams and _active_roles
    results,    \* how many results of each stream are in _stream_results
    abandoned,  \* _abandoned
    outstanding \* outstanding_stream_ids of the result

loadVars == <<driver, stream, launched, futures, active, results, abandoned, outstanding>>

\* late: queries begun since the stop event was set.
Unborn == [at |-> "new", role |-> NoRole, left |-> 0, stop |-> FALSE, late |-> 0]

Driver(stage, k) == [at |-> stage, phase |-> k, todo |-> [r \in Roles |-> 0],
                     draining |-> {}, pending |-> {}]

LoadInit ==
    /\ driver = Driver("idle", 1)
    /\ stream = [s \in Streams |-> Unborn]
    /\ launched = 0
    /\ futures = {}
    /\ active = [total |-> 0, of |-> [r \in Roles |-> 0]]
    /\ results = [s \in Streams |-> 0]
    /\ abandoned = {}
    /\ outstanding = {}

-----------------------------------------------------------------------------

DAt(s) == driver.at = s
DGoto(s) == driver' = [driver EXCEPT !.at = s]
SAt(s, stages) == stream[s].at \in stages
SGoto(s, stage) == stream' = [stream EXCEPT ![s].at = stage]

Done(s) == SAt(s, {"ended", "cancelled"})
Running(s) == SAt(s, {"look", "begin", "query"})
Queued == {s \in Streams : SAt(s, {"queued"})}
IsFirst(s, S) == s \in S /\ \A t \in S : s <= t

Less(n, m) == IF n > m THEN n - m ELSE 0

HasRoles(k) == NoRole \notin DOMAIN Phases[k]

\* _role_targets.
RoleTargets(k) ==
    [r \in Roles |->
        IF r \notin DOMAIN Phases[k] THEN 0
        ELSE Less(Phases[k][r], IF HasRoles(k) THEN active.of[r] ELSE active.total)]

Run == DAt("idle") /\ DGoto("loop")
       /\ UNCHANGED <<stream, launched, futures, active, results, abandoned, outstanding>>

Plan ==
    /\ DAt("loop")
    /\ driver' = [driver EXCEPT !.at = "launch", !.todo = RoleTargets(driver.phase)]
    /\ UNCHANGED <<stream, launched, futures, active, results, abandoned, outstanding>>

\* At the bound the loop goes round without launching.
ToLaunch == {r \in Roles : driver.todo[r] > 0 /\ launched < MaxStreams}

Submit(r) ==
    /\ launched' = launched + 1
    /\ stream' = [stream EXCEPT ![launched + 1] =
                     [Unborn EXCEPT !.at = "queued", !.role = r, !.left = QueriesPerStream]]
    /\ active' = [active EXCEPT !.total = @ + 1, !.of[r] = @ + 1]

Launch ==
    /\ DAt("launch")
    /\ \E r \in ToLaunch :
           /\ Submit(r)
           /\ driver' = [driver EXCEPT !.todo[r] = @ - 1]
    /\ futures' = futures \cup {launched + 1}
    /\ UNCHANGED <<results, abandoned, outstanding>>

\* The pool has queued the stream when it fails to start a thread: submit raises, and
\* nothing catches it.
LaunchFails ==
    /\ DAt("launch")
    /\ \E r \in ToLaunch : Submit(r)
    /\ DGoto("failing")
    /\ UNCHANGED <<futures, results, abandoned, outstanding>>

\* _record_stream_future for the streams of S: their results, and what its finally block
\* takes off the counts.
Record(S) ==
    /\ results' = [s \in Streams |-> IF s \in S THEN results[s] + 1 ELSE results[s]]
    /\ active' = [total |-> active.total - Cardinality(S),
                  of |-> [r \in Roles |->
                            Less(active.of[r], Cardinality({s \in S : stream[s].role = r}))]]

Collect ==
    LET completed == {s \in futures : Done(s)} IN
    /\ DAt("launch") /\ ToLaunch = {}
    /\ Record(completed)
    /\ futures' = futures \ completed
    /\ DGoto("loop")
    /\ UNCHANGED <<stream, launched, abandoned, outstanding>>

IsLast(k) == k = Len(Phases)

\* Broken variants of the definition that follows, here and below, for the checks of the
\* properties.
LeavingAtEnd(k) == IF IsLast(k) THEN futures ELSE {}

\* The streams waited for before the next phase, if there is one that has roles, and at the
\* end of the run.
Leaving(k) ==
    IF IsLast(k) THEN futures
    ELSE IF HasRoles(k + 1) THEN {s \in futures : stream[s].role \notin DOMAIN Phases[k + 1]}
    ELSE {}

\* The phase has lasted long enough.
PhaseOver ==
    /\ DAt("loop")
    /\ driver' = [driver EXCEPT !.at = "wait", !.draining = Leaving(driver.phase)]
    /\ UNCHANGED <<stream, launched, futures, active, results, abandoned, outstanding>>

NeverTimesOut == \A s \in driver.draining : Done(s)
MayTimeOut == TRUE

\* All have ended, or the wait times out.
WaitEnds ==
    /\ DAt("wait") /\ MayTimeOut
    /\ driver' = [driver EXCEPT !.at = "record", !.pending = {s \in driver.draining : ~Done(s)}]
    /\ UNCHANGED <<stream, launched, futures, active, results, abandoned, outstanding>>

RememberedNever(s) == abandoned
Remembered(s) == abandoned \cup ({s} \cap driver.pending)

\* One whose wait timed out is abandoned although it may have ended since.
Drain ==
    /\ DAt("record")
    /\ \E s \in Streams :
       /\ IsFirst(s, driver.draining)
       /\ driver' = [driver EXCEPT !.draining = @ \ {s}]
       /\ futures' = futures \ {s}
       /\ Record({s})
       /\ stream' = [stream EXCEPT ![s].stop = @ \/ s \in driver.pending]
       /\ abandoned' = Remembered(s)
    /\ UNCHANGED <<launched, outstanding>>

Drained ==
    /\ DAt("record") /\ driver.draining = {}
    /\ IF IsLast(driver.phase) THEN driver' = Driver("shutdown", driver.phase)
       ELSE driver' = Driver("loop", driver.phase + 1)
    /\ UNCHANGED <<stream, launched, futures, active, results, abandoned, outstanding>>

\* shutdown(wait=False, cancel_futures=True) takes the streams off the queue one by one.
CancelQueued ==
    /\ DAt("shutdown") \/ DAt("failing")
    /\ \E s \in Streams : IsFirst(s, Queued) /\ SGoto(s, "cancelled")
    /\ UNCHANGED <<driver, launched, futures, active, results, abandoned, outstanding>>

ShutDown ==
    /\ Queued = {}
    /\ \/ DAt("shutdown") /\ DGoto("report")
       \/ DAt("failing") /\ DGoto("raised")
    /\ UNCHANGED <<stream, launched, futures, active, results, abandoned, outstanding>>

Report ==
    /\ DAt("report")
    /\ outstanding' = {s \in abandoned : ~Done(s)}
    /\ DGoto("returned")
    /\ UNCHANGED <<stream, launched, futures, active, results, abandoned>>

-----------------------------------------------------------------------------
(* _execute_stream, on a thread of the pool.                                *)

Start(s) ==
    /\ IsFirst(s, Queued)
    /\ Cardinality({t \in Streams : Running(t)}) < MaxConcurrency
    /\ SGoto(s, "look")
    /\ UNCHANGED <<driver, launched, futures, active, results, abandoned, outstanding>>

End(s) == stream' = [stream EXCEPT ![s].at = "ended", ![s].left = 0]

MayGoOnUnasked(s) == stream[s].left > 0
MayGoOn(s) == stream[s].left > 0 /\ ~stream[s].stop

LookAtStop(s) ==
    /\ SAt(s, {"look"})
    /\ IF MayGoOn(s) THEN SGoto(s, "begin") ELSE End(s)
    /\ UNCHANGED <<driver, launched, futures, active, results, abandoned, outstanding>>

BeginQuery(s) ==
    /\ SAt(s, {"begin"})
    /\ stream' = [stream EXCEPT ![s].at = "query", ![s].left = @ - 1,
                                ![s].late = IF stream[s].stop THEN @ + 1 ELSE @]
    /\ UNCHANGED <<driver, launched, futures, active, results, abandoned, outstanding>>

\* The query succeeds, fails or raises.
QueryEnds(s) ==
    /\ SAt(s, {"query"})
    /\ SGoto(s, "look")
    /\ UNCHANGED <<driver, launched, futures, active, results, abandoned, outstanding>>

\* There is no connection, or the query factory raises.
StreamFails(s) ==
    /\ SAt(s, {"look"})
    /\ End(s)
    /\ UNCHANGED <<driver, launched, futures, active, results, abandoned, outstanding>>

DriverStep ==
    \/ Launch \/ LaunchFails \/ Collect \/ WaitEnds \/ Drain \/ Drained
    \/ CancelQueued \/ ShutDown \/ Report

LoadNext ==
    \/ Run \/ Plan \/ PhaseOver \/ DriverStep
    \/ \E s \in Streams :
          Start(s) \/ LookAtStop(s) \/ BeginQuery(s) \/ QueryEnds(s) \/ StreamFails(s)

\* The loop of a phase sees, again and again, whether the time of the phase is over, and in
\* the end it is.  No query has to end.
LoadSpec ==
    /\ LoadInit /\ [][LoadNext]_loadVars
    /\ WF_loadVars(DriverStep) /\ SF_loadVars(PhaseOver)

-----------------------------------------------------------------------------
(* Properties.                                                              *)

\* The streams of a role that have not ended and may go on.
LiveIn(r) == {s \in Streams : stream[s].role = r /\ ~stream[s].stop
                             /\ (Running(s) \/ SAt(s, {"queued"}))}

\* A role has never more live streams than the largest target it has had, and in a phase
\* that has roles none if it is not among them: the streams of the phase before have ended
\* or been stopped (_await_role_drain).
RolesOnTarget ==
    \A r \in Roles :
        \/ LiveIn(r) = {}
        \/ /\ \E k \in 1..driver.phase : /\ r \in DOMAIN Phases[k]
                                        /\ Cardinality(LiveIn(r)) <= Phases[k][r]
           /\ DAt("launch") /\ HasRoles(driver.phase) => r \in DOMAIN Phases[driver.phase]

\* When run returns, each stream launched has one result, and what still runs is in
\* outstanding_stream_ids (docs/operations/concurrency-proof-matrix.md:97): after
\* cleanup_state "complete" nothing runs, whatever timed out, hung or ended late.
AllAccountedFor ==
    DAt("returned") =>
        /\ \A s \in Streams : results[s] = IF s <= launched THEN 1 ELSE 0
        /\ \A s \in Streams : Running(s) \/ SAt(s, {"queued"}) => s \in outstanding

\* An abandoned stream stops between queries: it begins at most the one it was about to
\* begin when it was stopped (docs/operations/concurrency-proof-matrix.md:94).
StopsBetweenQueries == \A s \in Streams : stream[s].late <= 1

\* The run returns, or raises, although queries may hang.
LoadTestEnds == ~DAt("idle") ~> DAt("returned") \/ DAt("raised")
=============================================================================
