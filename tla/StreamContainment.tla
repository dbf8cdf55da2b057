------------------------- MODULE StreamContainment -------------------------
(***************************************************************************)
(* What is done with the result of a throughput phase that left streams    *)
(* running.  The thread of the run checks the phase boundary, waits a      *)
(* little for quiescence, measures, reads the tuning back and closes its   *)
(* connection; when streams are still outstanding a cleanup thread closes  *)
(* it later.  The durable worker that called the run assesses it and       *)
(* attests, at once or from a thread of its own.                           *)
(*                                                                         *)
(* All of them call await_quiescence on the one result, which rewrites its *)
(* lists without a lock: each read and each write is a step.               *)
(***************************************************************************)
EXTENDS ThroughputStreams

VARIABLES
    run,         \* where the thread of the run is
    contained,   \* _post_measurement_contained
    conn,        \* the connection of the run
    attested,    \* the durable worker has attested quiescence
    await        \* [pc, left, ids] of each caller of await_quiescence

client == <<run, contained, conn, attested, await>>
cvars == <<vars, client>>

Callers == {"run", "closer", "attester"}

Asleep == [pc |-> "off", left |-> {}, ids |-> {}]
Asking == [pc |-> "read", left |-> {}, ids |-> {}]

Call(c) == await' = [await EXCEPT ![c] = Asking]
Forget(c) == await' = [await EXCEPT ![c] = Asleep]

CInit ==
    /\ Init
    /\ run = "execute" /\ contained = FALSE /\ conn = "open" /\ attested = FALSE
    /\ await = [c \in Callers |-> Asleep]

-----------------------------------------------------------------------------
(* await_quiescence                                                         *)

AwaitRead(c) ==
    /\ await[c].pc = "read"
    /\ await' = [await EXCEPT ![c].left = handles,
                              ![c].pc = IF handles # {} THEN "wait"
                                        ELSE IF outstanding = {} THEN "yes" ELSE "no"]
    /\ UNCHANGED <<vars, run, contained, conn, attested>>

\* wait returns when all are done or when the timeout has passed.
AwaitWait(c) ==
    /\ await[c].pc = "wait"
    /\ await' = [await EXCEPT ![c].left = @ \cap Live, ![c].pc = "ids"]
    /\ UNCHANGED <<vars, run, contained, conn, attested>>

AwaitIds(c) ==
    /\ await[c].pc = "ids"
    /\ await' = [await EXCEPT ![c].ids = outstanding \cap await[c].left, ![c].pc = "list"]
    /\ UNCHANGED <<vars, run, contained, conn, attested>>

AwaitList(c) ==
    /\ await[c].pc = "list"
    /\ outstanding' = await[c].ids
    /\ await' = [await EXCEPT ![c].pc = "handles"]
    /\ UNCHANGED <<runner, pending, known, pool, completed, cancelled, handles, cleanup, raises,
                   run, contained, conn, attested>>

AwaitHandles(c) ==
    /\ await[c].pc = "handles"
    /\ handles' = await[c].left
    /\ cleanup' = IF await[c].left = {} THEN "quiesced" ELSE cleanup
    /\ await' = [await EXCEPT ![c].pc = IF await[c].left = {} THEN "yes" ELSE "no"]
    /\ UNCHANGED <<runner, pending, known, pool, completed, cancelled, outstanding, raises,
                   run, contained, conn, attested>>

Await(c) == AwaitRead(c) \/ AwaitWait(c) \/ AwaitIds(c) \/ AwaitList(c) \/ AwaitHandles(c)

-----------------------------------------------------------------------------
(* The thread of the run.                                                   *)

\* An Exception of execute still yields the result; any other leaves through the finally
\* block of the adapter, which closes the connection.
Return ==
    /\ run = "execute" /\ runner.pc = "returned"
    /\ IF runner.exc = "base" THEN run' = "aborted" /\ conn' = "closed"
       ELSE run' = "boundary" /\ conn' = conn
    /\ UNCHANGED <<vars, contained, attested, await>>

\* A combined run goes on to maintenance, unless streams are outstanding.
Boundary ==
    /\ run = "boundary"
    /\ \/ outstanding = {} /\ run' = "maintenance"
       \/ run' = "contain"
    /\ UNCHANGED <<vars, contained, conn, attested, await>>

MaintenanceEnds ==
    /\ run = "maintenance" /\ run' = "contain"
    /\ UNCHANGED <<vars, contained, conn, attested, await>>

Contain ==
    /\ run = "contain"
    /\ IF outstanding = {} THEN run' = "measure" /\ UNCHANGED await
       ELSE run' = "containing" /\ Call("run")
    /\ UNCHANGED <<vars, contained, conn, attested>>

\* A broken variant of the definition it precedes, for the check of a property; no
\* specification uses it.
ContainedUnheeded ==
    /\ run = "containing" /\ await["run"].pc \in {"yes", "no"}
    /\ run' = "measure" /\ contained' = FALSE
    /\ Forget("run")
    /\ UNCHANGED <<vars, conn, attested>>

Contained ==
    /\ run = "containing"
    /\ \/ await["run"].pc = "yes" /\ run' = "measure" /\ contained' = FALSE
       \/ await["run"].pc = "no" /\ run' = "readback" /\ contained' = TRUE
    /\ Forget("run")
    /\ UNCHANGED <<vars, conn, attested>>

\* Plans and link metadata are captured on the connection of the run.
MeasureEnds ==
    /\ run = "measure" /\ run' = "readback"
    /\ UNCHANGED <<vars, contained, conn, attested, await>>

\* The applied tuning is read back on the connection of the run, contained or not.
ReadBackEnds ==
    /\ run = "readback" /\ run' = "close"
    /\ UNCHANGED <<vars, contained, conn, attested, await>>

Close ==
    /\ run = "close" /\ run' = "assess"
    /\ IF contained THEN Call("closer") /\ UNCHANGED conn
       ELSE conn' = "closed" /\ UNCHANGED await
    /\ UNCHANGED <<vars, contained, attested>>

\* The worker holds the results execute recorded, which are those with outstanding streams.
Assess ==
    /\ run = "assess"
    /\ IF cleanup = "complete" THEN run' = "done" /\ attested' = TRUE /\ UNCHANGED await
       ELSE run' = "assessing" /\ Call("run") /\ UNCHANGED attested
    /\ UNCHANGED <<vars, contained, conn>>

Assessed ==
    /\ run = "assessing" /\ await["run"].pc \in {"yes", "no"} /\ run' = "done"
    /\ IF await["run"].pc = "yes" THEN attested' = TRUE /\ Forget("run")
       ELSE /\ await' = [await EXCEPT !["run"] = Asleep, !["attester"] = Asking]
            /\ UNCHANGED attested
    /\ UNCHANGED <<vars, contained, conn>>

-----------------------------------------------------------------------------
(* The two threads that keep asking.  AskAgainOnce is a broken variant of   *)
(* AskAgain.                                                                *)

AskAgainOnce(c) ==
    /\ c = "attester" /\ await[c].pc = "no"
    /\ Call(c)
    /\ UNCHANGED <<vars, run, contained, conn, attested>>

AskAgain(c) ==
    /\ c # "run" /\ await[c].pc = "no"
    /\ Call(c)
    /\ UNCHANGED <<vars, run, contained, conn, attested>>

CloseLate ==
    /\ await["closer"].pc = "yes"
    /\ conn' = "closed" /\ Forget("closer")
    /\ UNCHANGED <<vars, run, contained, attested>>

AttestLate ==
    /\ await["attester"].pc = "yes"
    /\ attested' = TRUE /\ Forget("attester")
    /\ UNCHANGED <<vars, run, contained, conn>>

-----------------------------------------------------------------------------

Run == Return \/ Boundary \/ MaintenanceEnds \/ Contain \/ Contained \/ MeasureEnds
    \/ ReadBackEnds \/ Close \/ Assess \/ Assessed

Watch == \E c \in Callers : Await(c) \/ AskAgain(c)

Phase == Next /\ UNCHANGED client

CNext == Phase \/ Run \/ Watch \/ CloseLate \/ AttestLate

CSpec == CInit /\ [][CNext]_cvars

\* Threads that can go on do go on.  Nothing makes a stream end, an interrupt arrive or a
\* call fail.
FairCSpec ==
    /\ CSpec
    /\ WF_cvars(Execute /\ UNCHANGED client)
    /\ \A w \in Workers : WF_cvars((Take(w) \/ Begin(w) \/ Release(w)) /\ UNCHANGED client)
    /\ WF_cvars(Run) /\ WF_cvars(CloseLate) /\ WF_cvars(AttestLate)
    /\ \A c \in Callers : WF_cvars(Await(c) \/ AskAgain(c))

-----------------------------------------------------------------------------
\* Until every stream the result reports has ended, no maintenance starts, nothing is
\* measured, the connection stays open and no attestation is made; a run that an interrupt
\* or a dying stream aborts closes its connection all the same (containment.py,
\* execution.py, adapter.py, jobs.py).
ContainedUntilQuiet ==
    \/ Live \subseteq Refused
    \/ /\ run \notin {"maintenance", "measure"} /\ ~attested
       /\ conn = "closed" => run = "aborted"

\* execute returns although streams never end, and then every thread of the executor ends
\* unless a stream keeps it (runner.py, shutdown(wait=False); executor.py, shutdown).
ThreadsAreLeft ==
    <>[](/\ runner.pc = "returned"
         /\ \A w \in Workers : worker[w].pc \in {"absent", "exited", "run"})

Released ==
    run = "aborted" \/ (conn = "closed" /\ attested /\ outstanding = {} /\ handles = {})
Torn == outstanding # {} /\ handles = {}

\* Once nothing runs any more the run is released for good: the connection is closed, the
\* work attested and no stream listed as outstanding
\* (docs/operations/concurrency-proof-matrix.md:80).
ReleasedOnceQuiet == <>[](Live = {}) => <>[]Released

\* It fails in one way only: the list names streams that no handle is left for
\* (containment.py, await_quiescence).
ReleasedUnlessTorn == <>[](Live = {}) => <>[]Released \/ <>[]Torn

-----------------------------------------------------------------------------
(* What users of the connection may build on is PhaseContract; a stream is  *)
(* taken on when its submission returned.                                   *)

Life(s) ==
    CASE s \notin known -> "new"
      [] s \in known /\ future[s] = "pending" -> "waiting"
      [] s \in known /\ future[s] = "running" -> "running"
      [] s \in known /\ future[s] = "done" -> "ended"
      [] s \in known /\ future[s] = "dead" -> "dead"
      [] OTHER -> "barred"

Lives == [s \in Streams |-> Life(s)]

\* Not while a stream runs; an aborted run is left to fail, its connection is closed.
LeftBehind ==
    run # "aborted" /\ (run \in {"maintenance", "measure"} \/ attested \/ conn = "closed")

PhaseStage ==
    IF ~SettlesAll THEN "broken" ELSE IF runner.pc = "returned" THEN "over" ELSE "open"

Contract == INSTANCE PhaseContract
    WITH life <- Lives, recorded <- completed, named <- outstanding,
         stage <- PhaseStage, left <- LeftBehind

\* Every step of runner, threads, run and askers is one the contract allows, or none: no
\* stream begins after the phase or once cancelled, none is told of twice or too early, and
\* nobody who rewrites the list drops one that runs (runner.py, executor.py, containment.py,
\* execution.py).
ImplementsPhase == Contract!Spec

\* No maintenance starts while a worker of the phase may still run
\* (docs/operations/concurrency-proof-matrix.md:18).
MaintenanceRunsAlone == run = "maintenance" => Live = {}
=============================================================================
