------------------------- MODULE ThroughputStreams -------------------------
(***************************************************************************)
(* One throughput phase: StreamRunner.execute submits a stream per future  *)
(* to a DaemonStreamExecutor, collects what finishes before one common     *)
(* deadline, settles the rest and leaves without waiting for the threads   *)
(* that still run.                                                         *)
(*                                                                         *)
(* The runner and every worker thread interleave freely; a step is what    *)
(* one lock of the standard library makes atomic: a queue operation, a     *)
(* semaphore operation, a change of state of a future.  The deadline may   *)
(* pass at any moment.  What a stream computes, its cooperative cancel     *)
(* event (it only makes the stream end sooner) and messages are left out.  *)
(***************************************************************************)
EXTENDS Integers, Sequences, FiniteSets

CONSTANTS
    NumStreams,      \* config.num_streams
    Workers,         \* threads; the executor may start maxWorkers of them
    HasDeadline,     \* config.stream_timeout > 0
    MaxRaises        \* bound on failing thread starts, interrupts and streams that
                     \* raise something other than an Exception

ASSUME StreamsAssumption ==
    /\ NumStreams \in Nat \ {0}
    /\ IsFiniteSet(Workers) /\ Workers # {}
    /\ HasDeadline \in BOOLEAN
    /\ MaxRaises \in Nat

Streams == 1..NumStreams
Stop == 0            \* the None that shutdown queues for each thread
NoStream == 0

VARIABLES
    maxWorkers,  \* config.max_workers or num_streams, fixed for the run
    runner,      \* [pc, at: the stream in hand, exc: what execute is about to raise]
    pending,     \* futures not yet collected or settled
    known,       \* future_to_stream_id: streams whose future submit has returned
    future,      \* state of each stream's future, "none" before it exists
    workQueue,   \* _work_queue
    permits,     \* _idle_workers
    worker,      \* [pc, item] of each thread
    completed,   \* streams whose outcome is recorded in the result
    cancelled,   \* result.cancelled_stream_ids
    outstanding, \* result.outstanding_stream_ids
    handles,     \* result._outstanding_futures
    cleanup,     \* result.cleanup_state
    raises       \* how much of MaxRaises is used

result == <<completed, cancelled, outstanding, handles, cleanup>>
pool == <<maxWorkers, future, workQueue, permits, worker>>
vars == <<runner, pending, known, pool, result, raises>>

Live == {s \in Streams : future[s] = "running"}
Absent == {w \in Workers : worker[w].pc = "absent"}
Room == Cardinality(Workers \ Absent) < maxWorkers
Getting == {w \in Workers : worker[w].pc = "get"}

\* The stream whose submission raised after its item was queued: no one got its future.
Refused ==
    IF runner.pc = "spawn" THEN {} ELSE {s \in Streams : future[s] # "none"} \ known

Init ==
    /\ maxWorkers \in 1..Cardinality(Workers)
    /\ runner = [pc |-> "submit", at |-> 1, exc |-> "none"]
    /\ pending = {} /\ known = {}
    /\ future = [s \in Streams |-> "none"]
    /\ workQueue = <<>> /\ permits = 0
    /\ worker = [w \in Workers |-> [pc |-> "absent", item |-> NoStream]]
    /\ completed = {} /\ cancelled = {} /\ outstanding = {} /\ handles = {}
    /\ cleanup = "complete"
    /\ raises = 0

-----------------------------------------------------------------------------
(* Submission: the item is queued first, then a permit taken or a thread    *)
(* started.                                                                 *)

Submit ==
    /\ runner.pc = "submit"
    /\ future' = [future EXCEPT ![runner.at] = "pending"]
    /\ workQueue' = Append(workQueue, runner.at)
    /\ runner' = [runner EXCEPT !.pc = "spawn"]
    /\ UNCHANGED <<maxWorkers, pending, known, permits, worker, result, raises>>

\* submit returns its future.
Submitted ==
    /\ known' = known \cup {runner.at}
    /\ pending' = pending \cup {runner.at}
    /\ runner' = IF runner.at = NumStreams THEN [runner EXCEPT !.pc = "wait"]
                 ELSE [runner EXCEPT !.pc = "submit", !.at = @ + 1]
    /\ UNCHANGED <<maxWorkers, future, workQueue, result, raises>>

\* A broken variant is the definition that follows it with a plausible slip; it shows
\* that a property depends on that definition, and no specification uses it.
UsePermitUnchecked ==
    /\ runner.pc = "spawn"
    /\ permits' = permits - 1
    /\ Submitted /\ UNCHANGED worker

UsePermit ==
    /\ runner.pc = "spawn" /\ permits > 0
    /\ permits' = permits - 1
    /\ Submitted /\ UNCHANGED worker

AllStarted ==
    /\ runner.pc = "spawn" /\ permits = 0 /\ ~Room
    /\ Submitted /\ UNCHANGED <<permits, worker>>

\* Broken variant: the new thread also counts as idle.
StartWorkerIdle ==
    /\ runner.pc = "spawn" /\ permits = 0 /\ Room
    /\ \E w \in Absent : worker' = [worker EXCEPT ![w].pc = "get"]
    /\ permits' = permits + 1
    /\ Submitted

StartWorker ==
    /\ runner.pc = "spawn" /\ permits = 0 /\ Room
    /\ \E w \in Absent : worker' = [worker EXCEPT ![w].pc = "get"]
    /\ Submitted /\ UNCHANGED permits

\* thread.start() raises: submit raises although its item is queued.
StartFails ==
    /\ runner.pc = "spawn" /\ permits = 0 /\ Room
    /\ raises < MaxRaises /\ raises' = raises + 1
    /\ runner' = [runner EXCEPT !.pc = "settle", !.exc = "error"]
    /\ UNCHANGED <<pending, known, pool, result>>

-----------------------------------------------------------------------------
(* The worker threads.                                                      *)

Take(w) ==
    /\ worker[w].pc = "get" /\ workQueue # <<>>
    /\ workQueue' = Tail(workQueue)
    /\ worker' = [worker EXCEPT ![w] =
            IF Head(workQueue) = Stop THEN [pc |-> "exited", item |-> NoStream]
            ELSE [pc |-> "got", item |-> Head(workQueue)]]
    /\ UNCHANGED <<maxWorkers, runner, pending, known, future, permits, result, raises>>

\* set_running_or_notify_cancel
Begin(w) ==
    /\ worker[w].pc = "got"
    /\ LET s == worker[w].item
           runs == future[s] = "pending"
       IN /\ future' = [future EXCEPT ![s] = IF runs THEN "running" ELSE "notified"]
          /\ worker' = [worker EXCEPT ![w].pc = IF runs THEN "run" ELSE "release"]
    /\ UNCHANGED <<maxWorkers, runner, pending, known, workQueue, permits, result, raises>>

\* The stream returns, or raises an Exception.
End(w) ==
    /\ worker[w].pc = "run"
    /\ future' = [future EXCEPT ![worker[w].item] = "done"]
    /\ worker' = [worker EXCEPT ![w].pc = "release"]
    /\ UNCHANGED <<maxWorkers, runner, pending, known, workQueue, permits, result, raises>>

\* The stream raises another BaseException, which future.result() raises again.
Die(w) ==
    /\ worker[w].pc = "run"
    /\ raises < MaxRaises /\ raises' = raises + 1
    /\ future' = [future EXCEPT ![worker[w].item] = "dead"]
    /\ worker' = [worker EXCEPT ![w].pc = "release"]
    /\ UNCHANGED <<maxWorkers, runner, pending, known, workQueue, permits, result>>

Release(w) ==
    /\ worker[w].pc = "release"
    /\ permits' = permits + 1
    /\ worker' = [worker EXCEPT ![w] = [pc |-> "get", item |-> NoStream]]
    /\ UNCHANGED <<maxWorkers, runner, pending, known, future, workQueue, result, raises>>

-----------------------------------------------------------------------------
(* Collection, in the order in which as_completed yields.                   *)

Collect(s) ==
    /\ runner.pc = "wait" /\ s \in pending /\ future[s] = "done"
    /\ pending' = pending \ {s}
    /\ completed' = completed \cup {s}
    /\ UNCHANGED <<runner, known, pool, cancelled, outstanding, handles, cleanup, raises>>

CollectRaises(s) ==
    /\ runner.pc = "wait" /\ s \in pending /\ future[s] = "dead"
    /\ pending' = pending \ {s}
    /\ runner' = [runner EXCEPT !.pc = "settle", !.exc = "base"]
    /\ UNCHANGED <<known, pool, result, raises>>

AllCollected ==
    /\ runner.pc = "wait" /\ pending = {}
    /\ runner' = [runner EXCEPT !.pc = "drain"]
    /\ UNCHANGED <<pending, known, pool, result, raises>>

Timeout ==
    /\ runner.pc = "wait" /\ pending # {} /\ HasDeadline
    /\ runner' = [runner EXCEPT !.pc = "settle"]
    /\ UNCHANGED <<pending, known, pool, result, raises>>

Interrupt ==
    /\ runner.pc = "wait" /\ pending # {}
    /\ raises < MaxRaises /\ raises' = raises + 1
    /\ runner' = [runner EXCEPT !.pc = "settle", !.exc = "base"]
    /\ UNCHANGED <<pending, known, pool, result>>

-----------------------------------------------------------------------------
(* Settlement, in the order of stream ids: one atomic cancel() tells a      *)
(* stream that never started from one that runs or has ended.               *)

First(s) == s \in pending /\ \A t \in pending : s <= t

\* Broken variant: the stream is listed but its future not cancelled.
SettleUncancelled(s) ==
    /\ runner.pc = "settle" /\ First(s) /\ future[s] = "pending"
    /\ pending' = pending \ {s}
    /\ cancelled' = cancelled \cup {s}
    /\ UNCHANGED <<runner, known, pool, completed, outstanding, handles, cleanup, raises>>

SettleCancel(s) ==
    /\ runner.pc = "settle" /\ First(s) /\ future[s] = "pending"
    /\ pending' = pending \ {s}
    /\ future' = [future EXCEPT ![s] = "cancelled"]
    /\ cancelled' = cancelled \cup {s}
    /\ UNCHANGED <<maxWorkers, runner, known, workQueue, permits, worker, completed,
                   outstanding, handles, cleanup, raises>>

SettleStarted(s) ==
    /\ runner.pc = "settle" /\ First(s) /\ future[s] # "pending"
    /\ pending' = pending \ {s}
    /\ runner' = [runner EXCEPT !.pc = "asked", !.at = s]
    /\ UNCHANGED <<known, pool, result, raises>>

\* future.done() answers after cancel() failed, and the stream may end between the two.
SettleDone ==
    /\ runner.pc = "asked" /\ future[runner.at] = "done"
    /\ completed' = completed \cup {runner.at}
    /\ runner' = [runner EXCEPT !.pc = "settle"]
    /\ UNCHANGED <<pending, known, pool, cancelled, outstanding, handles, cleanup, raises>>

\* Broken variant: done() is not asked.
SettleUnasked ==
    /\ runner.pc = "asked" /\ future[runner.at] \in {"running", "done"}
    /\ outstanding' = outstanding \cup {runner.at}
    /\ runner' = [runner EXCEPT !.pc = "settle"]
    /\ UNCHANGED <<pending, known, pool, completed, cancelled, handles, cleanup, raises>>

SettleOutstanding ==
    /\ runner.pc = "asked" /\ future[runner.at] = "running"
    /\ outstanding' = outstanding \cup {runner.at}
    /\ runner' = [runner EXCEPT !.pc = "settle"]
    /\ UNCHANGED <<pending, known, pool, completed, cancelled, handles, cleanup, raises>>

\* result() raises: settlement starts over in the handler of execute, or, when it was
\* already there, ends with streams unsettled.
SettleRaises ==
    /\ runner.pc = "asked" /\ future[runner.at] = "dead"
    /\ runner' = [runner EXCEPT !.pc = IF runner.exc = "none" THEN "settle" ELSE "drain",
                                !.exc = "base"]
    /\ UNCHANGED <<pending, known, pool, result, raises>>

Settled ==
    /\ runner.pc = "settle" /\ pending = {}
    /\ runner' = [runner EXCEPT !.pc = "drain"]
    /\ UNCHANGED <<pending, known, pool, result, raises>>

-----------------------------------------------------------------------------
(* The finally block: shutdown(wait=False, cancel_futures=True).            *)

Drain ==
    /\ runner.pc = "drain" /\ workQueue # <<>>
    /\ workQueue' = Tail(workQueue)
    /\ future' = [future EXCEPT ![Head(workQueue)] = IF @ = "pending" THEN "cancelled" ELSE @]
    /\ UNCHANGED <<maxWorkers, runner, pending, known, permits, worker, result, raises>>

\* Broken variant: one stop for all threads.
FinishOneStop ==
    /\ runner.pc = "drain" /\ workQueue = <<>>
    /\ workQueue' = <<Stop>>
    /\ handles' = outstanding
    /\ cleanup' = IF outstanding = {} THEN "complete" ELSE "outstanding"
    /\ runner' = [runner EXCEPT !.pc = "returned"]
    /\ UNCHANGED <<maxWorkers, pending, known, future, permits, worker, completed,
                   cancelled, outstanding, raises>>

\* One stop per thread, then the result tells what is left running.
Finish ==
    /\ runner.pc = "drain" /\ workQueue = <<>>
    /\ workQueue' = [i \in 1..Cardinality(Workers \ Absent) |-> Stop]
    /\ handles' = outstanding
    /\ cleanup' = IF outstanding = {} THEN "complete" ELSE "outstanding"
    /\ runner' = [runner EXCEPT !.pc = "returned"]
    /\ UNCHANGED <<maxWorkers, pending, known, future, permits, worker, completed,
                   cancelled, outstanding, raises>>

-----------------------------------------------------------------------------

Thread(w) == Take(w) \/ Begin(w) \/ End(w) \/ Die(w) \/ Release(w)

Execute ==
    \/ Submit \/ UsePermit \/ AllStarted \/ StartWorker \/ StartFails
    \/ \E s \in Streams :
        Collect(s) \/ CollectRaises(s) \/ SettleCancel(s) \/ SettleStarted(s)
    \/ AllCollected \/ Timeout \/ Interrupt
    \/ SettleDone \/ SettleOutstanding \/ SettleRaises \/ Settled
    \/ Drain \/ Finish

Next == Execute \/ \E w \in Workers : Thread(w)

Spec == Init /\ [][Next]_vars

-----------------------------------------------------------------------------
RunnerPCs == {"submit", "spawn", "wait", "settle", "asked", "drain", "returned"}
Runners == [pc : RunnerPCs, at : Streams, exc : {"none", "error", "base"}]
FutureStates == {"none", "pending", "cancelled", "notified", "running", "done", "dead"}
ThreadPCs == {"absent", "get", "got", "run", "release", "exited"}
Threads == [pc : ThreadPCs, item : Streams \cup {NoStream}]

\* Every variable keeps its type; a stop is queued only for a thread that exists.
TypeOK ==
    /\ maxWorkers \in 1..Cardinality(Workers)
    /\ runner \in Runners
    /\ pending \subseteq known /\ known \subseteq Streams
    /\ future \in [Streams -> FutureStates]
    /\ workQueue \in Seq(Streams \cup {Stop})
    /\ permits \in Nat
    /\ worker \in [Workers -> Threads]
    /\ completed \subseteq Streams /\ cancelled \subseteq Streams
    /\ outstanding \subseteq Streams /\ handles \subseteq Streams
    /\ cleanup \in {"complete", "outstanding", "quiesced"}
    /\ raises \in 0..MaxRaises

\* While streams are submitted and awaited, a queued stream always has a thread that is
\* about to take it, unless max_workers threads exist (_spawn_worker_if_needed).
QueuedStreamHasWorker ==
    runner.pc \in {"submit", "wait", "settle", "asked"} /\ Refused = {} /\ Room
        => Len(workQueue) <= Cardinality(Getting)

\* A second failure, while execute settles for a first one, ends its settlement early.
SettlesAll == raises < 2 \/ runner.exc # "base"

\* When execute is over, every stream it knows of is settled: recorded, cancelled and never
\* to run, reported as outstanding, or one whose exception execute raises; and all that
\* runs is reported with a handle (runner.py, _settle_pending).
Settlement ==
    runner.pc = "returned" /\ SettlesAll =>
        /\ \A s \in known :
            /\ future[s] \in {"cancelled", "notified"} <=> s \in cancelled
            /\ future[s] = "running" => s \in outstanding /\ s \in handles
            /\ future[s] # "pending"
            /\ s \in completed => future[s] = "done" /\ s \notin outstanding
        /\ Live \subseteq handles \cup Refused
=============================================================================
