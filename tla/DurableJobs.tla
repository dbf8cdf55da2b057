---------------------------- MODULE DurableJobs ----------------------------
(***************************************************************************)
(* The durable benchmark queue of the remote MCP server: a table of job    *)
(* rows in SQLite (DurableJobRepository), shared by worker processes       *)
(* (DurableJobWorker) that claim a job, run it in a thread, publish its    *)
(* artifact and attest that the work has stopped.                          *)
(*                                                                         *)
(* Every repository method is one transaction, hence one step.  Between    *)
(* two transactions a worker may be overtaken by any other worker, by the  *)
(* client or by its own death.  A worker process has a fresh identity, so  *)
(* a dead worker never comes back: a restart is another element of         *)
(* Workers.  Lease time is abstracted: a lease may be found expired at any *)
(* moment, whether its owner is dead, stalled or merely late (module       *)
(* LeaseClock looks at the clocks).                                        *)
(***************************************************************************)
EXTENDS Integers, FiniteSets

CONSTANTS
    Jobs,                    \* execution ids, each drawn once by submit
    Principals,              \* tenants
    Workers,                 \* identities of worker processes
    NoWorker,                \* NULL in an owner column
    NoJob,                   \* the job of a worker that has none
    Owner,                   \* the principal of each job
    Key,                     \* the idempotency key each submission carries
    NoKey,                   \* no idempotency key
    QueueLimit, MaxQueuedPerPrincipal, MaxRunning, MaxRunningPerPrincipal,
    MaxAttempts,             \* the fields of JobLimits
    MaxFaults                \* bound on failing store or file operations

ASSUME JobsAssumption ==
    /\ IsFiniteSet(Jobs)
    /\ Owner \in [Jobs -> Principals]
    /\ NoWorker \notin Workers /\ NoJob \notin Jobs

ASSUME LimitsAssumption ==
    /\ QueueLimit \in Nat \ {0}
    /\ MaxQueuedPerPrincipal \in Nat \ {0}
    /\ MaxRunning \in Nat \ {0}
    /\ MaxRunningPerPrincipal \in Nat \ {0}
    /\ MaxAttempts \in Nat \ {0}
    /\ MaxFaults \in Nat

VARIABLES
    row,         \* mcp_benchmark_jobs: the row of each job
    enqueues,    \* mcp_job_order, 'enqueue'
    claims,      \* mcp_job_order, 'claim'
    lastServed,  \* mcp_job_claim_fairness, 0 for a principal without a row
    final,       \* jobs whose final directory holds the published artifact
    aged,        \* jobs whose completed_at is older than the retention period
    wk,          \* the control state of each worker process
    leak,        \* work a returned executor left behind in its process
    faults       \* how many store or file operations have failed so far

store == <<row, enqueues, claims, lastServed>>
vars == <<row, enqueues, claims, lastServed, final, aged, wk, leak, faults>>

-----------------------------------------------------------------------------
(* Rows.  "absent" and "deleted" stand for no row: not yet submitted, and   *)
(* purged.  The lease is held by the worker `owner`, or, when `fenced`, by  *)
(* the recovery token that worker drew (worker_id:recovery:uuid).           *)

LeasedStates == {"running", "publishing"}
EndStates == {"completed", "failed", "cancelled", "unknown"}
States == {"absent", "deleted", "queued"} \cup LeasedStates \cup EndStates

Rows == [state : States, owner : Workers \cup {NoWorker}, fenced : BOOLEAN,
         attempts : 0..MaxAttempts, cancel : BOOLEAN, unproven : Workers \cup {NoWorker},
         quiesced : BOOLEAN, sequence : Nat]

AbsentRow == [state |-> "absent", owner |-> NoWorker, fenced |-> FALSE,
              attempts |-> 0, cancel |-> FALSE, unproven |-> NoWorker,
              quiesced |-> FALSE, sequence |-> 0]

Leased(r) == r.state \in LeasedStates
HeldBy(r, w) == Leased(r) /\ r.owner = w /\ ~r.fenced
FencedBy(r, w) == Leased(r) /\ r.owner = w /\ r.fenced
Quarantined(r) == r.state = "unknown" /\ ~r.quiesced

\* Broken variants, each the definition that follows it with a plausible slip, show
\* that a property depends on that definition; no specification uses them.
OutstandingLeasedOnly(r) == Leased(r)
OutstandingForEver(r) == Leased(r) \/ r.state = "unknown"

\* What claim counts against the running limits.
Outstanding(r) == Leased(r) \/ Quarantined(r)

Queued == {j \in Jobs : row[j].state = "queued"}
QueuedOf(p) == {j \in Queued : Owner[j] = p}
Holding == {j \in Jobs : Outstanding(row[j])}
HoldingOf(p) == {j \in Holding : Owner[j] = p}

RoomToQueue(p) == /\ Cardinality(Queued) < QueueLimit
                  /\ Cardinality(QueuedOf(p)) < MaxQueuedPerPrincipal

Unowned(r, s) == [r EXCEPT !.state = s, !.owner = NoWorker, !.fenced = FALSE]

FailedRowUnlimited(j, w, retryable) ==
    IF ~HeldBy(row[j], w) THEN row[j]
    ELSE Unowned(row[j], IF row[j].cancel THEN "cancelled"
                         ELSE IF retryable THEN "queued" ELSE "failed")
FailedRowOverfull(j, w, retryable) ==
    IF ~HeldBy(row[j], w) THEN row[j]
    ELSE Unowned(row[j], IF row[j].cancel THEN "cancelled"
                         ELSE IF retryable /\ row[j].attempts < MaxAttempts
                         THEN "queued" ELSE "failed")
FailedRowByAnyone(j, w, retryable) ==
    Unowned(row[j], IF row[j].cancel THEN "cancelled" ELSE "failed")

\* The row after fail_attempt: unchanged unless w still holds the lease.
FailedRow(j, w, retryable) ==
    LET r == row[j]
        retry == /\ retryable
                 /\ ~r.cancel
                 /\ r.attempts < MaxAttempts
                 /\ RoomToQueue(Owner[j])
    IN  CASE ~HeldBy(r, w) -> r
          [] HeldBy(r, w) /\ retry -> Unowned(r, "queued")
          [] HeldBy(r, w) /\ ~retry /\ r.cancel -> Unowned(r, "cancelled")
          [] OTHER -> Unowned(r, "failed")

MayAttestLeaseOnly(r, w) == ~r.quiesced /\ HeldBy(r, w)

\* The row after attest_quiescence by w.
MayAttest(r, w) ==
    /\ ~r.quiesced
    /\ \/ r.state = "unknown" /\ r.unproven = w
       \/ HeldBy(r, w)
       \/ Leased(r) /\ r.unproven = w

AttestedRow(r, w) ==
    IF MayAttest(r, w) THEN [r EXCEPT !.quiesced = TRUE, !.unproven = w] ELSE r

\* The row after mark_unknown_outstanding by w.
OutstandingRow(r, w) ==
    IF HeldBy(r, w)
    THEN [Unowned(r, "unknown") EXCEPT !.unproven = w, !.quiesced = FALSE]
    ELSE r

\* complete commits only for the holder of an uncancelled publishing lease.
MayComplete(r, w) == HeldBy(r, w) /\ r.state = "publishing" /\ ~r.cancel

CompletedRow(r, w) == IF MayComplete(r, w) THEN Unowned(r, "completed") ELSE r

RecoveredRowUnchecked(r, w, found) ==
    IF ~FencedBy(r, w) THEN r
    ELSE Unowned(r, IF r.state = "publishing" THEN "completed" ELSE "unknown")
RecoveredRowRequeued(r, w, found) ==
    IF ~FencedBy(r, w) THEN r
    ELSE Unowned(r, IF r.state = "publishing" /\ found THEN "completed" ELSE "queued")
RecoveredRowUnpublished(r, w, found) ==
    IF ~FencedBy(r, w) \/ (r.state = "publishing" /\ ~found) THEN r
    ELSE Unowned(r, IF r.state = "publishing" THEN "completed" ELSE "unknown")

\* The row after recover, given whether a published artifact was found.
RecoveredRow(r, w, found) ==
    CASE ~FencedBy(r, w) -> r
      [] FencedBy(r, w) /\ r.state = "publishing" /\ found -> Unowned(r, "completed")
      [] OTHER -> Unowned(r, "unknown")

DeletableUnquiesced(r) == r.state \in EndStates

\* Rows retention may delete.
Deletable(r) == \/ r.state \in {"completed", "failed", "cancelled"}
                \/ r.state = "unknown" /\ r.quiesced

-----------------------------------------------------------------------------
(* Workers.  pc names the await a worker has reached:                       *)
(*   loop        between jobs                                               *)
(*   gate, drop  before the attempt: read the row; fail_attempt('cancelled')*)
(*   late        before the attempt: the lease is gone, attest              *)
(*   exec        the executor runs in a thread                              *)
(*   outstanding mark_unknown_outstanding     reject   fail_attempt, final  *)
(*   check       get                          discard  fail_attempt, cancel *)
(*   begin       begin_publication            publish  complete             *)
(*   finally     attest_quiescence            except   the exception handler*)
(*   revive      complete without publishing  giveup   fail_attempt, retry  *)
(*   look, clean, settle   recovery: marker, rmtree, recover                *)
(*   purge       delete_terminal                                            *)
(*   exiting, dead         the process is leaving, is gone                  *)

InGroup == {"exec", "outstanding", "reject", "check", "discard", "begin", "publish"}
PCs == {"loop", "gate", "drop", "late", "finally", "except", "revive", "giveup", "look",
        "clean", "settle", "purge", "exiting", "dead"} \cup InGroup

Verdicts == {"quiescent", "attestable", "unobserved"}

Processes == [pc : PCs, job : Jobs \cup {NoJob}, lost : BOOLEAN, verdict : Verdicts,
              exc : {"none", "error", "stop"}, publishing : BOOLEAN, found : BOOLEAN]

IdleWorker == [pc |-> "loop", job |-> NoJob, lost |-> FALSE, verdict |-> "quiescent",
               exc |-> "none", publishing |-> FALSE, found |-> FALSE]

\* Work a returned executor leaves behind is loose, and in the end over, with
\* nobody waiting for it; once the attempt is marked unknown, a background thread
\* watches tracked work, and attests when it has ended.
LeakStates == {"none", "loose", "over", "watched", "ended"}

At(w, pc) == wk[w].pc = pc
Goto(w, pc) == wk' = [wk EXCEPT ![w].pc = pc]
Return(w) == wk' = [wk EXCEPT ![w] = IdleWorker]
Unwind(w, pc, lost) ==
    wk' = [wk EXCEPT ![w] = [IdleWorker EXCEPT !.pc = pc, !.job = wk[w].job, !.lost = lost]]
Leave(w, exc) == wk' = [wk EXCEPT ![w].pc = "finally", ![w].exc = exc]
SetRow(j, r) == row' = [row EXCEPT ![j] = r]

Init ==
    /\ row = [j \in Jobs |-> AbsentRow]
    /\ enqueues = 0 /\ claims = 0
    /\ lastServed = [p \in Principals |-> 0]
    /\ final = {} /\ aged = {}
    /\ wk = [w \in Workers |-> IdleWorker]
    /\ leak = [w \in Workers |-> [j \in Jobs |-> "none"]]
    /\ faults = 0

-----------------------------------------------------------------------------
(* Clients.                                                                 *)

Present(j) == row[j].state \notin {"absent", "deleted"}

\* submit answers with the existing row, and changes nothing, for a key in use.
KeyTaken(j) == /\ Key[j] # NoKey
               /\ \E i \in Jobs : Present(i) /\ Owner[i] = Owner[j] /\ Key[i] = Key[j]

Submit(j) ==
    /\ row[j].state = "absent"
    /\ ~KeyTaken(j)
    /\ RoomToQueue(Owner[j])
    /\ enqueues' = enqueues + 1
    /\ SetRow(j, [AbsentRow EXCEPT !.state = "queued", !.sequence = enqueues + 1])
    /\ UNCHANGED <<claims, lastServed, final, aged, wk, leak, faults>>

\* Accepted while queued, requested while running, too late afterwards.
Cancel(j) ==
    /\ row[j].state \in {"queued", "running"}
    /\ SetRow(j, [row[j] EXCEPT !.cancel = TRUE,
                     !.state = IF @ = "queued" THEN "cancelled" ELSE @])
    /\ UNCHANGED <<enqueues, claims, lastServed, final, aged, wk, leak, faults>>

\* The retention period of a finished job runs out.
Age(j) ==
    /\ row[j].state \in EndStates
    /\ aged' = aged \cup {j}
    /\ UNCHANGED <<row, enqueues, claims, lastServed, final, wk, leak, faults>>

-----------------------------------------------------------------------------
(* The worker loop: claim.                                                  *)

CanRun(p) == Cardinality(HoldingOf(p)) < MaxRunningPerPrincipal

AheadByArrival(i, j) == row[i].sequence <= row[j].sequence

\* The least recently served principal first, its oldest job first.
Ahead(i, j) ==
    \/ lastServed[Owner[i]] < lastServed[Owner[j]]
    \/ /\ lastServed[Owner[i]] = lastServed[Owner[j]]
       /\ row[i].sequence <= row[j].sequence

NextToRun(j) ==
    /\ Cardinality(Holding) < MaxRunning
    /\ j \in Queued
    /\ CanRun(Owner[j])
    /\ \A i \in Queued : CanRun(Owner[i]) => Ahead(j, i)

ClaimedRow(r, w) ==
    [r EXCEPT !.state = "running", !.attempts = @ + 1, !.owner = w, !.fenced = FALSE,
              !.unproven = NoWorker, !.quiesced = FALSE]

Claim(w, j) ==
    /\ At(w, "loop")
    /\ NextToRun(j)
    /\ SetRow(j, ClaimedRow(row[j], w))
    /\ claims' = claims + 1
    /\ lastServed' = [lastServed EXCEPT ![Owner[j]] = claims + 1]
    /\ wk' = [wk EXCEPT ![w].pc = "gate", ![w].job = j]
    /\ UNCHANGED <<enqueues, final, aged, leak, faults>>
-----------------------------------------------------------------------------
(* One attempt (_run_job).                                                  *)

Gate(w) ==
    LET r == row[wk[w].job] IN
    /\ At(w, "gate")
    /\ Goto(w, IF ~HeldBy(r, w) \/ r.state # "running" THEN "late"
               ELSE IF r.cancel THEN "drop" ELSE "exec")
    /\ UNCHANGED <<store, final, aged, leak, faults>>

Late(w) ==
    LET j == wk[w].job IN
    /\ At(w, "late")
    /\ SetRow(j, AttestedRow(row[j], w))
    /\ Return(w)
    /\ UNCHANGED <<enqueues, claims, lastServed, final, aged, leak, faults>>

\* fail_attempt with the error code `cancelled`, before any work was done.
Drop(w) ==
    LET j == wk[w].job IN
    /\ At(w, "drop")
    /\ SetRow(j, FailedRow(j, w, TRUE))
    /\ Return(w)
    /\ UNCHANGED <<enqueues, claims, lastServed, final, aged, leak, faults>>

\* The heartbeat finds that renew no longer applies.  A renewal that does apply
\* only moves the lease's generation and expiry, which this module abstracts.
LoseLease(w) ==
    /\ wk[w].pc \in InGroup
    /\ ~wk[w].lost
    /\ ~HeldBy(row[wk[w].job], w)
    /\ wk' = [wk EXCEPT ![w].lost = TRUE]
    /\ UNCHANGED <<store, final, aged, leak, faults>>

\* The executor thread returns or raises, whatever happened to the lease
\* meanwhile; _assess_executor compares what it left running with what it said.
ExecEnd(w) ==
    /\ At(w, "exec")
    /\ \E verdict \in Verdicts, result \in {"check", "reject", "error"} :
         /\ verdict = "unobserved" => result # "error"
         /\ \/ verdict = "quiescent" /\ UNCHANGED leak
            \/ verdict # "quiescent" /\ leak' = [leak EXCEPT ![w][wk[w].job] = "loose"]
            \/ verdict = "unobserved" /\ leak' = [leak EXCEPT ![w][wk[w].job] = "over"]
         /\ wk' = [wk EXCEPT ![w].verdict = verdict,
                      ![w].exc = IF @ = "none" /\ verdict = "quiescent" /\ result = "error"
                                 THEN "error" ELSE @,
                      ![w].pc = IF wk[w].exc # "none" THEN "finally"
                                ELSE IF verdict # "quiescent" THEN "outstanding"
                                ELSE IF result = "error" THEN "finally" ELSE result]
    /\ UNCHANGED <<store, final, aged, faults>>

\* Only tracked work gets a background thread that waits for it.
MarkOutstanding(w) ==
    LET j == wk[w].job IN
    /\ At(w, "outstanding")
    /\ SetRow(j, OutstandingRow(row[j], w))
    /\ IF wk[w].verdict = "attestable"
       THEN leak' = [leak EXCEPT ![w][j] = IF @ = "loose" THEN "watched" ELSE "ended"]
       ELSE UNCHANGED leak
    /\ Goto(w, "finally")
    /\ UNCHANGED <<enqueues, claims, lastServed, final, aged, faults>>

Reject(w) ==
    LET j == wk[w].job IN
    /\ At(w, "reject")
    /\ SetRow(j, FailedRow(j, w, FALSE))
    /\ Goto(w, "finally")
    /\ UNCHANGED <<enqueues, claims, lastServed, final, aged, leak, faults>>

Check(w) ==
    LET j == wk[w].job IN
    /\ At(w, "check")
    /\ Goto(w, IF ~Present(j) \/ row[j].cancel THEN "discard"
               ELSE IF wk[w].lost THEN "finally" ELSE "begin")
    /\ UNCHANGED <<store, final, aged, leak, faults>>

Discard(w) ==
    LET j == wk[w].job IN
    /\ At(w, "discard")
    /\ SetRow(j, FailedRow(j, w, TRUE))
    /\ Goto(w, "finally")
    /\ UNCHANGED <<enqueues, claims, lastServed, final, aged, leak, faults>>

MayBeginCancelled(r, w) == HeldBy(r, w) /\ r.state = "running"

MayBegin(r, w) == HeldBy(r, w) /\ r.state = "running" /\ ~r.cancel

Begin(w) ==
    LET j == wk[w].job
        r == row[j]
    IN  /\ At(w, "begin")
        /\ SetRow(j, IF MayBegin(r, w) THEN [r EXCEPT !.state = "publishing"] ELSE r)
        /\ Goto(w, IF MayBegin(r, w) THEN "publish" ELSE "finally")
        /\ UNCHANGED <<enqueues, claims, lastServed, final, aged, leak, faults>>

\* complete holds the write lock while staging is renamed to the final directory.
Publish(w) ==
    LET j == wk[w].job IN
    /\ At(w, "publish")
    /\ SetRow(j, CompletedRow(row[j], w))
    /\ final' = IF MayComplete(row[j], w) THEN final \cup {j} ELSE final
    /\ Goto(w, "finally")
    /\ UNCHANGED <<enqueues, claims, lastServed, aged, leak, faults>>

\* The finally block attests, shielded from cancellation, unless work was left
\* behind; then the attempt ends, is handed to the handler, or unwinds.
AfterFinally(exc) == CASE exc = "none" -> "loop" [] exc = "error" -> "except"
                       [] OTHER -> "exiting"

Finally(w) ==
    LET j == wk[w].job
        next == AfterFinally(wk[w].exc)
    IN  /\ At(w, "finally")
        /\ SetRow(j, IF wk[w].verdict = "quiescent" THEN AttestedRow(row[j], w) ELSE row[j])
        /\ IF next = "loop" THEN Return(w) ELSE Unwind(w, next, wk[w].lost)
        /\ UNCHANGED <<enqueues, claims, lastServed, final, aged, leak, faults>>

\* The handler: an artifact that did get published is completed; a lost lease is
\* left to recovery; otherwise the attempt fails, and may be retried.
Except(w) ==
    /\ At(w, "except")
    /\ IF wk[w].job \in final THEN Unwind(w, "revive", FALSE)
       ELSE IF wk[w].lost THEN Return(w) ELSE Unwind(w, "giveup", FALSE)
    /\ UNCHANGED <<store, final, aged, leak, faults>>

Revive(w) ==
    LET j == wk[w].job IN
    /\ At(w, "revive")
    /\ SetRow(j, CompletedRow(row[j], w))
    /\ Return(w)
    /\ UNCHANGED <<enqueues, claims, lastServed, final, aged, leak, faults>>

Giveup(w) ==
    LET j == wk[w].job IN
    /\ At(w, "giveup")
    /\ SetRow(j, FailedRow(j, w, TRUE))
    /\ Return(w)
    /\ UNCHANGED <<enqueues, claims, lastServed, final, aged, leak, faults>>

-----------------------------------------------------------------------------
(* Work left behind by an executor that returned.                           *)

LeakEnds(w, j) ==
    /\ leak[w][j] \in {"loose", "watched"}
    /\ leak' = [leak EXCEPT ![w][j] = IF @ = "loose" THEN "over" ELSE "ended"]
    /\ UNCHANGED <<store, final, aged, wk, faults>>

AttestLeak(w, j) ==
    /\ leak[w][j] = "ended"
    /\ SetRow(j, AttestedRow(row[j], w))
    /\ leak' = [leak EXCEPT ![w][j] = "none"]
    /\ UNCHANGED <<enqueues, claims, lastServed, final, aged, wk, faults>>

-----------------------------------------------------------------------------
(* Recovery of expired leases (recover_expired) and retention.              *)

Fence(w, j) ==
    LET r == row[j] IN
    /\ At(w, "loop")
    /\ Leased(r)
    /\ SetRow(j, [r EXCEPT !.owner = w, !.fenced = TRUE,
                     !.unproven = IF @ = NoWorker THEN r.owner ELSE @])
    /\ wk' = [wk EXCEPT ![w].pc = "look", ![w].job = j,
                 ![w].publishing = r.state = "publishing"]
    /\ UNCHANGED <<enqueues, claims, lastServed, final, aged, leak, faults>>

Look(w) ==
    /\ At(w, "look")
    /\ wk' = [wk EXCEPT ![w].pc = "clean", ![w].found = wk[w].job \in final]
    /\ UNCHANGED <<store, final, aged, leak, faults>>

CleanPublished(w) ==
    /\ At(w, "clean")
    /\ final' = IF wk[w].publishing THEN final \ {wk[w].job} ELSE final
    /\ Goto(w, "settle")
    /\ UNCHANGED <<store, aged, leak, faults>>

\* Half-published directories of an expired publication are removed.
Clean(w) ==
    /\ At(w, "clean")
    /\ final' = IF wk[w].publishing /\ ~wk[w].found THEN final \ {wk[w].job} ELSE final
    /\ Goto(w, "settle")
    /\ UNCHANGED <<store, aged, leak, faults>>

Settle(w) ==
    LET j == wk[w].job IN
    /\ At(w, "settle")
    /\ SetRow(j, RecoveredRow(row[j], w, wk[w].found /\ j \in final))
    /\ Return(w)
    /\ UNCHANGED <<enqueues, claims, lastServed, final, aged, leak, faults>>

PurgeFiles(w, j) ==
    /\ At(w, "loop")
    /\ j \in aged /\ Deletable(row[j])
    /\ final' = IF row[j].state = "completed" THEN final \ {j} ELSE final
    /\ wk' = [wk EXCEPT ![w].pc = "purge", ![w].job = j]
    /\ UNCHANGED <<store, aged, leak, faults>>

PurgeRow(w) ==
    LET j == wk[w].job IN
    /\ At(w, "purge")
    /\ SetRow(j, IF Deletable(row[j]) THEN [AbsentRow EXCEPT !.state = "deleted"] ELSE row[j])
    /\ Return(w)
    /\ UNCHANGED <<enqueues, claims, lastServed, final, aged, leak, faults>>
-----------------------------------------------------------------------------
(* Failures.  Each fault is a store or file operation that raises, at most  *)
(* MaxFaults of them.  One that raises outside the task group ends the      *)
(* worker task and with it the server: that is a crash.                     *)

Fault == faults < MaxFaults /\ faults' = faults + 1

\* An exception unwinds to the finally block; a running executor ends first.
Interrupt(w, exc) == IF At(w, "exec") THEN wk' = [wk EXCEPT ![w].exc = exc]
                     ELSE Leave(w, exc)

\* renew raises: the heartbeat task cancels the attempt.
HeartbeatFails(w) ==
    /\ wk[w].pc \in InGroup
    /\ ~wk[w].lost
    /\ wk[w].exc # "stop"
    /\ Interrupt(w, "error")
    /\ Fault
    /\ UNCHANGED <<store, final, aged, leak>>

\* The transaction the attempt was about to make raises and rolls back.
StoreFails(w) ==
    /\ wk[w].pc \in InGroup \ {"exec"}
    /\ Leave(w, "error")
    /\ Fault
    /\ UNCHANGED <<store, final, aged, leak>>

\* complete raises after os.replace: the artifact stays, the row rolls back.
PublishFails(w) ==
    /\ At(w, "publish")
    /\ MayComplete(row[wk[w].job], w)
    /\ final' = final \cup {wk[w].job}
    /\ Leave(w, "error")
    /\ Fault
    /\ UNCHANGED <<store, aged, leak>>

AttestFails(w) ==
    /\ At(w, "finally")
    /\ wk[w].verdict = "quiescent"
    /\ Unwind(w, IF wk[w].exc = "stop" THEN "exiting" ELSE "except", wk[w].lost)
    /\ Fault
    /\ UNCHANGED <<store, final, aged, leak>>

\* The background thread gives up after _ATTEST_ATTEMPTS failures.
AttestLeakFails(w, j) ==
    /\ leak[w][j] = "ended"
    /\ leak' = [leak EXCEPT ![w][j] = "none"]
    /\ Fault
    /\ UNCHANGED <<store, final, aged, wk>>

\* The lifespan of the server ends and cancels the worker task.
Stop(w) ==
    /\ \/ wk[w].pc \in InGroup /\ Interrupt(w, "stop")
       \/ wk[w].pc \in {"loop", "gate", "late", "drop", "except", "revive", "giveup"}
          /\ Unwind(w, "exiting", FALSE)
    /\ UNCHANGED <<store, final, aged, leak, faults>>

\* The process ends, and its daemon threads with it.
Die(w) ==
    /\ wk' = [wk EXCEPT ![w] = [IdleWorker EXCEPT !.pc = "dead"]]
    /\ leak' = [leak EXCEPT ![w] = [j \in Jobs |-> "none"]]

Exit(w) == At(w, "exiting") /\ Die(w) /\ UNCHANGED <<store, final, aged, faults>>

Crash(w) == ~At(w, "dead") /\ Die(w) /\ UNCHANGED <<store, final, aged, faults>>

\* The process dies between os.replace and the commit of the completed row.
CrashInPublish(w) ==
    /\ At(w, "publish")
    /\ MayComplete(row[wk[w].job], w)
    /\ final' = final \cup {wk[w].job}
    /\ Die(w)
    /\ UNCHANGED <<store, aged, faults>>

-----------------------------------------------------------------------------

Client == \E j \in Jobs : Submit(j) \/ Cancel(j) \/ Age(j)

Pick(w) == \E j \in Jobs : Claim(w, j) \/ Fence(w, j) \/ PurgeFiles(w, j)

\* What a worker does next without being asked: the awaits of one attempt,
\* one recovery or one purge.
Proceed(w) ==
    \/ Gate(w) \/ Late(w) \/ Drop(w) \/ MarkOutstanding(w) \/ Reject(w)
    \/ Check(w) \/ Discard(w) \/ Begin(w) \/ Publish(w) \/ Finally(w)
    \/ Except(w) \/ Revive(w) \/ Giveup(w)
    \/ Look(w) \/ Clean(w) \/ Settle(w) \/ PurgeRow(w) \/ Exit(w)

Leaked(w) == \E j \in Jobs : LeakEnds(w, j) \/ AttestLeak(w, j) \/ AttestLeakFails(w, j)

Failure(w) == \/ HeartbeatFails(w) \/ StoreFails(w) \/ PublishFails(w) \/ AttestFails(w)
              \/ Stop(w) \/ Crash(w) \/ CrashInPublish(w)

Next == \/ Client
        \/ \E w \in Workers : \/ Pick(w) \/ Proceed(w) \/ ExecEnd(w) \/ LoseLease(w)
                              \/ Leaked(w) \/ Failure(w)

Spec == Init /\ [][Next]_vars

\* A worker that is alive keeps making the calls its loop makes, an executor
\* returns in the end, and the background thread of ended work gets to run.
\* Nothing forces leaked work to end, a heartbeat to notice, or a process to live.
Fairness ==
    \A w \in Workers :
        /\ WF_vars(Proceed(w))
        /\ WF_vars(ExecEnd(w))
        /\ \A j \in Jobs : /\ WF_vars(Claim(w, j))
                           /\ WF_vars(Fence(w, j))
                           /\ WF_vars(AttestLeak(w, j))

\* A recovery is three short calls against a lease of lease_seconds: for progress,
\* a worker that is alive is not fenced out of a recovery it is carrying out.
TimelyRecovery ==
    \A j \in Jobs : row[j].fenced /\ row'[j].fenced /\ row[j].owner # row'[j].owner
                      => At(row[j].owner, "dead")

FairSpec == Init /\ [][Next /\ TimelyRecovery]_vars /\ Fairness

-----------------------------------------------------------------------------
(* Properties.                                                              *)

\* The rows, counters and processes keep their types.
TypeOK ==
    /\ row \in [Jobs -> Rows]
    /\ enqueues \in Nat /\ claims \in Nat
    /\ lastServed \in [Principals -> Nat]
    /\ final \subseteq Jobs /\ aged \subseteq Jobs
    /\ wk \in [Workers -> Processes]
    /\ leak \in [Workers -> [Jobs -> LeakStates]]
    /\ faults \in 0..MaxFaults

\* The threads that may be executing database work for a job right now: executors
\* that have not returned, and work an executor left behind.
Running(j) == {w \in Workers : At(w, "exec") /\ wk[w].job = j}
LeftBehind(j) == {w \in Workers : leak[w][j] \in {"loose", "watched"}}
Live(j) == Running(j) \cup LeftBehind(j) # {}
LiveJobs == {j \in Jobs : Live(j)}

\* Work that is physically running, displaced and leaked work included, never
\* exceeds the running limits, globally or per principal: a lost lease keeps its
\* slot until the displaced thread has ended.
CapacityHolds ==
    faults = 0 =>
        /\ Cardinality(LiveJobs) <= MaxRunning
        /\ \A p \in Principals :
              Cardinality({j \in LiveJobs : Owner[j] = p}) <= MaxRunningPerPrincipal

\* No two attempts of a job ever execute at the same time, and a job waiting for
\* a retry has nothing executing: only a quiescent attempt is retried.
ExclusiveExecution ==
    faults = 0 =>
        \A j \in Jobs :
            /\ Cardinality(Running(j)) + Cardinality(LeftBehind(j)) <= 1
            /\ row[j].state = "queued" => ~Live(j)

\* Resubmitting under the idempotency key of earlier work never runs it twice at
\* once: the earlier row answers for as long as its work may be running.
KeyedWorkRunsOnce ==
    faults = 0 =>
        \A i, j \in LiveJobs :
            i # j /\ Owner[i] = Owner[j] /\ Key[i] = Key[j] => Key[i] = NoKey

\* A job that reads as completed has its artifact until retention, and an artifact
\* that reached the final directory, whatever failed after the rename, belongs to
\* a job that is completed or will be completed by its worker or by recovery.
ArtifactMatchesRow ==
    \A j \in Jobs \ aged :
        /\ row[j].state = "completed" => j \in final
        /\ j \in final => row[j].state \in {"publishing", "completed"}

\* Submissions and retries together respect the queued limits.
QueueBounded ==
    /\ Cardinality(Queued) <= QueueLimit
    /\ \A p \in Principals : Cardinality(QueuedOf(p)) <= MaxQueuedPerPrincipal

\* A cancellation the client was told is accepted or requested is never followed
\* by a publication, and a job whose outcome is known never changes it: the only
\* later steps are the attestation of an unknown job and retention.
CancelledNeverPublished ==
    \A j \in Jobs : row[j].cancel => row[j].state \notin {"publishing", "completed"}

OutcomesAreFinal ==
    [][\A j \in Jobs :
          row[j].state \in EndStates =>
              \/ row'[j].state = row[j].state /\ row'[j].attempts = row[j].attempts
              \/ row'[j].state = "deleted" /\ (faults = 0 => ~Live(j))]_vars

\* Someone can still attest the end of the work that holds a quarantined slot: its
\* process is alive and on its way to the attestation, or a thread watches the work.
Attester(j) ==
    LET w == row[j].unproven IN
    /\ w # NoWorker
    /\ \/ leak[w][j] \in {"watched", "ended"}
       \/ wk[w].job = j /\ wk[w].pc \in InGroup \cup {"gate", "late", "finally"}

\* The documented cases in which nobody will: the process is gone or leaving, or
\* the reported work was never tracked.
NoLongerObserved(j) ==
    LET w == row[j].unproven IN
    \/ wk[w].pc \in {"exiting", "dead"}
    \/ leak[w][j] \in {"loose", "over"}

\* While the worker lives, a quarantined slot is either still to be attested or one
\* of the documented cases, unless the job was cancelled (the attempt that finds
\* the request before it starts, and then loses its lease, attests nothing).
NoOrphanedSlot ==
    faults = 0 =>
        \A j \in Jobs : Quarantined(row[j]) =>
                         Attester(j) \/ NoLongerObserved(j) \/ row[j].cancel

\* The documentation's claim: only the documented cases never attest.
OnlyDocumentedQuarantines ==
    \A j \in Jobs : Quarantined(row[j]) => Attester(j) \/ NoLongerObserved(j)

\* The documentation's claim: only an attempt proven quiescent is retried.
RetriesOnlyQuiescentAttempts ==
    \A j \in Jobs : row[j].state = "queued" => ~Live(j)

AllGone == \A w \in Workers : wk[w].pc \in {"exiting", "dead"}

\* Quarantined work occupies every slot job j could run in.
SlotsHeld(j) ==
    \/ Cardinality({i \in Jobs : Quarantined(row[i])}) >= MaxRunning
    \/ Cardinality({i \in Jobs : Quarantined(row[i]) /\ Owner[i] = Owner[j]})
          >= MaxRunningPerPrincipal

\* A queued job leaves the queue, whichever workers crash and leases are lost, as
\* long as a worker lives and quarantined work does not hold all its slots.
QueueDrains ==
    \A j \in Jobs :
        row[j].state = "queued" ~> row[j].state # "queued" \/ AllGone \/ SlotsHeld(j)

\* A lease whose holder died, or whose attempt ended without releasing it, is
\* settled by some worker that is alive.
LeasesAreSettled ==
    \A j \in Jobs : Leased(row[j]) ~> ~Leased(row[j]) \/ AllGone

\* A quarantined slot is released once the displaced work has ended, if the process
\* that watches it lives on.
QuarantineLifts ==
    \A j \in Jobs :
        Quarantined(row[j]) ~>
            \/ ~Quarantined(row[j])
            \/ Live(j) \/ NoLongerObserved(j) \/ row[j].cancel
-----------------------------------------------------------------------------
(* The queue implements the contract as long as no store operation fails.   *)

PhaseOf(r) == CASE r.state = "absent" -> "new"
                [] r.state = "queued" -> "waiting"
                [] Leased(r) -> "active"
                [] r.state = "completed" -> "done"
                [] r.state = "unknown" -> "lost"
                [] r.state = "deleted" -> "gone"
                [] OTHER -> "stopped"

Standing == [j \in Jobs |-> PhaseOf(row[j])]

Contract == INSTANCE JobContract WITH
    phase <- Standing, slots <- Holding, live <- LiveJobs, published <- final

\* Every step of rows, workers, recovery and retention is a step of the contract.
ImplementsContract == Contract!Init /\ [][faults' = 0 => Contract!Next]_(Contract!vars)
=============================================================================
