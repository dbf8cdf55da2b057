# BenchBox: specifications and proofs

BenchBox runs database benchmarks (TPC-H, TPC-DS, TPC-DI, SSB and others) from a command
line or through an MCP server. Most of the repository is data: SQL text, generators, answer
sets, schemas, adapters for some forty databases. This directory is about the rest, the
parts whose correctness depends on the order in which several actors take their steps: the
durable job queue of the remote server, the throughput streams and what contains them,
admission, archive downloads, the caches that threads and processes share, and the load-test
executor.

Paths below are relative to `src/benchbox/` unless they start with `docs/`, `tests/` or
`scripts/`.

## Inventory

| Component | State | Operations | Who interacts | Hard behaviour | What makes it correct |
|---|---|---|---|---|---|
| **Durable benchmark jobs** `mcp/jobs.py` | SQLite tables: job rows (state, lease owner, token, generation, attempts, cancellation, unproven owner, quiescence), order counters, last service per tenant; staging and final directories; the control state of each worker; leftover work | submit, cancel, claim, renew, begin_publication, complete, fail_attempt, mark_unknown_outstanding, attest_quiescence, claim_expired, recover, delete_terminal; the worker's `_run_job`, `recover_expired`, `purge_expired` | clients, worker processes, executor threads, cleanup threads, all through the table | leases lost while a thread runs, crashes between file and row, cancellation against publication, retries, recovery against recovery, quarantine | capacity, one attempt at a time, artifact and row agree, cancellations honoured, outcomes final, tenants served in turn, slots and leases come back |
| **Throughput streams** `core/throughput/` | per-stream futures, one deadline, completed / cancelled / outstanding lists, daemon threads, a semaphore of idle permits | `StreamRunner.execute`, `_settle_pending`, `DaemonStreamExecutor.submit/shutdown`, `await_quiescence` | phases, the durable worker and a cleanup thread call `await_quiescence` on one result | deadline against completion, permits against thread creation, abandoned threads | every stream ends in exactly one list, no queued stream without a thread, `quiescent` only when nothing runs |
| **Phase and connection containment** `platforms/base/execution.py`, `adapter.py`, the official TPC runners | the outstanding result of the last throughput phase, the connection | phase boundary, `close` | throughput streams | a maintenance phase or a close while a timed-out stream uses the connection | no later phase overlaps an unproven stream |
| **Remote admission** `mcp/security.py` | tickets (waiting, active), leases, rate windows, boot id | admit, `_enqueue`, `_try_promote`, renew, release, cleanup; the heartbeat of `_call_admitted` | server processes through one store | waiting tickets without lease, expiry against renewal, release in a cancelled request, restarts of the host | active tickets within limits, execution on an active ticket, waiters admitted in the end |
| **Data fetch** `core/data_fetch/`, `core/joinorder/benchmark.py` | archive, partial file, lock, extracted tables | verify, lock, download with resume, hash, rename, extract, forced start | concurrent fetchers, the server | resume against a changed archive, checks repeated under the lock, extraction outside it, deaths | an archive in place is the pinned one, downloaded once; it is extracted where a table was missing; wrong tables are being written; a fetch ends |
| **Expected-result registry** `core/expected_results/registry.py` | cache, in-flight slots, providers | load (single flight), clear, register | threads | waiter timeouts, clearing during a load, a provider that breaks off | one load per scale, waiters answered, nothing older than a clear |
| **DataFrame cache** `core/dataframe/data_loader.py` | Parquet files and a manifest in one directory | has_cached_data, get_cached_files, convert, save_manifest, prune, clear_cache | processes | files and manifest are replaced one after the other, without a lock, by calls with different hashes; a conversion fails over a file of another hash | what the manifest names is of its hash |
| **Single-flight cache and timeouts** `utils/` | cache under one lock; timers | get, clear | threads | none: the load runs under the lock | – |
| **Publication store** `core/publishing/` | one JSON file | add, remove, list | processes | read-modify-write without a lock; a file that does not parse reads as empty | (not kept: concurrent additions are lost) |
| **TPC-DI error recovery** `core/tpcdi/etl/error_recovery.py` | error records, retry counts, checkpoints, dead letters | handle_error, should_retry, execute_with_recovery | one thread | retry limits, the last failure, checkpoint identity | bounded retries, nothing lost |
| **Load testing** `experimental/load_testing/executor.py` | the dictionary of futures, counts of active streams and roles, a stop event per stream, results, abandoned and outstanding ids | run: plan, submit, collect, drain a role, drain all, shut down, report; `_execute_stream` | the calling thread and the threads of a pool | waits that time out while streams end, hang or are still queued; a stop that comes between look and query; roles that change between phases | each role on its target, each stream one result, what still runs reported, the run returns |
| **TPC-DI loading**, **site deployment gates** | batches and dimension rows; generation files | see `PROJECT.json` | – | candidates for pure operators or later modules | – |
| **Benchmark lifecycle**, **benchmarks and query generation**, **platform adapters**, **results**, **command line and MCP tools** | – | sequential pipelines, data, I/O | – | – | not modelled |

`PROJECT.json` lists the source files of each component, and, under `hazards`, every point
of this code found so far that is hard to test, at its line, with the properties that cover
it or the reason why none does.

## Modules

| Module | What it is |
|---|---|
| `DurableJobs` | the queue, its workers, their failures; properties; the mapping to `JobContract` |
| `JobContract` | what the queue promises: jobs, slots, running work and artifacts, no rows or leases |
| `LeaseClock` | how a lease is found expired: observation on each process's own monotonic clock |
| `MCDurableJobs`, `MCJobFairness` | instances for TLC; the second adds a history variable that counts who was served while whom waited |
| `ThroughputStreams` | one throughput phase: runner, executor, worker threads |
| `StreamContainment` | what follows the phase: the boundary, `await_quiescence` by several threads, the connection, the attestation; it extends `ThroughputStreams` and runs beside it; the mapping to `PhaseContract` |
| `PhaseContract` | what a phase promises to the users of its connection: streams and lists, no threads, queues or waiting callers |
| `Admission` | tickets, rates and leases of remote requests, and the requests themselves |
| `ArchiveFetch` | processes that fetch, download and extract one archive |
| `RegistryFlight` | threads that look up expected results at several scale factors |
| `FrameCache` | calls that fill and use one directory of cached Parquet files |
| `LoadTest` | the executor of a load test and its streams |
| `MCHosts`, `MCServices` | instances for TLC of three modules each, side by side: the lease, the archive and the DataFrame cache, where processes meet in files; admission, the registry and the load test. The three share no state, and a behaviour is one of the module that `part` names |
| `DurableJobsProofs` | types, cancellation, queue and slot limits, proved |
| `DurableJobsCapacity` | capacity, exclusion, idempotency keys and final outcomes, proved |
| `DurableJobsContract` | artifacts, quarantined slots, and the implementation of `JobContract`, proved |
| `JobFairnessProofs` | that no waiting tenant is passed twice, proved for the whole queue |
| `ThroughputStreamsProofs` | types, the balance of queue, permits and threads, and what becomes of each stream, proved |
| `StreamContainmentProofs` | containment and the implementation of `PhaseContract`, proved for any number of streams and threads |
| `HostProofs` | what processes share, proved: admission's types, limits and leases, the archive's lock and tables, the DataFrame cache, and the first lease of a job |
| `ThreadProofs` | single flight and freshness of the registry, and the bookkeeping of a load test, proved |

### `DurableJobs` and `mcp/jobs.py`

A repository method opens one `BEGIN IMMEDIATE` transaction, so a method is one step; what
the worker does between two awaits of `_run_job`, `recover_expired` or `purge_expired` is
one action too, named for the await. `wk[w].pc` is the await worker process `w` has
reached:

    claim -> gate -> exec -> check -> begin -> publish -> finally -> loop
               |       |-> outstanding -------------------^
               |       |-> reject ------------------------^
               |-> late (lease gone: attest)   check -> discard -> finally
               |-> drop (cancelled)            finally -> except -> revive | giveup
    fence -> look -> clean -> settle           purge files -> purge row

* `row[j]` is the table row. `absent` and `deleted` stand for no row. A lease is held by
  `owner`, or, when `fenced`, by the recovery token that worker drew in `claim_expired`.
  Lease generation and expiry time are abstracted: `Fence` may find any lease expired at
  any time, which covers every clock. `LeaseClock` is about the clocks.
* The operators named `...Row` are the repository methods as functions of a row
  (`FailedRow` is `fail_attempt`), with their `WHERE` clauses as guards: a method called by
  a worker that lost its lease changes nothing, and the caller goes on as the code does.
* `ExecEnd` is the executor thread returning or raising, with any verdict
  `_assess_executor` can give: `quiescent`, `attestable` (tracked work left behind),
  `unobserved` (work that is only reported). A cancelled task waits for its thread, so a
  cancellation is remembered in `exc` until then.
* `leak[w][j]` is work an executor left behind. Only tracked work gets the background
  thread of `_attest_when_leaked_work_ends`. `over` work has ended without anyone waiting
  for it.
* `final` is the set of jobs whose final directory holds the artifact with its marker. The
  rename and the commit of `completed` are one step only when nothing fails;
  `PublishFails` and `CrashInPublish` come between them.
* A worker identity is drawn at process start, so a dead worker stays dead and a restart is
  another element of `Workers`. `Crash` may happen anywhere; `Stop` and `Exit` are the
  orderly end of the server's lifespan.
* A *fault* is a store or file operation that raises; `MaxFaults` bounds them. One that
  raises where the code has no handler ends the worker task and the server with it: that is
  a crash, which is unbounded.

Not in the model: the migration of old tables, leases of version 1 (wall clock only, read
for compatibility), `capacity_summary` and the read-only tools, the contents of results and
responses, and faults inside recovery and retention (those end the server: a crash).

A cancellation that arrives between the worker's `get` and `begin_publication` makes the
latter refuse; the row stays `running` until its lease expires and ends `unknown`. The
model follows the code; the cancellation is honoured, its outcome is not `cancelled`.

### `LeaseClock` and the clocks

One row, several workers, ticks of monotonic time. `claim_expired` is three steps, and
anything may happen between them: `StartScan` looks at the clock (`observed_at`), `ReadRows`
is the transaction that reads the rows, `TakeOver` the one that writes. An identity
`(owner, generation)` that is new to the worker is dated by the clock, not by the read, so a
worker that was held up in between dates it too early: `scan[w].delay` is by how much, and
`seen[w].late`, a history variable, keeps it. An identity that was known already counts with
the age it had when the clock was read (`scan[w].ripe`), and a row that is not leased is
dropped from the observations. The takeover checks owner and generation again.

`FirstLeaseIsHonoured` says exactly what this gives: a lease is taken over when it has gone
unrenewed for a whole lease, less the time the observer was held up between clock and read.
That the delay is short is up to the host and not the code. Time does not pass a renewal
period of a live owner without its renewal, which is what a punctual heartbeat does, and a
recovery is over within a lease. A row that completes without passing through `publishing`
stands for both, since the two states have one lease.

### `ThroughputStreams` and `core/throughput/`

`runner.pc` follows `StreamRunner.execute`:

    submit <-> spawn -> wait -> drain -> returned
                 |        |-> settle <-> asked
                 |-----------> settle -> drain

* `DaemonStreamExecutor.submit` is two steps, `Submit` (the item is queued) and one of
  `UsePermit`, `AllStarted`, `StartWorker`, `StartFails`: a thread may take the item in
  between, and its permit may or may not be back in time.
* A worker is `get`, `got`, `run`, `release`, `exited`. `Begin` is
  `set_running_or_notify_cancel`, atomic against the `cancel` of `SettleCancel`.
* `SettleStarted` is the failed `cancel()`, and `SettleDone`, `SettleOutstanding` or
  `SettleRaises` the `done()` that follows, between which the stream may end. A stream that
  raises something other than an `Exception` raises it again out of the settlement.
* `Timeout` may come at any moment of `wait`: a stream may have ended without being
  yielded, or be queued. Without `HasDeadline` it never comes.
* `Refused` is the stream whose `submit` raised after it was queued.
* A `KeyboardInterrupt` is modelled where the thread of the run waits (`Interrupt`), not
  between any two lines of it.

### `StreamContainment` and its callers

The thread of the run: `Return` from the phase, `Boundary` (maintenance or not), `Contain`
(the bounded wait), measurement, `ReadBackEnds`, `Close`; then the durable worker's `Assess`
of the same result. Whether the phase belongs to a combined run is a choice of `Boundary`.
A contained run leaves the close to a thread (`closer`), an attestable one the attestation
(`attester`). Each of the three callers of `await_quiescence` goes through it one read or
write at a time, `await[c]` holding its local copies. A read of the list or of the handles
is one step; so is the write of the handles with the `cleanup_state` after it, which
decides nothing when it is set late.

`run = "aborted"` is the exit by an exception that is not an `Exception`. The finally block
of the adapter then closes the connection at once, whatever still runs on it, and
`ContainedUntilQuiet` says so. Two more things follow the code and are no property's
subject: the applied tuning is read back on the connection of a contained run
(`adapter.py:677`), and the close of the connection is the only thing that waits.

`PhaseContract` is the phase as its users see it. A stream is `new` until its submission has
returned a future; from then on its `life` is the state of that future (a cancelled one is
`barred`, whether its thread has noticed or not). `stage` is `over` once `execute` has
returned, and `broken` when a second failure cut its settlement short. `left` tells that
something goes on that must not meet a stream: maintenance, measurement, a closed
connection, an attestation; the connection of an aborted run does not count. The contract
is where the promises that the other properties make one by one stand together, with what
they leave out: no stream begins once the phase is over or once it is barred, none is told
of in two lists, an ended one is named only by a caller that read too early, and a caller
that rewrites the list neither invents a name nor drops a stream that runs.

The verdicts of `DurableJobs!ExecEnd` are what `Assess` produces: `quiescent` when nothing
is tracked or all has ended, `attestable` otherwise. The modules are not composed: a
durable job sees of a phase only the verdict and the moment its leftover work ends.

### `Admission` and `mcp/security.py`

`stage[r]` follows one request through `_call_admitted`:

    new -> poll -> serve -> leave -> over        any of them -> gone
            |        |-> lost ^                  (process died, or client cancelled)
            |-----------------^ (queue timeout)

Each method of `DurableSecurityStore` is one transaction, hence one action, with the
cleanup of expired leases it begins with (`Swept`) and the rollbacks it ends with: a refusal
takes back the cleanup and the rate count, a poll that finds its row gone takes back the
cleanup. `line` is the order by `created_at`. `ticket[r].age` counts ticks since the lease
was set; `beat[r]` those since the last heartbeat. `Renew` does not look at the age, as the
code does not. `Punctual` says what a process that is not held up does: it renews within
its interval, and notices its promotion by its next poll before time passes. `Stall` ends
that, `Abandon` is a death or a cancellation. The latter cannot release the ticket, because
the release is an await in a cancelled scope. `Reboot` is the new boot id, which empties the
tables. A `Patient` request is one whose queue timeout outlasts the run.

The code reads the clock before it takes the lock of the store, the model in the
transaction. Not in the model: tokens, tenant paths, the audit log.

### `ArchiveFetch`, `core/data_fetch/` and `core/joinorder/benchmark.py`

`fetcher[f].at` follows a process through `generate_data` and `fetch_data`:

    start -> verify -> lock -> locked -> hash -> request <-> failed    (under the lock)
                                          |        |-> body -> check -> recheck
                                          |-> unpack <--------------------|
                       unpack -> write ... -> verify (again)

A verification looks at the tables one after the other (`LookAt`, one step for a table that
is opened and hashed), while other processes extract, download or unlink them: `bad` is what
it has found so far, and its `Verdict` may be history when it is reached. It ends the fetch
(`data`, `checksum`) or goes on. The archive is hashed after it (`Hash`), in a step of its
own, and the extraction begins in a third. A process may therefore begin to write tables that
have become right since it looked at them. What the lock is for is less than that no such
extraction happens, and is `ExtractionIsNeeded`: a process extracts only if some table was
missing when it got the lock, or while it held it (`lacked`, a history variable); whoever
waited for the lock while another one extracted finds its tables and leaves. A second
`ExtractionRequiredError` is caught by nobody (`unextracted`). The `.part` file is a
sequence of pieces, each of the edition of the archive that the server had when it was sent:
a resumed download may mix two editions, or be short, and the hash (`PartIsRight`) is what
stands between it and the final name. `table[t]` is `missing`, `right` or `partial`.
`OpenTable` truncates the file under its name whoever is writing it, so the other writer is
`spoilt`: what it writes no longer makes the file whole. `Begin` of a `Forced` process
unlinks tables and archive first. `FetcherDies` frees the lock, as `flock` does.

The model looks at the tables in any order, the code in that of the manifest. The unlinks of
a forced start are one step. Not in the model: manifest parsing, logical hashes, checks of
the URL; the `FileNotFoundError` of a process whose table or part is unlinked by a forced
start between the test that it exists and its opening; the timeout of the lock on Windows.

### `RegistryFlight` and `core/expected_results/registry.py`

One benchmark; results are the version of the provider that made them. `lookup[t].at` is
`idle`, `wait` (on the slot's event), `load` (in the provider), `publish` (about to take the
lock with an outcome) or `again` (no results at another scale: look up 1.0). A section under
the lock is one step. The slot itself is split: whether it is in flight is `loading`, and its
outcome and event are kept with each waiter, who holds on to the slot when `_loading` has
another. `ProviderBreaksOff` is an exception that is not an `Exception`.

### `FrameCache` and `core/dataframe/data_loader.py`

A key is the source hash; `parquet[f]` is the key a file was last converted for. `prep[p].at`
is `new`, `stat` (the manifest matched, its files are looked for one by one), `convert` (one
file after the other, then the manifest), `prune`, `served` or `failed`. Every replacement is
atomic, as `_atomic_cache_write` makes it, and nothing joins two of them. `Cleared` is one
file, or the manifest, removed by `clear_cache` of any process. `touched` is a history
variable: for which calls, and whether for the manifest, a call with another hash has written
since.

Sources are text files, or Parquet files that go through the conversion because they are to
be sorted. The difference is in a conversion that fails. Its entry in the manifest has the
name of the source (`Listed`): for a text source no file of the cache has that name, and the
manifest will not be found whole again; for a Parquet source it is the name of the very file
that was not written, of which an earlier conversion for another hash may have left one. The
prune keeps that file, and later calls are served it: the sixth finding. `failed` marks such
entries, and `CacheIsGenuine` is about all the others. Calls that return Parquet sources as
they are touch no cache.

### `LoadTest` and `experimental/load_testing/executor.py`

`driver.at` is where the thread in `run` is; the executor makes one pass over it per phase:

    idle -> loop <-> launch              (while the phase lasts)
             |-> wait -> record -> loop  (next phase) | shutdown -> report -> returned
    launch -> failing -> raised          (submit raised)

`Plan` computes the targets of the roles under the lock, `Launch` submits one stream,
`Collect` records those that have ended. `PhaseOver` is the look at the clock that ends the
`while`; `wait` is the wait of `_drain_streams` for the streams whose role the next phase
lacks, or for all after the last phase, and may end at any time (`WaitEnds`), with whatever
is pending then. `Drain` records one of them; an abandoned one may have ended since, or never
have begun. `stream[s].at` follows `_execute_stream` from the pool's queue: `look` (at the
stop event), `begin` (past it), `query`. Threads take streams in the order in which they were
submitted. `LaunchFails` is the start of a thread that fails: the pool has queued the stream,
the executor has counted it, and it is in no dictionary. It may happen at any submission,
also where the pool would not have needed another thread.

Not in the model: queue times, latencies, the resource monitor, `max_concurrency_reached`,
what queries return, a stream that raises something other than an `Exception`, and a second
`run()` on one executor. The failures of queries are `QueryEnds`; a failed connection is
`StreamFails`.

## Runs

| Run | Instance | Shows | States |
|---|---|---|---|
| `queue` | a job and its resubmission under one key, and a job of another tenant, of which two meet at a time; 2 workers that may die, 1 slot, 1 queue place, 2 attempts, up to 2 faults | types, `CapacityHolds`, `ExclusiveExecution`, `QueueBounded`, `NoOrphanedSlot`, `KeyedWorkRunsOnce`, `ArtifactMatchesRow`, `CancelledNeverPublished`, `OutcomesAreFinal`, and that every step of the queue is a step of `JobContract` | 782 k |
| `progress` | 2 jobs of a tenant, 2 workers that may die, 1 attempt, under fairness | `QueueDrains`, `LeasesAreSettled`, `QuarantineLifts` | 86 k |
| `fairness` | 2 jobs of one tenant and 1 of another, 2 slots, retries | `BoundedBypass`: no tenant is served twice while another waits | 236 k |
| `hosts` | lease: 3 workers, a lease of 2 ticks, 2 attempts, 2 generations; archive: 2 processes, one of them forced, 2 tables; cache: 3 calls for 2 keys, one of them of Parquet sources | `LeaseTypeOK`, `FirstLeaseIsHonoured`, `DeadOwnerIsReplaced`; `DownloadedOnce`, `WrongTableHasWriter`, `ExtractionIsNeeded`, `FetchEnds`; `CacheIsGenuine` | 300 k |
| `streams` | 2 streams, 1 or 2 threads, a deadline, up to 2 failing starts, dying streams or interrupts | types, `QueuedStreamHasWorker`, `Settlement`, `ContainedUntilQuiet`, that every step is one of `PhaseContract`, `ThreadsAreLeft`, `ReleasedUnlessTorn` | 300 k |
| `services` | admission: 4 requests of 2 callers, 2 slots, 1 place in the queue; registry: 2 threads, 2 scales, 2 providers; load test: 3 phases, 3 streams of 2 queries, 2 threads | `AdmissionTypeOK`, `AdmissionLimits`, `LeasedWhileExecuting`, `WaitersAreAdmitted`; `SingleFlight`, `FreshAfterClear`, `LookupsEnd`; `RolesOnTarget`, `AllAccountedFor`, `StopsBetweenQueries`, `LoadTestEnds` | 133 k |
| `retry` | 1 job, 2 workers, 1 fault | the first finding | – |
| `orphan` | 1 job, 2 workers | the second finding | – |
| `stale_lease` | 3 workers, a lease of 3 ticks, 2 attempts, 3 generations | the third finding | – |
| `refused_stream` | as `streams` | the fourth finding | – |
| `torn_result` | 1 stream, 1 thread, a deadline | the fifth finding | – |
| `stale_frame` | the cache of `hosts` | the sixth finding | – |

Bounds. Every interference the code has is between two attempts, two workers or two jobs
that compete for one place: a holder and a recoverer, two recoverers, a job and the one
that gets its slot, a job and its resubmission. Two workers, two jobs, one slot, one queue
place and two attempts make all of them happen, with three attempts adding only longer
repetitions; the proofs below remove the bounds where they apply. `JobContract` has no
counter and needs no bound. In `queue` two of the three jobs meet at a time (`Rivals`): one
and its resubmission, with up to two faults, or one and the other tenant's job, with crashes
alone; which of the two comes first is a matter of names. Two streams on one thread give a
queued stream behind a running one, on two threads a permit that may or may not be taken;
two failures are what it takes to make a settlement end early, which `SettlesAll` excludes
from `Settlement` and the contract calls `broken`; more of them change nothing else.
Workers are symmetric, and symmetry is used only in runs without liveness.

In `hosts`, three workers let one own the lease, one take it over and die, and one settle
it; the third begins only after a death. A lease of two ticks, renewed every tick, is the
shortest that tells a punctual renewal from a late one, and two generations are a renewal and
a takeover. A behaviour of the lease ends with the outcome of the job. In `stale_lease` an
observer that goes wrong must be busy while its subject fails and claims again, on a lease of
three renewals, the ratio of the defaults. Two pieces are the shortest archive of which a
part can be resumed; two attempts, one retry; one death (`MaxDead`) leaves a process to find
what the dead one left. Two tables let one be right while the other is written, and be
verified one after the other. Three calls are one to fill the cache, one of another key to
interfere, one to find what is left; the cache is cleared only before the last of them
begins.

In `services`, two callers for two slots with a limit of one each make the global limit, the
caller's limit and the queue limit bind in turn, and let a waiter whose caller is at its
limit be passed by another's. One request stalls or is abandoned (`MaxFaults`) before the
host restarts, after which all are over; a lease of two ticks and a heartbeat of one is the
shortest that tells punctual from late. Three phases are one with roles, one without
and one that drains all but one role; three streams on two threads leave one queued behind
two that hang, and two queries are one in which to be stopped and one not to begin. At
`MaxStreams` the loop goes round without launching. Of the properties of these two runs all
but those of liveness are proved without these bounds.

`CHECK_DEADLOCK FALSE`: the system may stop. When every job has ended and every worker has
died or left nothing is enabled, and that is not an error.

Fairness. Weak fairness of `Proceed(w)`: a worker that is alive makes the next call of the
method it is in. Of `ExecEnd(w)`: executors return; they have deadlines of their own. Of
`Claim` and `Fence` for each worker and job: `run` polls both for ever. Of `AttestLeak`: the
background thread, once work has ended. Nothing forces leftover work to end, a heartbeat to
notice, or a process to live. Two assumptions are stated as constraints on steps.
`TimelyRecovery`: a live worker is not fenced out of a recovery it is carrying out, three
short calls against a lease of a minute; without it two recoverers could fence each other
for ever. `WithinRetention`: no retention period ends during the run, so that purging,
which helps nobody, does not occupy the workers.

`FairCSpec` assumes of the throughput phase that the runner, the worker threads between two
streams, the thread of the run and the two background threads go on when they can, each for
itself. A stream need not end, a thread need not fail to start, no interrupt need arrive:
`End`, `Die` and the raises have no fairness of their own, and the deadline is one of the
runner's steps. What must follow only when streams end is stated so (`<>[](Live = {}) =>`).
`DeadOwnerIsReplaced` assumes of `LeaseClock` that time passes and that a worker that lives
looks at the clock, reads the rows, takes over what it has chosen and recovers what it has
taken over, each without end; a read may be delayed by any time.

`AdmissionSpec` assumes that time passes, that polls, tools and releases go on, and that
hearts beat; nobody need send a request or give up. `WaitersAreAdmitted` holds because
requests are finitely many: `_enqueue` gives a free slot to a new request before it looks at
the queue, so an endless stream of them could pass a waiter by. It excepts a queue in which a
waiting ticket was abandoned: such a ticket has no lease, nobody removes it before the host
restarts, and once its caller has room it stays the first in line. It also excepts the request
that stalled itself, whose ticket may be swept between promotion and poll; its polls then
find no row until it gives up. `FetchSpec` assumes that processes that live run on and that
every HTTP request ends (its timeout is 60 seconds); it does not assume that one succeeds.
`RegistrySpec` assumes that providers return, except one that breaks off, which
`LookupsEnd` excepts: its waiters are let go by their timeouts only. Two of these properties
are stated once instead of for each actor: `FetchEnds` speaks of all processes together, and
`LookupsEnd` of one thread, since nothing tells threads apart. `LoadSpec` assumes that the
calling thread goes on, that the loop of a phase, which looks at the clock again and again,
sees in the end that the phase is over (strong fairness, since between two looks it is
elsewhere), and that waits time out; it does not assume that a query ever ends or that a
thread takes a stream. `FrameCache` claims no liveness.

Each property of a passing run has a mutant in `PROJECT.json`: a definition of the model
replaced by one with a plausible slip, under which TLC finds that property violated. The
mutated forms stand before the definitions they replace and are used by no specification.

## Findings

1. `RetriesOnlyQuiescentAttempts` (`mcp/jobs.py:1296`). `docs/operations/mcp-remote-security.md`
   says a lease is retried only when the old attempt is proven quiescent. If `renew` or
   `mark_unknown_outstanding` raises in an attempt that left work running, the handler
   calls `fail_attempt` as retryable, whatever the verdict: the job is queued with live
   work. `CapacityHolds`, `ExclusiveExecution` and `KeyedWorkRunsOnce` are therefore stated
   for executions without faults.
2. `OnlyDocumentedQuarantines` (`mcp/jobs.py:1202`). `docs/operations/concurrency-proof-matrix.md`
   names three cases that never attest. A fourth: a cancelled job whose lease is fenced
   between the gate's read and its `fail_attempt` ends `unknown`, and `_run_job` returns
   without attesting.
3. `LeaseIsHonoured` (`mcp/jobs.py:590`). `fail_attempt` resets the generation, so a second
   attempt of the same worker looks like the lease an observer recorded during the first,
   and can be taken over although it is fresh. `FirstLeaseIsHonoured` is what does hold.
4. `MaintenanceRunsAlone` (`core/throughput/executor.py:28`).
   `docs/operations/concurrency-proof-matrix.md` says that a later phase cannot start while
   throughput workers may still run. A stream is queued before its thread starts; if the
   start raises, the runner never learns of the stream, another thread may take it, and the
   settlement, the result and the boundary know nothing of it.
5. `ReleasedOnceQuiet` (`core/throughput/containment.py:80`). The same document says that a
   worker attests once the leaked futures all finish. Two threads in `await_quiescence`, one
   that saw the last stream running and one that saw it done, can leave the result with the
   stream in its list and no handle for it. Every later call then answers no at once: the
   connection is never closed or the job never attested, and its slot stays held, by a
   thread that asks without pause. `ReleasedUnlessTorn` is what does hold.
6. `ServedForItsHash` (`core/dataframe/data_loader.py:982`). A test asserts that a file cached
   under another hash is not taken for a call's own
   (`tests/unit/core/dataframe/test_data_loader.py:739`). Parquet sources that are to be
   sorted have the names of their cached files, so the entry of a conversion that failed
   names a file that a call with another hash left; the next call with this hash finds the
   manifest in order and is served that file. No rare error is needed: the converter reads
   every source as CSV (`data_loader.py:309`). `CacheIsGenuine` is what does hold.

## Proofs

For every set of jobs, tenants and workers, every limit and number of faults, from
`JobsAssumption` (the jobs are finitely many, each has an owner, `None` is neither a worker
nor a job) and `LimitsAssumption` (limits are positive):

| Theorem | States |
|---|---|
| `TypeCorrect` | `[]TypeOK`: among others, `attempts <= MaxAttempts` |
| `CancellationHonoured` | `[]CancelledNeverPublished` |
| `QueueLimitsHold` | `[]QueueBounded` |
| `SlotLimitsHold` | the rows that hold a slot stay within the running limits |
| `CapacityNeverExceeded` | `[]CapacityHolds` |
| `ExecutionIsExclusive` | `[]ExclusiveExecution` |
| `KeyedWorkIsExclusive` | `[]KeyedWorkRunsOnce` |
| `OutcomesStayFinal` | `OutcomesAreFinal`, an action property |
| `ArtifactsMatch` | `[]ArtifactMatchesRow` |
| `SlotsNeverOrphaned` | `[]NoOrphanedSlot` |
| `ContractIsImplemented` | `ImplementsContract`: the queue implements `JobContract` |
| `NobodyIsPassedTwice` | `[]BoundedBypass`, of `FSpec` and of `EventfulSpec` |

The argument. `Typed` adds to the types that a queued row has attempts left, without which
`claim` could not be shown to keep the range, and that a busy worker has a job.
`OneRowMoves` then shows that a step makes at most one move of one row, the moves being the
repository methods; an invariant of rows needs one case for each method, not for each of the
three dozen actions. Cancellation, the queue limit and the slot limit follow from it:
a method that adds to the queue or takes a slot counted first.

That the *threads* stay within the limits is deeper, because a thread outlives its lease.
The invariant (`AllGuarded`) says that every executing thread and all leftover work is
*accounted* to the row of its job: the row is running or unknown, not attested, and names
the worker as the holder of the lease or as the owner whose work is unproven. A row has one
such account (`OneAccount`), which gives exclusion, and holds a slot, so the slot limit
bounds the threads. Three things make it inductive: at the points where a worker attests or
fails an attempt it has left nothing behind (`Tidy`, which is where a fault would break it,
see the first finding); a row whose worker left work behind and lost the lease never
returns to the queue (`Doomed`), so the worker never meets that leftover again; and an
unfenced lease names no unproven owner but its own (`OwnersKnown`).

Artifacts are harder than they look because the worker and its recoverers look at the
directory first and write the row later. `ArtifactMatchesRow` is inductive only with what
each of them relies on in between (`Informed`): a worker that has not begun to publish still
has a running row if it has the lease at all; one that found its artifact still has it when it
completes the row, and one that found none still has none when it fails the attempt; who
recovers a row that cannot return to the queue (`Doomed`), and has found nothing, will find
nothing; who purges has an ended row without artifact. `FilingStep` shows, action by action,
that another worker, or a client, changes none of this (`MoveKeepsState`,
`InformedDespiteOthers`). It holds with failing operations, unlike what follows.

For a quarantined slot the invariant says who owes the attestation (`Owes`: the worker named
as unproven, or holding the lease) and that the debtor is on its way to pay, has left, or has
reported the work (`Settles`). A debt begins only in `claim` and `mark_unknown_outstanding`,
both by the debtor itself (`DebtKept`); a fence by another worker moves the lease and leaves
the debt where it was. A row that was cancelled is excepted, which is the second finding:
`drop` returns without paying.

The implementation of `JobContract` maps a row to a phase (`Standing`), the rows counted
against the limits to slots, and the threads to running work. `ContractStep` goes through the
actions. That a slot is given back, or a job retried or forgotten, only when no work of it
runs is the accounts of running work again (`NobodyElse`, `NobodyAccounted`); that an outcome
other than done comes without an artifact is `Informed`. From the first operation that fails
on, a step is not asked to be one of the contract: the first finding shows why.

For fairness between tenants, whoever has passed a waiting tenant was served later than it
(`PassedIsLater`), so by the order of `claim` it is not next again before that tenant
(`ServedIsEarliest`). TLC checks it where nothing but submissions, runs and retries happen, to
keep the history small; the proof needs no such restriction and is of the whole queue
(`EventfulSpec`), with any keys, cancellations, lost leases, crashes, faults and retention.

For every set of workers and number of streams and failures, from `StreamsAssumption`
(there is a stream and finitely many workers, at least one; the bound on failures is a
natural number):

| Theorem | States |
|---|---|
| `StreamsTypeCorrect` | `[]TypeOK` of a throughput phase |
| `QueuedStreamsHaveWorkers` | `[]QueuedStreamHasWorker` |
| `StreamsAreSettled` | `[]Settlement` |
| `StreamsAreContained` | `[]ContainedUntilQuiet` of the phase with all that follows it |
| `PhaseIsImplemented` | `ImplementsPhase`: the phase, with all that follows it, implements `PhaseContract` |

The argument. That a queued stream has a thread follows from a balance: while streams are
submitted and awaited, the items in the queue and the idle permits together are exactly the
threads about to take an item, one more between the two steps of `submit` (`Balanced`). The
code keeps no such count; each `put`, `acquire`, start and `release` must be seen to move
both sides. It needs that a stream is queued at most once and never both queued and in a
thread's hand (`Placed`), and that streams are created in order (`Numbered`).

For the settlement, every stream the runner knows of is in exactly one of five places
(`Fate`): still to be settled, completed, cancelled before it ran, outstanding, or dead. A
settlement that meets a dead stream raises out of its loop and is begun again by the
handler; a second dead stream ends that one too, and what is left is in no list. So the
invariant must know that there is at most one failure and that it is behind
(`OneRaise`), which is why `Settlement` asks for `SettlesAll`.

For containment, `Quiet` says of the result and of every local copy in the hands of a caller
of `await_quiescence` that it names every known stream that runs. The result alone would not
be inductive: a caller writes a list that another computed from an older read. It is
inductive because after the phase no known stream begins to run (`OnlyThreadsGoOn`), so that
an old copy names too many streams, never too few. A stream that was refused is not known;
`ContainedUntilQuiet` excepts it, and the fourth finding is what that costs.

The implementation of `PhaseContract` rests on the same invariants and on the converse of
`Quiet`: what is named after the phase, or is about to be, was told of in no other way
(`Honest`). Before `execute` returns, `Fate` gives each step of the settlement its
precondition in the contract; afterwards `Honest` and `Quiet` bound what a caller writes from
both sides, and a step of the run that changes `left` is one at which no known stream
runs. That a phase is broken for good is seen from `FailuresStay`; a broken one need only
not be built upon, which holds since its run is aborted.

For every set of requests, fetchers, threads and calls, every limit, archive length, number
of retries, set of scales and keys, and pattern of phases, from `AdmissionAssumption`
(finitely many requests, and a heartbeat shorter than the lease), `FetchAssumption`,
`RegistryAssumption`, `CacheAssumption` and `LoadAssumption` (the constants have their types,
and a phase without roles has one target), and for any workers, lease and renewal interval,
from `LeaseAssumption` (the interval is shorter than the lease):

| Theorem | States |
|---|---|
| `AdmissionTypes` | `[]AdmissionTypeOK` |
| `LimitsHold` | `[]AdmissionLimits` |
| `ExecutionIsLeased` | `[]LeasedWhileExecuting` |
| `DownloadsAreAlone` | `[]DownloadedOnce` |
| `WrongTablesHaveWriters` | `[]WrongTableHasWriter` |
| `ExtractionsAreNeeded` | `[]ExtractionIsNeeded` |
| `LoadsAreSingleFlight` | `[]SingleFlight` |
| `CacheIsFresh` | `[]FreshAfterClear` |
| `FilesAreGenuine` | `[]CacheIsGenuine` |
| `RolesStayOnTarget` | `[]RolesOnTarget` |
| `StreamsAreAccountedFor` | `[]AllAccountedFor` |
| `StreamsAreStopped` | `[]StopsBetweenQueries` |
| `LeaseTypeCorrect` | `[]LeaseTypeOK` |
| `FirstLeaseHonoured` | `FirstLeaseIsHonoured`, an action property |

The arguments. The limits are counts of sets of tickets: a cleanup makes the sets smaller
(`FewerTickets`), and a step adds one ticket to one of them after it counted it
(`OneMoreActive`, `OneMoreWaiting`). That a request executes on an active ticket is about
time: the age of its lease is at most the ticks since its last heartbeat (`Punctuated`), so
it is below the lease whenever the heart is on time, and no cleanup of any process finds it
expired; a promoted ticket that no poll has seen yet has age zero.

For the archive one invariant (`FetchInv`) holds together what the properties say singly: who
is between lock and unlock holds the lock; while somebody downloads there is no archive;
an archive opened for extraction was the pinned one; a partial table is open in the hands of
the process that truncated it last. `ExtractionsAreNeeded` is about history: while a process
holds the lock, a table that is missing makes `lacked` true, whether it was missing before or
has been unlinked since, so that a verdict reached under the lock that finds one missing, even
one that is out of date when it is acted upon, is covered by it (`LackKnown`); a process
without the lock has seen nothing yet that leads to an extraction (`Lacks`).

For the registry, a scale has one loader or none, and has one only while its slot is in
flight (a slot whose provider broke off has none and stays in flight); a loader began with a
provider not older than the last clear, unless its scale was loading then. For the cache, what
a call has converted so far is of its key, and what it saved or was served is so unless the
history says that another key wrote; the entries of failed conversions are carried apart.

For the load test the invariant is about the dictionary of futures (`Kept`): a stream in it has
no result, and one that left it has one, and has ended or been abandoned. The last drain empties
it, and once the queue is empty nothing begins (`Draining`, `Reported`), so what runs when `run`
returns is among the abandoned that had not ended. The targets need more: while no launch has
failed the counts the executor keeps are the sizes of that dictionary (`Counted`), although
they are decreased where a result is recorded and the dictionary shrinks elsewhere; a plan
therefore leaves each role within its target (`Announced`), whatever ends meanwhile, and a
live stream is in the dictionary, since abandoned ones have been stopped (`Stopped`). A failed
launch leaves one live stream outside, which was within the target when it was counted.

For the lease the question is whether a row that looks unchanged is unchanged. In a first
attempt it is, since `fail_attempt` has not yet set the generation back: nobody remembers a
generation above the row's, and an observation that equals the row is no older than the silence
of its owner and the time by which it was dated too early. Who found it old enough when it
looked at the clock, and still finds the row so when it has read it and when it takes it
over, was right (`Watched`), because silence only grows until the row changes. A renewal, a
claim or a takeover has a generation nobody has seen (`NewGeneration`). The restriction to first attempts is the third finding.

Only model-checked is liveness (`QueueDrains`, `LeasesAreSettled`, `QuarantineLifts`,
`DeadOwnerIsReplaced`, `ThreadsAreLeft`, `ReleasedUnlessTorn`, `WaitersAreAdmitted`,
`FetchEnds`, `LookupsEnd`, `LoadTestEnds`), which under fairness is beyond the proof system.
Every invariant, action property and refinement that a passing run checks is also a theorem.

## Not modelled

* **Publication store**: one JSON file read, changed and replaced without a lock. Of two
  concurrent additions one is lost; nothing documented promises otherwise, and what remains
  is the atomic replacement of one file.
* **TPC-DI error recovery and loading**, **benchmark lifecycle**, **site deployment gates**:
  sequential programs over SQL, frames or a hosting service. What can go wrong in them shows
  in a single execution, which is what their tests run.
* **Single-flight cache and timeouts** (`utils/`): the cache loads under its lock. The timeout
  context depends on where a signal or an asynchronous exception lands in the interpreter,
  which is below the level of these models.
* **Load testing**, beyond the executor: its metrics, and the connection-pool tester, whose
  threads share no more than a list under a lock.
* **Benchmarks and query generation, platform adapters, results, command line and tools**:
  data, drivers of external systems, and I/O. This is by far the larger part of the
  repository.

## Plan

Modelled, checked and proved as planned: the queue, the streams and their containment,
the abstract phase and its refinement, admission, the archive, the registry; the DataFrame
cache and the load test were added to the plan. Left, in order of importance:

1. What the two contracts promise by themselves: that work which runs in `JobContract` holds a
   slot, and hence stays within the limits, proved of the contract.
2. The official TPC runners, which repeat the phase boundary of `StreamContainment`.
