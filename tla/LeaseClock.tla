---------------------------- MODULE LeaseClock ----------------------------
(***************************************************************************)
(* How a worker decides that a lease of the durable job queue has expired. *)
(* Hosts share no clock: each worker remembers the owner and generation it *)
(* last saw on a row and when, by its own monotonic clock, and takes the   *)
(* lease over once they have not changed for lease_seconds.  It looks at   *)
(* the clock before it reads the rows, and takes the lease over later      *)
(* still: anything may happen between the three.  The owner moves the      *)
(* generation with every renewal, three times per lease.                   *)
(*                                                                         *)
(* One row and its owners; DurableJobs has the rest of the worker, and lets *)
(* a lease be taken over at any time.  Time is a count of ticks since an   *)
(* event, saturating at the length of a lease: nothing asks for more.      *)
(***************************************************************************)
EXTENDS Integers

CONSTANTS
    Workers,         \* identities of worker processes
    NoWorker,        \* NULL in lease_owner
    LeaseLength,     \* lease_seconds
    RenewTicks,      \* the heartbeat interval, a third of it
    MaxAttempts,     \* the field of JobLimits
    MaxGeneration    \* bound on renewals

ASSUME LeaseAssumption ==
    /\ NoWorker \notin Workers
    /\ RenewTicks \in Nat \ {0} /\ LeaseLength \in Nat /\ RenewTicks < LeaseLength
    /\ MaxAttempts \in Nat \ {0} /\ MaxGeneration \in Nat

VARIABLES
    lease,      \* state, lease_owner, lease_generation and attempts of the row
    silence,    \* ticks since the lease was claimed, renewed or taken over; 0 without one
    seen,       \* each worker's _lease_observations entry, and its age in ticks
    scan,       \* each worker's claim_expired between the clock and the rows
    picked,     \* the row a worker has chosen to take over, as it read it
    dead        \* workers whose process is gone

leaseVars == <<lease, silence, seen, scan, picked, dead>>

\* late is history: how long before it was read the observation is dated.
Unseen == [owner |-> NoWorker, generation |-> 0, age |-> 0, late |-> 0]
Identity == [owner |-> lease.owner, generation |-> lease.generation]
Nothing == [owner |-> NoWorker, generation |-> 0]

\* observed_at has been taken: how old the observation was then, if old enough to take
\* the lease over, and how long ago that is.
NoScan == [on |-> FALSE, ripe |-> FALSE, delay |-> 0]

Older(t) == IF t < LeaseLength THEN t + 1 ELSE t

LeaseInit ==
    /\ lease = [state |-> "queued", owner |-> NoWorker, fenced |-> FALSE,
                generation |-> 0, attempts |-> 0]
    /\ silence = 0
    /\ seen = [w \in Workers |-> Unseen]
    /\ scan = [w \in Workers |-> NoScan]
    /\ picked = [w \in Workers |-> Nothing]
    /\ dead = {}

Holds(w) == lease.state = "running" /\ lease.owner = w /\ w \notin dead

\* Live owners are punctual: time does not pass them by when a renewal is due.  A
\* recovery is over well within a lease.
Tick ==
    /\ \A w \in Workers : Holds(w) => silence < RenewTicks
    /\ silence' = IF lease.state = "running" THEN Older(silence) ELSE 0
    /\ seen' = [w \in Workers |-> [seen[w] EXCEPT !.age = Older(@)]]
    /\ scan' = [w \in Workers |-> IF scan[w].on THEN [scan[w] EXCEPT !.delay = Older(@)]
                                   ELSE scan[w]]
    /\ UNCHANGED <<lease, picked, dead>>

-----------------------------------------------------------------------------
(* The owner.                                                               *)

Claim(w) ==
    /\ w \notin dead /\ ~scan[w].on /\ picked[w] = Nothing
    /\ lease.state = "queued"
    /\ lease' = [lease EXCEPT !.state = "running", !.owner = w, !.attempts = @ + 1,
                              !.generation = @ + 1]
    /\ silence' = 0
    /\ UNCHANGED <<seen, scan, picked, dead>>

RenewLease(w) ==
    /\ Holds(w) /\ ~lease.fenced
    /\ lease.generation < MaxGeneration
    /\ lease' = [lease EXCEPT !.generation = @ + 1]
    /\ silence' = 0
    /\ UNCHANGED <<seen, scan, picked, dead>>

FailUnlimited(w) ==
    /\ Holds(w) /\ ~lease.fenced
    /\ lease' = [lease EXCEPT !.state = "queued", !.owner = NoWorker, !.generation = 0]
    /\ silence' = 0
    /\ UNCHANGED <<seen, scan, picked, dead>>

\* fail_attempt sets lease_generation back to 0.
Fail(w) ==
    /\ Holds(w) /\ ~lease.fenced
    /\ lease' = [lease EXCEPT !.state = IF lease.attempts < MaxAttempts THEN "queued" ELSE "failed",
                              !.owner = NoWorker, !.generation = 0]
    /\ silence' = 0
    /\ UNCHANGED <<seen, scan, picked, dead>>

Complete(w) ==
    /\ Holds(w) /\ ~lease.fenced
    /\ lease' = [lease EXCEPT !.state = "completed", !.owner = NoWorker]
    /\ silence' = 0
    /\ UNCHANGED <<seen, scan, picked, dead>>

Crash(w) ==
    /\ w \notin dead
    /\ dead' = dead \cup {w}
    /\ seen' = [seen EXCEPT ![w] = Unseen]
    /\ scan' = [scan EXCEPT ![w] = NoScan]
    /\ picked' = [picked EXCEPT ![w] = Nothing]
    /\ UNCHANGED <<lease, silence>>

-----------------------------------------------------------------------------
(* The other workers (claim_expired): the clock first, then one transaction *)
(* that reads the rows, and a second that takes the chosen one over if      *)
(* owner and generation still match.                                        *)

\* observed_at: what is known of the row already is old enough now, or it is not.
StartScan(w) ==
    /\ w \notin dead /\ ~Holds(w) /\ ~scan[w].on /\ picked[w] = Nothing
    /\ scan' = [scan EXCEPT ![w] = [on |-> TRUE, ripe |-> seen[w].age >= LeaseLength,
                                     delay |-> 0]]
    /\ UNCHANGED <<lease, silence, seen, picked, dead>>

\* Broken variants of the definition they precede, for the checks of the properties; no
\* specification uses them.
ChangedOwner(w) == seen[w].owner # lease.owner
ChangedAlways(w) == TRUE

Changed(w) == [owner |-> seen[w].owner, generation |-> seen[w].generation] # Identity

\* A new lease is observed as of the clock, although it is read only now.
Observed(w) == [owner |-> lease.owner, generation |-> lease.generation,
                age |-> scan[w].delay, late |-> scan[w].delay]

\* A row that is not leased is dropped from the observations.
ReadRows(w) ==
    /\ scan[w].on
    /\ IF lease.state # "running"
       THEN seen' = [seen EXCEPT ![w] = Unseen] /\ UNCHANGED picked
       ELSE IF Changed(w)
       THEN seen' = [seen EXCEPT ![w] = Observed(w)] /\ UNCHANGED picked
       ELSE /\ picked' = IF scan[w].ripe THEN [picked EXCEPT ![w] = Identity] ELSE picked
            /\ UNCHANGED seen
    /\ scan' = [scan EXCEPT ![w] = NoScan]
    /\ UNCHANGED <<lease, silence, dead>>

StillPicked(w) == lease.state = "running" /\ picked[w] = Identity

TakeOver(w) ==
    /\ w \notin dead /\ picked[w] # Nothing
    /\ IF StillPicked(w)
       THEN /\ lease' = [lease EXCEPT !.owner = w, !.fenced = TRUE, !.generation = @ + 1]
            /\ silence' = 0
            /\ seen' = [seen EXCEPT ![w] = Unseen]
       ELSE UNCHANGED <<lease, silence, seen>>
    /\ picked' = [picked EXCEPT ![w] = Nothing]
    /\ UNCHANGED <<scan, dead>>

Recover(w) ==
    /\ Holds(w) /\ lease.fenced
    /\ lease' = [lease EXCEPT !.state = "unknown", !.owner = NoWorker]
    /\ silence' = 0
    /\ UNCHANGED <<seen, scan, picked, dead>>

-----------------------------------------------------------------------------

LeaseNext ==
    \/ Tick
    \/ \E w \in Workers : \/ Claim(w) \/ RenewLease(w) \/ Fail(w) \/ Complete(w) \/ Crash(w)
                          \/ StartScan(w) \/ ReadRows(w) \/ TakeOver(w) \/ Recover(w)

\* Time passes, and a worker that is alive keeps scanning and finishes what it began.
LeaseSpec ==
    /\ LeaseInit /\ [][LeaseNext]_leaseVars
    /\ WF_leaseVars(Tick)
    /\ \A w \in Workers : /\ WF_leaseVars(StartScan(w)) /\ WF_leaseVars(ReadRows(w))
                          /\ WF_leaseVars(TakeOver(w)) /\ WF_leaseVars(Recover(w))

-----------------------------------------------------------------------------

Identities == [owner : Workers \cup {NoWorker}, generation : Nat]

\* The row, the observations and the clocks keep their types.
LeaseTypeOK ==
    /\ lease.state \in {"queued", "running", "failed", "completed", "unknown"}
    /\ lease.owner \in Workers \cup {NoWorker} /\ lease.fenced \in BOOLEAN
    /\ lease.generation \in Nat /\ lease.attempts \in 0..MaxAttempts
    /\ silence \in 0..LeaseLength
    /\ seen \in [Workers -> [owner : Workers \cup {NoWorker}, generation : Nat,
                             age : 0..LeaseLength, late : 0..LeaseLength]]
    /\ scan \in [Workers -> [on : BOOLEAN, ripe : BOOLEAN, delay : 0..LeaseLength]]
    /\ picked \in [Workers -> Identities]
    /\ dead \subseteq Workers

TakenOver == lease'.fenced /\ lease'.generation # lease.generation

\* What the lease has gone unrenewed, in this very state, when it is taken over, and what
\* the worker that takes it was late in reading it make a lease's length.
Lapsed == silence + seen[lease'.owner].late >= LeaseLength

\* What a lease is for: a worker that reads the rows as soon as it has looked at the clock
\* takes a lease over only after it has gone unrenewed for its whole length; one that was
\* held up in between may be early by as much and no more (claim_expired).
LeaseIsHonoured == [][TakenOver => Lapsed]_leaseVars

\* It holds for the first attempt of a job, and for a lease that changed hands.
FirstLeaseIsHonoured == [][TakenOver /\ lease.attempts = 1 => Lapsed]_leaseVars

\* The lease of a dead owner, or of a dead recovery, is taken over in the end as long
\* as some worker is alive.
DeadOwnerIsReplaced ==
    lease.state = "running" /\ lease.owner \in dead ~>
        lease.state = "unknown" \/ dead = Workers
=============================================================================
