------------------------------ MODULE MCHosts ------------------------------
(***************************************************************************)
(* Small instances, checked side by side, of three protocols between       *)
(* processes that meet in files only: the leases of the job queue, the     *)
(* dataset archive and the DataFrame cache.  They have no state in common; *)
(* a behaviour is one of the protocol that "part" names, and the others    *)
(* stay in their initial state.                                            *)
(***************************************************************************)
EXTENDS LeaseClock, ArchiveFetch, FrameCache

CONSTANTS spare,                         \* the worker that waits for a death
          MaxDead,
          c1, c2, c3, ka, kb, fa, fb     \* calls, keys and files of the cache

VARIABLE part

OfKey == [c \in Preparers |-> IF c = c2 THEN kb ELSE ka]
CachedIn == [k \in Keys |-> IF k = ka THEN {fa, fb} ELSE {fa}]

everything == <<part, leaseVars, fetchVars, cacheVars>>

\* A behaviour ends with the outcome of the job: nobody leases it any more.
Leasable == lease.state \in {"queued", "running"}

Only(s, A, others) == part = s /\ A /\ UNCHANGED <<part, others>>
InLease(A) == Leasable /\ Only("lease", A, <<fetchVars, cacheVars>>)
InArchive(A) == Only("archive", A, <<leaseVars, cacheVars>>)
InCache(A) == Only("cache", A, <<leaseVars, fetchVars>>)

Dead == {f \in Fetchers : FAt(f, "dead")}

Init ==
    /\ part \in {"lease", "archive", "cache"}
    /\ LeaseInit /\ FetchInit /\ CacheInit

\* One worker is there for the leases that nobody else can take over.
MayBegin(w) == w = spare => dead # {}

\* Calls that differ in nothing but their name come in a fixed order.
MayLook(p) == p = c3 => ~PAt(c1, "new")

\* At most MaxDead fetchers die.  The cache is cleared while the last call has not begun,
\* which then finds what is left.
Next ==
    \/ InLease(Tick)
    \/ \E w \in Workers :
          \/ MayBegin(w) /\ InLease(Claim(w))
          \/ MayBegin(w) /\ InLease(StartScan(w))
          \/ InLease(ReadRows(w)) \/ InLease(TakeOver(w)) \/ InLease(Recover(w))
          \/ InLease(RenewLease(w)) \/ InLease(Fail(w)) \/ InLease(Complete(w))
          \/ InLease(Crash(w))
    \/ \E f \in Fetchers :
          \/ InArchive(Begin(f)) \/ InArchive(Acquire(f)) \/ InArchive(Hash(f))
          \/ InArchive(Respond(f)) \/ InArchive(Receive(f)) \/ InArchive(BodyEnds(f))
          \/ InArchive(Drop(f)) \/ InArchive(Retry(f)) \/ InArchive(Install(f))
          \/ InArchive(OpenArchive(f)) \/ InArchive(CloseTable(f)) \/ InArchive(FetchAgain(f))
          \/ \E t \in Tables : InArchive(LookAt(f, t)) \/ InArchive(OpenTable(f, t))
          \/ Cardinality(Dead) < MaxDead /\ InArchive(FetcherDies(f))
    \/ InArchive(Republish)
    \/ \E p \in Preparers :
          \/ MayLook(p) /\ InCache(Look(p))
          \/ InCache(Stat(p)) \/ InCache(Reread(p))
          \/ InCache(Convert(p)) \/ InCache(ConvertFails(p))
          \/ InCache(SaveManifest(p)) \/ InCache(SaveFails(p)) \/ InCache(Prune(p))
          \/ InCache(PreparerDies(p))
    \/ PAt(c3, "new") /\ InCache(Cleared)

Fair(s, A) == part = s /\ A
FairLease(A) == Fair("lease", Leasable /\ A)

\* The fairness of LeaseSpec and FetchSpec.  A step of one part leaves the others alone,
\* which need not be said once more.
Fairness ==
    /\ WF_leaseVars(FairLease(Tick))
    /\ \A w \in Workers : /\ WF_leaseVars(FairLease(MayBegin(w) /\ StartScan(w)))
                          /\ WF_leaseVars(FairLease(ReadRows(w)))
                          /\ WF_leaseVars(FairLease(TakeOver(w)))
                          /\ WF_leaseVars(FairLease(Recover(w)))
    /\ \A f \in Fetchers : WF_fetchVars(Fair("archive", FetchStep(f)))

Spec == Init /\ [][Next]_everything /\ Fairness

\* The cache alone.
CacheOnly == Init /\ part = "cache" /\ [][Next]_everything
=============================================================================
