--------------------------- MODULE RegistryFlight ---------------------------
(***************************************************************************)
(* ExpectedResultsRegistry (core/expected_results/registry.py) for one     *)
(* benchmark: threads look its expected results up at a scale factor; the  *)
(* first loads them from the provider, the others wait for its slot.  A    *)
(* section under the registry's lock is one step.                          *)
(*                                                                         *)
(* Results are the version of the provider that made them, Nothing stands  *)
(* for None.  A slot stays in _loading until it has an outcome, so the     *)
(* waiters of a scale without one share the slot in flight; their copies   *)
(* get its outcome with it.                                                *)
(***************************************************************************)
EXTENDS Integers

CONSTANTS
    Threads,
    Scales, UnitScale,     \* UnitScale: scale factor 1.0
    MaxVersion             \* providers registered in a run

ASSUME RegistryAssumption ==
    UnitScale \in Scales /\ MaxVersion \in Nat \ {0}

Nothing == 0
Uncached == -1
Versions == 1..MaxVersion

VARIABLES
    lookup,     \* what each thread is doing, at which scale, and its slot
    loading,    \* the scales with a slot in _loading that has no outcome
    cached,     \* _cache
    provider,   \* the one registered, or Nothing
    cleared     \* the provider at the last clear_cache, and the scales then loading

registryVars == <<lookup, loading, cached, provider, cleared>>

\* calls: the provider a loader took; event, outcome and result: those of the slot.
Resting == [at |-> "idle", scale |-> UnitScale, calls |-> Nothing,
            event |-> FALSE, outcome |-> "none", result |-> Nothing]
Outcomes == {"hit", "absent", "failed"}

RegistryInit ==
    /\ lookup = [t \in Threads |-> Resting]
    /\ loading = {}
    /\ cached = [c \in Scales |-> Uncached]
    /\ provider = Nothing
    /\ cleared = [version |-> Nothing, scales |-> {}]

-----------------------------------------------------------------------------

At(t, s) == lookup[t].at = s
Become(t, r) == lookup' = [lookup EXCEPT ![t] = r]

\* Without results for another scale the caller looks them up for 1.0; a failure or a
\* timeout is its answer.
Answered(c, result, outcome) ==
    IF result = Nothing /\ c # UnitScale /\ outcome # "failed"
    THEN [Resting EXCEPT !.at = "again"] ELSE Resting

\* Broken variants of the definition that follows, here and below, for the checks of the
\* properties.
NeverInFlight(c) == FALSE
InFlight(c) == c \in loading

\* _load_benchmark_results up to its first unlock.
Answer(t, c) ==
    /\ cached[c] # Uncached \/ provider = Nothing
    /\ Become(t, Answered(c, IF cached[c] # Uncached THEN cached[c] ELSE Nothing, "hit"))
    /\ UNCHANGED loading

Join(t, c) ==
    /\ cached[c] = Uncached /\ provider # Nothing
    /\ InFlight(c)
    /\ Become(t, [Resting EXCEPT !.at = "wait", !.scale = c])
    /\ UNCHANGED loading

\* A slot with an outcome whose results are not cached gives way, as if it were not there.
BeginLoad(t, c) ==
    /\ cached[c] = Uncached /\ provider # Nothing
    /\ ~InFlight(c)
    /\ loading' = loading \cup {c}
    /\ Become(t, [Resting EXCEPT !.at = "load", !.scale = c, !.calls = provider])

LookUp(t, c) ==
    /\ Answer(t, c) \/ Join(t, c) \/ BeginLoad(t, c)
    /\ UNCHANGED <<cached, provider, cleared>>

LookUpAny(t) == At(t, "idle") /\ \E c \in Scales : LookUp(t, c)
LookUpUnitScale(t) == At(t, "again") /\ LookUp(t, UnitScale)

\* The provider returns, raises FileNotFoundError, or raises another Exception.
ProviderReturns(t) ==
    /\ At(t, "load")
    /\ \E o \in Outcomes :
           Become(t, [lookup[t] EXCEPT !.at = "publish", !.outcome = o, !.event = TRUE,
                                       !.result = IF o = "hit" THEN lookup[t].calls ELSE Nothing])
    /\ UNCHANGED <<loading, cached, provider, cleared>>

\* It raises what is not an Exception, which nobody here catches: the slot stays.
ProviderBreaksOff(t) ==
    /\ At(t, "load") /\ Become(t, Resting)
    /\ UNCHANGED <<loading, cached, provider, cleared>>

Waiters(c) == {t \in Threads : At(t, "wait") /\ lookup[t].scale = c /\ lookup[t].outcome = "none"}

PublishedUnlessFailed(t, w) ==
    [lookup[w] EXCEPT !.outcome = lookup[t].outcome, !.result = lookup[t].result,
                      !.event = lookup[t].outcome # "failed"]
Published(t, w) ==
    [lookup[w] EXCEPT !.outcome = lookup[t].outcome, !.result = lookup[t].result, !.event = TRUE]

\* A failure is not cached, an absence is.
Publish(t) ==
    LET c == lookup[t].scale IN
    /\ At(t, "publish")
    /\ cached' = IF lookup[t].outcome = "failed" THEN cached
                 ELSE [cached EXCEPT ![c] = lookup[t].result]
    /\ loading' = loading \ {c}
    /\ lookup' = [w \in Threads |->
           IF w = t THEN Answered(c, lookup[t].result, lookup[t].outcome)
           ELSE IF w \in Waiters(c) THEN Published(t, w) ELSE lookup[w]]
    /\ UNCHANGED <<provider, cleared>>

Took(t) == Become(t, Answered(lookup[t].scale, lookup[t].result, lookup[t].outcome))

\* The event is set; the outcome is read under the lock.
Wake(t) ==
    /\ At(t, "wait") /\ lookup[t].event
    /\ Took(t)
    /\ UNCHANGED <<loading, cached, provider, cleared>>

\* The wait times out: an outcome published meanwhile is taken all the same.
WaitTimesOut(t) ==
    /\ At(t, "wait")
    /\ IF lookup[t].outcome # "none" THEN Took(t) ELSE Become(t, Resting)
    /\ UNCHANGED <<loading, cached, provider, cleared>>

NoSlots == {}
KeptSlots == loading

\* clear_cache drops the results, and the slots that have an outcome.
Clear ==
    /\ cached' = [c \in Scales |-> Uncached]
    /\ loading' = KeptSlots
    /\ cleared' = [version |-> provider, scales |-> loading]
    /\ UNCHANGED <<lookup, provider>>

Register ==
    /\ provider < MaxVersion
    /\ provider' = provider + 1
    /\ UNCHANGED <<lookup, loading, cached, cleared>>

LookupStep(t) == LookUpUnitScale(t) \/ ProviderReturns(t) \/ Publish(t) \/ Wake(t)

RegistryNext ==
    \/ \E t \in Threads : LookUpAny(t) \/ LookupStep(t) \/ ProviderBreaksOff(t) \/ WaitTimesOut(t)
    \/ Clear \/ Register

\* Providers return.  No wait has to time out.
RegistrySpec ==
    /\ RegistryInit /\ [][RegistryNext]_registryVars
    /\ \A t \in Threads : WF_registryVars(LookupStep(t))

-----------------------------------------------------------------------------
(* Properties.                                                              *)

Loaders(c) == {t \in Threads : lookup[t].at \in {"load", "publish"} /\ lookup[t].scale = c}

\* At most one thread at a time calls the provider for a scale factor, whatever times out,
\* fails, is cleared or replaced meanwhile (docs/operations/concurrency-proof-matrix.md:
\* single-flight).
SingleFlight == \A c \in Scales : \A t \in Loaders(c) : Loaders(c) = {t} /\ InFlight(c)

\* Results cached are not older than the last clear_cache, except at a scale factor whose
\* load was under way then (which clear_cache lets finish).
FreshAfterClear ==
    \A c \in Scales : cached[c] \in Versions /\ c \notin cleared.scales => cached[c] >= cleared.version

Deserted(t) == t \in Waiters(lookup[t].scale) /\ Loaders(lookup[t].scale) = {}

SomeThread == CHOOSE t \in Threads : TRUE

\* A lookup that waits is answered without the help of the timeout, whatever its load
\* comes to, unless the provider broke off.  One thread stands for all: nothing tells
\* them apart.
LookupsEnd == ~At(SomeThread, "idle") ~> At(SomeThread, "idle") \/ Deserted(SomeThread)
=============================================================================
