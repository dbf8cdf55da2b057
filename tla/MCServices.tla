----------------------------- MODULE MCServices -----------------------------
(***************************************************************************)
(* Small instances, checked side by side, of three services that have no   *)
(* state in common: admission, the registry of expected results and the    *)
(* load test.  A behaviour is one of the service that "part" names; the    *)
(* others stay in their initial state.                                     *)
(***************************************************************************)
EXTENDS Admission, RegistryFlight, LoadTest, TLC

CONSTANTS a1, a2, b1, b2, pa, pb,        \* requests and their callers
          MaxFaults,
          writer, reader                 \* roles of the load test

VARIABLE part

OfCaller == [r \in Requests |-> IF r \in {a1, a2} THEN pa ELSE pb]

\* A phase of two roles, one without roles, and one that drains all but the readers.
ThePhases == <<[r \in {writer, reader} |-> 1], [r \in {NoRole} |-> 2], [r \in {reader} |-> 1]>>

everything == <<part, admissionVars, registryVars, loadVars>>

Only(s, A, others) == part = s /\ A /\ UNCHANGED <<part, others>>
InAdmission(A) == Only("admission", A, <<registryVars, loadVars>>)
InRegistry(A) == Only("registry", A, <<admissionVars, loadVars>>)
InLoadTest(A) == Only("load", A, <<admissionVars, registryVars>>)

Faulty == late \cup {r \in Requests : stage[r] = "gone"}

Init ==
    /\ part \in {"admission", "registry", "load"}
    /\ AdmissionInit /\ RegistryInit /\ LoadInit

\* Requests that differ in nothing but their name come in a fixed order.
MayEnter(r) == r = b2 => stage[b1] # "new"

\* At most MaxFaults requests are stalled or abandoned before the host restarts.
Next ==
    \/ \E r \in Requests :
          \/ MayEnter(r) /\ InAdmission(RefuseRate(r))
          \/ MayEnter(r) /\ InAdmission(RefuseFull(r))
          \/ MayEnter(r) /\ InAdmission(Enqueue(r))
          \/ InAdmission(Admit(r)) \/ InAdmission(PollAgain(r)) \/ InAdmission(GiveUp(r))
          \/ InAdmission(Renew(r)) \/ InAdmission(RenewFails(r)) \/ InAdmission(Finish(r))
          \/ InAdmission(Release(r))
          \/ Cardinality(Faulty) < MaxFaults /\ InAdmission(Abandon(r))
          \/ Cardinality(Faulty) < MaxFaults /\ InAdmission(Stall(r))
    \/ InAdmission(LeaseTick) \/ InAdmission(NewWindow) \/ InAdmission(Reboot)
    \/ \E t \in Threads :
          \/ InRegistry(LookUpAny(t)) \/ InRegistry(LookUpUnitScale(t))
          \/ InRegistry(ProviderReturns(t)) \/ InRegistry(ProviderBreaksOff(t))
          \/ InRegistry(Publish(t)) \/ InRegistry(Wake(t)) \/ InRegistry(WaitTimesOut(t))
    \/ InRegistry(Clear) \/ InRegistry(Register)
    \/ InLoadTest(Run) \/ InLoadTest(Plan) \/ InLoadTest(PhaseOver)
    \/ InLoadTest(Launch) \/ InLoadTest(LaunchFails) \/ InLoadTest(Collect)
    \/ InLoadTest(WaitEnds) \/ InLoadTest(Drain) \/ InLoadTest(Drained)
    \/ InLoadTest(CancelQueued) \/ InLoadTest(ShutDown) \/ InLoadTest(Report)
    \/ \E s \in Streams :
          \/ InLoadTest(Start(s)) \/ InLoadTest(LookAtStop(s)) \/ InLoadTest(BeginQuery(s))
          \/ InLoadTest(QueryEnds(s)) \/ InLoadTest(StreamFails(s))

Fair(s, A) == part = s /\ A

\* The fairness of AdmissionSpec, RegistrySpec and LoadSpec.  A step of a service
\* leaves the others alone, which need not be said once more.
Fairness ==
    /\ WF_admissionVars(Fair("admission", LeaseTick))
    /\ \A r \in Requests : /\ WF_admissionVars(Fair("admission", Go(r)))
                           /\ WF_admissionVars(Fair("admission", Heartbeat(r)))
    /\ \A t \in Threads : WF_registryVars(Fair("registry", LookupStep(t)))
    /\ WF_loadVars(Fair("load", DriverStep)) /\ SF_loadVars(Fair("load", PhaseOver))

Spec == Init /\ [][Next]_everything /\ Fairness
=============================================================================
