----------------------------- MODULE HostProofs -----------------------------
(***************************************************************************)
(* What processes of one or several hosts share: proofs about Admission,   *)
(* ArchiveFetch, FrameCache and LeaseClock, which have no state in common, *)
(* for any number of processes, limits, tables, keys and attempts.         *)
(*                                                                         *)
(* Admission: the limits are inductive: only _enqueue makes tickets wait,  *)
(* and only it and _try_promote make them active, each when there is room. *)
(* That a request executes on an active ticket also needs why its lease    *)
(* cannot have expired: its age is at most the time since the last         *)
(* heartbeat (Punctuated).                                                 *)
(*                                                                         *)
(* Archive: downloads are alone and exact, and a wrong table has a writer. *)
(* Most steps move one process and touch no table; a lemma deals with all  *)
(* of these at once.  The lock is owned by whoever is between its          *)
(* acquisition and its release, and an archive that is opened is the       *)
(* pinned one, because only a checked part is ever renamed to it.          *)
(* Who still extracts although the tables are right by then has found one  *)
(* missing under the lock (LackKnown).                                     *)
(*                                                                         *)
(* Cache: what a call has converted stays its own until a call with        *)
(* another key writes, and a call that found its key in the manifest still *)
(* finds it when it reads the manifest again, unless one was saved.        *)
(*                                                                         *)
(* Lease: a worker's watch of a lease tells the truth in a first attempt,  *)
(* but for the time it was late in reading the lease it dates              *)
(* (FirstLeaseWatched).                                                    *)
(***************************************************************************)
EXTENDS Admission, ArchiveFetch, FrameCache, LeaseClock, FiniteSetTheorems, TLAPS

(* Admission.                                                               *)

Tickets == [state : {"none", "waiting", "active"}, age : 0..LeaseTicks]

\* What a request that has not stalled knows about its lease.
Punctuated ==
    \A r \in Requests : r \notin late =>
        /\ stage[r] # "lost"
        /\ stage[r] = "serve" => ticket[r].state = "active" /\ ticket[r].age <= beat[r]
        /\ stage[r] = "poll" /\ ticket[r].state = "active" => ticket[r].age = 0

-----------------------------------------------------------------------------
(* Tables of tickets.                                                       *)

\* Cleaning up keeps the types, deletes no waiting ticket and makes none active.
LEMMA SweptTable ==
    ASSUME ticket \in [Requests -> Tickets]
    PROVE  /\ Swept \in [Requests -> Tickets]
           /\ \A r \in Requests : Swept[r] = ticket[r] \/ Swept[r] = NoTicket
           /\ InState(Swept, "waiting") \subseteq InState(ticket, "waiting")
           /\ InState(Swept, "active") \subseteq InState(ticket, "active")
    BY AdmissionAssumption DEF Swept, Tickets, NoTicket, Expired, InState

\* The table t without more active or waiting tickets than u keeps the limits of u.
LEMMA FewerTickets ==
    ASSUME NEW t, NEW u,
           InState(t, "active") \subseteq InState(u, "active"),
           InState(t, "waiting") \subseteq InState(u, "waiting")
    PROVE  /\ Cardinality(InState(t, "active")) <= Cardinality(InState(u, "active"))
           /\ Cardinality(InState(t, "waiting")) <= Cardinality(InState(u, "waiting"))
           /\ \A p \in Callers : Cardinality(ActiveOf(t, p)) <= Cardinality(ActiveOf(u, p))
    <1>1. /\ IsFiniteSet(InState(u, "active")) /\ IsFiniteSet(InState(u, "waiting"))
          /\ \A p \in Callers : IsFiniteSet(ActiveOf(u, p))
      <2>1. /\ InState(u, "active") \in SUBSET Requests
            /\ InState(u, "waiting") \in SUBSET Requests
            /\ \A p \in Callers : ActiveOf(u, p) \in SUBSET Requests
        BY DEF InState, ActiveOf
      <2> QED BY <2>1, FS_Subset, AdmissionAssumption
    <1>2. \A p \in Callers : ActiveOf(t, p) \in SUBSET ActiveOf(u, p)
      BY DEF ActiveOf
    <1> QED BY <1>1, <1>2, FS_Subset

\* The sets of tickets are finite, so that their sizes are numbers.
LEMMA FiniteTables ==
    ASSUME NEW t
    PROVE  /\ IsFiniteSet(InState(t, "active")) /\ IsFiniteSet(InState(t, "waiting"))
           /\ Cardinality(InState(t, "active")) \in Nat
           /\ Cardinality(InState(t, "waiting")) \in Nat
           /\ \A p \in Callers : /\ IsFiniteSet(ActiveOf(t, p))
                                 /\ Cardinality(ActiveOf(t, p)) \in Nat
    <1>1. /\ InState(t, "active") \in SUBSET Requests
          /\ InState(t, "waiting") \in SUBSET Requests
          /\ \A p \in Callers : ActiveOf(t, p) \in SUBSET Requests
      BY DEF InState, ActiveOf
    <1> QED BY <1>1, FS_Subset, FS_CardinalityType, AdmissionAssumption

\* A set smaller than n may grow by one element.
LEMMA OneMore ==
    ASSUME NEW S, NEW x, NEW n \in Nat, IsFiniteSet(S), Cardinality(S) < n
    PROVE  Cardinality(S \cup {x}) <= n
    <1>1. Cardinality(S) \in Nat BY FS_CardinalityType
    <1>2. Cardinality(S \cup {x}) = IF x \in S THEN Cardinality(S) ELSE Cardinality(S) + 1
      BY FS_AddElement
    <1> QED BY <1>1, <1>2

\* One more active ticket where there is room leaves the limits kept.
LEMMA OneMoreActive ==
    ASSUME NEW t \in [Requests -> Tickets], NEW r \in Requests,
           Capacity(t, CallerOf[r]),
           \A p \in Callers : Cardinality(ActiveOf(t, p)) <= PrincipalConcurrency
    PROVE  LET u == [t EXCEPT ![r] = Active] IN
           /\ Cardinality(InState(u, "active")) <= GlobalConcurrency
           /\ \A p \in Callers : Cardinality(ActiveOf(u, p)) <= PrincipalConcurrency
           /\ InState(u, "waiting") \subseteq InState(t, "waiting")
    <1> DEFINE u == [t EXCEPT ![r] = Active]
    <1>1. /\ InState(u, "active") = InState(t, "active") \cup {r}
          /\ InState(u, "waiting") \subseteq InState(t, "waiting")
      BY DEF InState, Active, Tickets
    <1>2. \A p \in Callers : ActiveOf(u, p) =
              IF p = CallerOf[r] THEN ActiveOf(t, p) \cup {r} ELSE ActiveOf(t, p)
      BY <1>1, AdmissionAssumption DEF ActiveOf
    <1>3. Cardinality(InState(u, "active")) <= GlobalConcurrency
      <2>1. Cardinality(InState(t, "active")) < GlobalConcurrency BY DEF Capacity
      <2>2. IsFiniteSet(InState(t, "active")) BY FiniteTables
      <2>3. GlobalConcurrency \in Nat BY AdmissionAssumption
      <2>4. Cardinality(InState(t, "active") \cup {r}) <= GlobalConcurrency
        BY <2>1, <2>2, <2>3, OneMore
      <2> HIDE DEF u
      <2> QED BY <1>1, <2>4
    <1>4. ASSUME NEW p \in Callers PROVE Cardinality(ActiveOf(u, p)) <= PrincipalConcurrency
      <2> HIDE DEF u
      <2>1. CASE p # CallerOf[r] BY <2>1, <1>2
      <2>2. CASE p = CallerOf[r]
        <3>1. Cardinality(ActiveOf(t, p)) < PrincipalConcurrency
          BY <2>2 DEF Capacity, RoomForCaller
        <3>2. IsFiniteSet(ActiveOf(t, p)) BY FiniteTables
        <3>3. PrincipalConcurrency \in Nat BY AdmissionAssumption
        <3>4. Cardinality(ActiveOf(t, p) \cup {r}) <= PrincipalConcurrency
          BY <3>1, <3>2, <3>3, OneMore
        <3> QED BY <1>2, <2>2, <3>4
      <2> QED BY <2>1, <2>2
    <1> QED BY <1>1, <1>3, <1>4

\* One more waiting ticket adds at most one to those that wait, and none to the others.
LEMMA OneMoreWaiting ==
    ASSUME NEW t \in [Requests -> Tickets], NEW r \in Requests,
           Cardinality(InState(t, "waiting")) < WaitingLimit
    PROVE  LET u == [t EXCEPT ![r] = Waits] IN
           /\ InState(u, "active") \subseteq InState(t, "active")
           /\ Cardinality(InState(u, "waiting")) <= WaitingLimit
    <1> DEFINE u == [t EXCEPT ![r] = Waits]
    <1>1. /\ InState(u, "active") \subseteq InState(t, "active")
          /\ InState(u, "waiting") = InState(t, "waiting") \cup {r}
      BY DEF InState, Waits, Tickets
    <1>2. IsFiniteSet(InState(t, "waiting")) BY FiniteTables
    <1>3. WaitingLimit \in Nat BY AdmissionAssumption
    <1>4. Cardinality(InState(t, "waiting") \cup {r}) <= WaitingLimit
      BY <1>2, <1>3, OneMore
    <1> QED BY <1>1, <1>4

-----------------------------------------------------------------------------
(* Types.                                                                   *)

RequestStep(r) ==
    \/ RefuseRate(r) \/ RefuseFull(r) \/ Enqueue(r) \/ Admit(r) \/ PollAgain(r) \/ GiveUp(r)
    \/ Renew(r) \/ RenewFails(r) \/ Finish(r) \/ Release(r) \/ Abandon(r) \/ Stall(r)

\* A step is one of a request or of the environment.
LEMMA StepOfWhom ==
    AdmissionNext => (\E r \in Requests : RequestStep(r)) \/ LeaseTick \/ NewWindow \/ Reboot
    BY DEF AdmissionNext, RequestStep, Enter, Go, Heartbeat

\* Every step of a request, a heartbeat or the environment keeps the types.
LEMMA TypesKept == AdmissionTypeOK /\ [AdmissionNext]_admissionVars => AdmissionTypeOK'
    <1> SUFFICES ASSUME AdmissionTypeOK, [AdmissionNext]_admissionVars
                 PROVE  AdmissionTypeOK'
      OBVIOUS
    <1> USE AdmissionAssumption DEF AdmissionTypeOK, Stages
    <1>1. /\ {NoTicket, Waits, Active} \subseteq Tickets
          /\ NoTicket.state = "none"
      BY DEF NoTicket, Waits, Active, Tickets
    <1>2. /\ ticket \in [Requests -> Tickets] /\ Swept \in [Requests -> Tickets]
          /\ \A r \in Requests : ticket[r].state = "none" => Swept[r].state = "none"
      BY SweptTable, <1>1 DEF Tickets
    <1>3. CASE UNCHANGED admissionVars
      BY <1>3 DEF admissionVars
    <1>4. ASSUME NEW r \in Requests, RequestStep(r) PROVE AdmissionTypeOK'
      <2>1. CASE RefuseRate(r) BY <2>1 DEF RefuseRate, Move
      <2>2. CASE RefuseFull(r) BY <2>2 DEF RefuseFull, Move
      <2>3. CASE Enqueue(r)
        <3>1. rate' = [rate EXCEPT ![CallerOf[r]] = rate[CallerOf[r]] + 1]
          BY <2>3 DEF Enqueue
        <3>2. rate[CallerOf[r]] \in 0..RequestsPerWindow /\ rate[CallerOf[r]] < RequestsPerWindow
          BY <2>3 DEF Enqueue, RateLeft
        <3>3. rate' \in [Callers -> 0..RequestsPerWindow]
          BY <3>1, <3>2
        <3>4. ticket' \in [Requests -> Tickets] /\ \A q \in Requests \ {r} : ticket'[q] = Swept[q]
          <4>1. ticket' \in {[Swept EXCEPT ![r] = Active], [Swept EXCEPT ![r] = Waits]}
            BY <2>3 DEF Enqueue
          <4> QED BY <4>1, <1>1, <1>2
        <3>5. stage' = [stage EXCEPT ![r] = "poll"] /\ UNCHANGED <<beat, late>>
          BY <2>3 DEF Enqueue, Move
        <3> QED BY <3>3, <3>4, <3>5, <1>2 DEF Tickets
      <2>4. CASE Admit(r)
        <3>1. ticket' \in [Requests -> Tickets] /\ \A q \in Requests \ {r} : ticket'[q] = Swept[q]
          BY <2>4, <1>1, <1>2 DEF Admit
        <3>2. stage' = [stage EXCEPT ![r] = "serve"] /\ UNCHANGED <<beat, late, rate>>
          BY <2>4 DEF Admit, Move
        <3> QED BY <3>1, <3>2, <1>2 DEF Tickets
      <2>5. CASE PollAgain(r)
        <3>1. ticket' \in {ticket, Swept} /\ stage' = stage /\ UNCHANGED <<beat, late, rate>>
          BY <2>5 DEF PollAgain, NotYet, Move
        <3> QED BY <3>1, <1>2 DEF Tickets
      <2>6. CASE GiveUp(r)
        <3>1. /\ ticket' \in {ticket, Swept} /\ stage' = [stage EXCEPT ![r] = "leave"]
              /\ UNCHANGED <<beat, rate>> /\ late' = late \ {r}
          BY <2>6 DEF GiveUp, NotYet, Move
        <3> QED BY <3>1, <1>2 DEF Tickets
      <2>7. CASE Renew(r) BY <2>7 DEF Renew, Active
      <2>8. CASE RenewFails(r) BY <2>8 DEF RenewFails, Move
      <2>9. CASE Finish(r) BY <2>9 DEF Finish, Executing
      <2>10. CASE Release(r) BY <2>10, <1>1 DEF Release, Move, Tickets
      <2>11. CASE Abandon(r) BY <2>11 DEF Abandon, Live
      <2>12. CASE Stall(r) BY <2>12 DEF Stall
      <2> QED BY <1>4, <2>1, <2>2, <2>3, <2>4, <2>5, <2>6, <2>7, <2>8, <2>9, <2>10, <2>11, <2>12
             DEF RequestStep
    <1>5. CASE LeaseTick BY <1>5 DEF LeaseTick, Punctual
    <1>6. CASE NewWindow BY <1>6 DEF NewWindow
    <1>7. CASE Reboot BY <1>7, <1>1 DEF Reboot, Tickets
    <1> QED BY <1>3, <1>4, <1>5, <1>6, <1>7, StepOfWhom

\* Requests, tickets, leases and counters keep their types (AdmissionTypeOK).
THEOREM AdmissionTypes == AdmissionSpec => []AdmissionTypeOK
    <1>1. AdmissionInit => AdmissionTypeOK
      BY AdmissionAssumption DEF AdmissionInit, AdmissionTypeOK, Stages, NoTicket
    <1> QED BY <1>1, TypesKept, PTL DEF AdmissionSpec

-----------------------------------------------------------------------------
(* The limits.                                                              *)

\* Every step deletes tickets or adds one where there is room.
LEMMA LimitsKept ==
    AdmissionTypeOK /\ AdmissionLimits /\ [AdmissionNext]_admissionVars => AdmissionLimits'
    <1> SUFFICES ASSUME AdmissionTypeOK, AdmissionLimits, [AdmissionNext]_admissionVars
                 PROVE  AdmissionLimits'
      OBVIOUS
    <1> DEFINE Within(t) ==
           /\ Cardinality(InState(t, "active")) <= GlobalConcurrency
           /\ \A p \in Callers : Cardinality(ActiveOf(t, p)) <= PrincipalConcurrency
           /\ Cardinality(InState(t, "waiting")) <= WaitingLimit
    <1>1. /\ ticket \in [Requests -> Tickets] /\ Within(ticket)
          /\ GlobalConcurrency \in Nat /\ PrincipalConcurrency \in Nat /\ WaitingLimit \in Nat
      BY AdmissionAssumption DEF AdmissionTypeOK, AdmissionLimits, Tickets
    <1>2. Within(ticket') => AdmissionLimits'
      BY DEF AdmissionLimits
    <1>3. ASSUME NEW t, NEW u, Within(u),
                 InState(t, "active") \subseteq InState(u, "active"),
                 InState(t, "waiting") \subseteq InState(u, "waiting")
          PROVE  Within(t)
      <2>1. /\ Cardinality(InState(t, "active")) <= Cardinality(InState(u, "active"))
            /\ Cardinality(InState(t, "waiting")) <= Cardinality(InState(u, "waiting"))
            /\ \A p \in Callers : Cardinality(ActiveOf(t, p)) <= Cardinality(ActiveOf(u, p))
        BY <1>3, FewerTickets
      <2>2. /\ Cardinality(InState(t, "active")) \in Nat /\ Cardinality(InState(t, "waiting")) \in Nat
            /\ \A p \in Callers : Cardinality(ActiveOf(t, p)) \in Nat
        BY FiniteTables
      <2>3. /\ Cardinality(InState(u, "active")) \in Nat /\ Cardinality(InState(u, "waiting")) \in Nat
            /\ \A p \in Callers : Cardinality(ActiveOf(u, p)) \in Nat
        BY FiniteTables
      <2> QED BY <1>1, <1>3, <2>1, <2>2, <2>3
    <1>4. Swept \in [Requests -> Tickets] /\ Within(Swept)
      <2>1. /\ InState(Swept, "waiting") \subseteq InState(ticket, "waiting")
            /\ InState(Swept, "active") \subseteq InState(ticket, "active")
        BY <1>1, SweptTable
      <2> HIDE DEF Within
      <2> QED BY <1>1, <1>3, <2>1, SweptTable
    <1>5. ASSUME NEW r \in Requests, Capacity(Swept, CallerOf[r])
          PROVE  Within([Swept EXCEPT ![r] = Active])
      <2> DEFINE u == [Swept EXCEPT ![r] = Active]
      <2>1. /\ Cardinality(InState(u, "active")) <= GlobalConcurrency
            /\ \A p \in Callers : Cardinality(ActiveOf(u, p)) <= PrincipalConcurrency
            /\ InState(u, "waiting") \subseteq InState(Swept, "waiting")
        BY <1>4, <1>5, OneMoreActive
      <2>2. Cardinality(InState(u, "waiting")) <= Cardinality(InState(Swept, "waiting"))
        <3>1. IsFiniteSet(InState(Swept, "waiting")) BY FiniteTables
        <3> HIDE DEF u
        <3> QED BY <2>1, <3>1, FS_Subset
      <2>3. /\ Cardinality(InState(u, "waiting")) \in Nat
            /\ Cardinality(InState(Swept, "waiting")) \in Nat
        BY FiniteTables
      <2> HIDE DEF u
      <2>4. Within(u) BY <1>1, <1>4, <2>1, <2>2, <2>3
      <2> QED BY <2>4 DEF u
    <1>6. ASSUME NEW r \in Requests, Cardinality(InState(Swept, "waiting")) < WaitingLimit
          PROVE  Within([Swept EXCEPT ![r] = Waits])
      <2> DEFINE u == [Swept EXCEPT ![r] = Waits]
      <2>1. /\ InState(u, "active") \subseteq InState(Swept, "active")
            /\ Cardinality(InState(u, "waiting")) <= WaitingLimit
        BY <1>4, <1>6, OneMoreWaiting
      <2>2. InState(u, "active") \in SUBSET InState(Swept, "active")
            /\ \A p \in Callers : ActiveOf(u, p) \in SUBSET ActiveOf(Swept, p)
        BY <2>1 DEF ActiveOf
      <2>3. /\ IsFiniteSet(InState(Swept, "active")) /\ Cardinality(InState(Swept, "active")) \in Nat
            /\ \A p \in Callers : /\ IsFiniteSet(ActiveOf(Swept, p))
                                  /\ Cardinality(ActiveOf(Swept, p)) \in Nat
        BY FiniteTables
      <2>4. /\ Cardinality(InState(u, "active")) \in Nat
            /\ \A p \in Callers : Cardinality(ActiveOf(u, p)) \in Nat
        BY FiniteTables
      <2> HIDE DEF u
      <2>5. /\ Cardinality(InState(u, "active")) <= Cardinality(InState(Swept, "active"))
            /\ \A p \in Callers : Cardinality(ActiveOf(u, p)) <= Cardinality(ActiveOf(Swept, p))
        BY <2>2, <2>3, FS_Subset
      <2>6. Within(u) BY <1>1, <1>4, <2>1, <2>3, <2>4, <2>5
      <2> QED BY <2>6 DEF u
    <1> HIDE DEF Within
    <1>7. ASSUME NEW r \in Requests, RequestStep(r) PROVE Within(ticket')
      <2>1. CASE UNCHANGED ticket BY <2>1, <1>1
      <2>2. CASE ticket' = Swept BY <2>2, <1>4
      <2>3. CASE Enqueue(r) BY <2>3, <1>5, <1>6 DEF Enqueue
      <2>4. CASE Admit(r) BY <2>4, <1>4, <1>5 DEF Admit
      <2>5. CASE Renew(r)
        <3>1. ticket[r].state = "active" /\ ticket' = [ticket EXCEPT ![r] = Active]
          BY <2>5 DEF Renew
        <3>2. /\ InState(ticket', "active") \subseteq InState(ticket, "active")
              /\ InState(ticket', "waiting") \subseteq InState(ticket, "waiting")
          BY <3>1, <1>1 DEF InState, Active
        <3> QED BY <3>2, <1>1, <1>3
      <2>6. CASE Release(r)
        <3>1. ticket' = [ticket EXCEPT ![r] = NoTicket]
          BY <2>6 DEF Release
        <3>2. /\ InState(ticket', "active") \subseteq InState(ticket, "active")
              /\ InState(ticket', "waiting") \subseteq InState(ticket, "waiting")
          BY <3>1, <1>1 DEF InState, NoTicket
        <3> QED BY <3>2, <1>1, <1>3
      <2> QED BY <1>7, <2>1, <2>2, <2>3, <2>4, <2>5, <2>6
             DEF RequestStep, RefuseRate, RefuseFull, PollAgain, GiveUp, NotYet, RenewFails, Finish,
                 Abandon, Stall
    <1>8. CASE LeaseTick
      <2>1. \A r \in Requests : ticket'[r].state = ticket[r].state
        BY <1>8, <1>1 DEF LeaseTick, Tickets
      <2>2. /\ InState(ticket', "active") \subseteq InState(ticket, "active")
            /\ InState(ticket', "waiting") \subseteq InState(ticket, "waiting")
        BY <2>1 DEF InState
      <2> QED BY <2>2, <1>1, <1>2, <1>3
    <1>9. CASE Reboot
      <2>1. /\ InState(ticket', "active") \subseteq InState(ticket, "active")
            /\ InState(ticket', "waiting") \subseteq InState(ticket, "waiting")
        BY <1>9 DEF Reboot, InState, NoTicket
      <2> QED BY <2>1, <1>1, <1>2, <1>3
    <1>10. CASE UNCHANGED ticket BY <1>10, <1>1, <1>2
    <1> QED BY <1>2, <1>7, <1>8, <1>9, <1>10, StepOfWhom DEF NewWindow, admissionVars

\* Across all processes, active and waiting tickets stay within the limits of
\* AdmissionLimits (_enqueue, _try_promote), whatever the limits are.
THEOREM LimitsHold == AdmissionSpec => []AdmissionLimits
    <1>1. AdmissionInit => AdmissionTypeOK /\ AdmissionLimits
      <2>1. AdmissionInit => AdmissionTypeOK
        BY AdmissionAssumption DEF AdmissionInit, AdmissionTypeOK, Stages, NoTicket
      <2>2. ASSUME AdmissionInit PROVE AdmissionLimits
        <3>1. /\ InState(ticket, "active") = {} /\ InState(ticket, "waiting") = {}
              /\ \A p \in Callers : ActiveOf(ticket, p) = {}
          BY <2>2 DEF AdmissionInit, InState, ActiveOf, NoTicket
        <3> QED BY <3>1, FS_EmptySet, AdmissionAssumption DEF AdmissionLimits
      <2> QED BY <2>1, <2>2
    <1> QED BY <1>1, TypesKept, LimitsKept, PTL DEF AdmissionSpec

-----------------------------------------------------------------------------
(* Leases.                                                                  *)

\* Nobody sweeps a ticket whose heart beats, and every step leaves it younger than its
\* last heartbeat.
LEMMA PunctuatedKept ==
    AdmissionTypeOK /\ Punctuated /\ [AdmissionNext]_admissionVars => Punctuated'
    <1> SUFFICES ASSUME AdmissionTypeOK, Punctuated, [AdmissionNext]_admissionVars
                 PROVE  Punctuated'
      OBVIOUS
    <1>1. /\ ticket \in [Requests -> Tickets] /\ Swept \in [Requests -> Tickets]
          /\ stage \in [Requests -> Stages] /\ beat \in [Requests -> 0..HeartbeatTicks]
          /\ late \subseteq Requests
      BY SweptTable DEF AdmissionTypeOK, Tickets
    <1>2. ASSUME NEW q \in Requests, q \notin late PROVE
          /\ stage[q] = "serve" => Swept[q] = ticket[q]
          /\ stage[q] = "poll" /\ Swept[q].state = "active" => Swept[q].age = 0
      <2>1. CASE stage[q] = "serve"
        <3>1. ticket[q].age <= beat[q] /\ beat[q] <= HeartbeatTicks /\ HeartbeatTicks < LeaseTicks
          BY <1>1, <1>2, <2>1, AdmissionAssumption DEF Punctuated
        <3>2. /\ ticket[q].age \in Nat /\ beat[q] \in Nat /\ LeaseTicks \in Nat
              /\ HeartbeatTicks \in Nat
          BY <1>1, AdmissionAssumption DEF Tickets
        <3>3. ~Expired(q) BY <3>1, <3>2 DEF Expired
        <3> QED BY <2>1, <3>3 DEF Swept
      <2>2. CASE stage[q] = "poll"
        <3>1. Swept[q] \in {ticket[q], NoTicket} /\ NoTicket.state # "active"
          BY <1>1, SweptTable DEF NoTicket
        <3> QED BY <1>2, <2>2, <3>1 DEF Punctuated
      <2> QED BY <2>1, <2>2
    <1>3. ASSUME NEW r \in Requests, RequestStep(r) PROVE Punctuated'
      <2>1. CASE RefuseRate(r) \/ RefuseFull(r)
        BY <1>1, <2>1 DEF RefuseRate, RefuseFull, Move, Punctuated
      <2>2. CASE Enqueue(r)
        <3>1. /\ stage' = [stage EXCEPT ![r] = "poll"] /\ UNCHANGED <<beat, late>>
              /\ ticket' \in {[Swept EXCEPT ![r] = Active], [Swept EXCEPT ![r] = Waits]}
          BY <2>2 DEF Enqueue, Move
        <3>2. ticket'[r].state = "active" => ticket'[r].age = 0
          BY <3>1, <1>1 DEF Active, Waits
        <3>3. \A q \in Requests \ {r} : stage'[q] = stage[q] /\ ticket'[q] = Swept[q]
          BY <3>1, <1>1
        <3>4. stage'[r] = "poll" BY <3>1, <1>1
        <3> QED BY <3>1, <3>2, <3>3, <3>4, <1>2 DEF Punctuated
      <2>3. CASE Admit(r)
        <3>1. /\ stage' = [stage EXCEPT ![r] = "serve"] /\ UNCHANGED <<beat, late>>
              /\ stage[r] = "poll"
              /\ \/ Swept[r].state = "active" /\ ticket' = Swept
                 \/ ticket' = [Swept EXCEPT ![r] = Active]
          BY <2>3 DEF Admit, Move
        <3>2. r \notin late => ticket'[r].state = "active" /\ ticket'[r].age = 0
          BY <3>1, <1>1, <1>2 DEF Active
        <3>3. \A q \in Requests \ {r} : stage'[q] = stage[q] /\ ticket'[q] = Swept[q]
          BY <3>1, <1>1
        <3>4. stage'[r] = "serve" /\ beat[r] >= 0 BY <3>1, <1>1
        <3> QED BY <3>1, <3>2, <3>3, <3>4, <1>2 DEF Punctuated
      <2>4. CASE PollAgain(r)
        <3>1. ticket' \in {ticket, Swept} /\ stage' = stage /\ UNCHANGED <<beat, late>>
          BY <1>1, <2>4 DEF PollAgain, NotYet, Move
        <3> QED BY <3>1, <1>2 DEF Punctuated
      <2>5. CASE GiveUp(r)
        <3>1. /\ ticket' \in {ticket, Swept} /\ stage' = [stage EXCEPT ![r] = "leave"]
              /\ beat' = beat /\ late' = late \ {r}
          BY <2>5 DEF GiveUp, NotYet, Move
        <3>2. \A q \in Requests \ {r} : stage'[q] = stage[q]
          BY <3>1, <1>1
        <3>3. stage'[r] = "leave" BY <3>1, <1>1
        <3> QED BY <3>1, <3>2, <3>3, <1>2 DEF Punctuated
      <2>6. CASE Renew(r)
        <3>1. /\ ticket' = [ticket EXCEPT ![r] = Active] /\ beat' = [beat EXCEPT ![r] = 0]
              /\ UNCHANGED <<stage, late>>
          BY <2>6 DEF Renew
        <3> QED BY <3>1, <1>1 DEF Punctuated, Active
      <2>7. CASE RenewFails(r)
        BY <1>1, <2>7 DEF RenewFails, Move, Punctuated
      <2>8. CASE Finish(r) BY <1>1, <2>8 DEF Finish, Punctuated
      <2>9. CASE Release(r)
        <3>1. /\ stage' = [stage EXCEPT ![r] = "over"] /\ UNCHANGED <<beat, late>>
              /\ ticket' = [ticket EXCEPT ![r] = NoTicket]
          BY <2>9 DEF Release, Move
        <3>2. \A q \in Requests \ {r} : stage'[q] = stage[q] /\ ticket'[q] = ticket[q]
          BY <3>1, <1>1
        <3>3. stage'[r] = "over" BY <3>1, <1>1
        <3> QED BY <3>1, <3>2, <3>3 DEF Punctuated
      <2>10. CASE Abandon(r) BY <1>1, <2>10 DEF Abandon, Punctuated
      <2>11. CASE Stall(r) BY <1>1, <2>11 DEF Stall, Punctuated
      <2> QED BY <1>3, <2>1, <2>2, <2>3, <2>4, <2>5, <2>6, <2>7, <2>8, <2>9, <2>10, <2>11
             DEF RequestStep
    <1>4. CASE LeaseTick
      <2>1. /\ UNCHANGED <<stage, late>>
            /\ \A r \in Requests : Punctual(r)
            /\ \A r \in Requests :
                   /\ ticket'[r].state = ticket[r].state
                   /\ ticket'[r].age \in {ticket[r].age, ticket[r].age + 1}
                   /\ ticket[r].state # "active" => ticket'[r].age = ticket[r].age
                   /\ stage[r] = "serve" /\ r \notin late => beat'[r] = beat[r] + 1
        BY <1>4, <1>1 DEF LeaseTick, Tickets
      <2>2. \A r \in Requests : ticket[r].age \in Nat /\ beat[r] \in Nat
        BY <1>1, AdmissionAssumption DEF Tickets
      <2> QED BY <2>1, <2>2 DEF Punctuated, Punctual
    <1>5. CASE Reboot BY <1>5 DEF Reboot, Punctuated
    <1>6. CASE NewWindow \/ UNCHANGED admissionVars
      BY <1>6 DEF NewWindow, admissionVars, Punctuated
    <1> QED BY <1>3, <1>4, <1>5, <1>6, StepOfWhom

\* A request executes on an active ticket, so that the limits bound what runs, unless its
\* own heartbeat stalled (LeasedWhileExecuting; _renew_lease, _cleanup_expired).
THEOREM ExecutionIsLeased == AdmissionSpec => []LeasedWhileExecuting
    <1>1. AdmissionInit => AdmissionTypeOK /\ Punctuated
      BY AdmissionAssumption
      DEF AdmissionInit, AdmissionTypeOK, Stages, NoTicket, Punctuated
    <1>2. Punctuated => LeasedWhileExecuting
      BY DEF Punctuated, LeasedWhileExecuting, Executing
    <1> QED BY <1>1, <1>2, TypesKept, PunctuatedKept, PTL DEF AdmissionSpec

-----------------------------------------------------------------------------
(* The archive.                                                             *)

FetcherStates ==
    [at : Steps, look : SUBSET Tables, bad : SUBSET {"missing", "wrong"}, again : BOOLEAN,
     tries : Nat, part : Seq(Editions), todo : SUBSET Tables, open : SUBSET Tables,
     spoilt : BOOLEAN, from : {Absent, Pinned}, lacked : BOOLEAN]

FetchTypeOK ==
    /\ fetcher \in [Fetchers -> FetcherStates]
    /\ table \in [Tables -> {"missing", "partial", "right"}]
    /\ edition \in Editions

LockOwned == \A f \in Fetchers : fetcher[f].at \in Locked => flock = f

\* A process writes one table at a time, from the pinned archive.
WritesPinned ==
    \A f \in Fetchers :
        /\ \A t, u \in fetcher[f].open : t = u
        /\ fetcher[f].at = "write" => fetcher[f].from = Pinned

\* Whoever goes beyond the verification under the lock has found a table missing, and none
\* has been missing since it took the lock that "lacked" does not know of.
Lacks(x) ==
    /\ x.at \in Locked /\ "missing" \in x.bad => x.lacked
    /\ x.at \in (Locked \ {"locked"}) \cup {"unpack", "write"} => x.lacked
    /\ x.at = "lock" => x.bad = {}
LackKnown ==
    \A f \in Fetchers :
        Lacks(fetcher[f]) /\ (fetcher[f].at \in Locked /\ SomeMissing => fetcher[f].lacked)

FetchInv ==
    /\ FetchTypeOK /\ LockOwned /\ WritesPinned /\ DownloadedOnce /\ WrongTableHasWriter
    /\ LackKnown

-----------------------------------------------------------------------------

\* A step of one process that leaves the tables, its hold on them, and the archive alone,
\* and takes no lock, keeps the invariant.
LEMMA StepOfOne ==
    ASSUME FetchInv, NEW f \in Fetchers, NEW r \in FetcherStates,
           fetcher' = [fetcher EXCEPT ![f] = r],
           r.open = fetcher[f].open, r.spoilt = fetcher[f].spoilt,
           r.at = "write" => r.from = Pinned,
           r.at \in Locked => fetcher[f].at \in Locked,
           r.at \in Downloading => archive = Absent,
           Lacks(r), r.at \in Locked /\ fetcher[f].lacked => r.lacked,
           LeaveLocked(f) \/ UNCHANGED flock,
           UNCHANGED <<archive, table, edition>>
    PROVE  FetchInv'
    <1>1. /\ fetcher' \in [Fetchers -> FetcherStates] /\ fetcher'[f] = r
          /\ \A g \in Fetchers \ {f} : fetcher'[g] = fetcher[g]
          /\ \A g \in Fetchers : /\ fetcher'[g].open = fetcher[g].open
                                 /\ fetcher'[g].spoilt = fetcher[g].spoilt
      BY DEF FetchInv, FetchTypeOK
    <1>2. \A g \in Fetchers : fetcher'[g].at \in Locked => fetcher[g].at \in Locked /\ flock' = g
      BY <1>1 DEF FetchInv, LockOwned, LeaveLocked
    <1>3. FetchTypeOK' BY <1>1 DEF FetchInv, FetchTypeOK
    <1>4. LockOwned' BY <1>2 DEF LockOwned
    <1>5. WritesPinned' BY <1>1 DEF FetchInv, WritesPinned
    <1>6. DownloadedOnce'
      BY <1>1, <1>2 DEF FetchInv, DownloadedOnce, Locked
    <1>7. WrongTableHasWriter' BY <1>1 DEF FetchInv, WrongTableHasWriter
    <1>8. LackKnown' BY <1>1 DEF FetchInv, LackKnown, SomeMissing
    <1> QED BY <1>3, <1>4, <1>5, <1>6, <1>7, <1>8 DEF FetchInv

\* A step that only moves the process on, to s.
LEMMA GotoKept ==
    ASSUME FetchInv, NEW f \in Fetchers, NEW s \in Steps \ {"write", "lock"}, FGoto(f, s),
           s \in Locked => fetcher[f].at \in Locked,
           s \in Downloading => archive = Absent,
           s \in Locked \cup {"unpack"} => fetcher[f].lacked,
           LeaveLocked(f) \/ UNCHANGED flock,
           UNCHANGED <<archive, table, edition>>
    PROVE  FetchInv'
    <1> DEFINE r == [fetcher[f] EXCEPT !.at = s]
    <1>1. /\ r \in FetcherStates /\ r.at = s
          /\ r.open = fetcher[f].open /\ r.spoilt = fetcher[f].spoilt
          /\ r.lacked = fetcher[f].lacked /\ r.bad = fetcher[f].bad
      BY DEF FetchInv, FetchTypeOK, FetcherStates
    <1>2. fetcher' = [fetcher EXCEPT ![f] = r] BY DEF FGoto
    <1> HIDE DEF r
    <1>3. Lacks(r) BY <1>1 DEF Lacks, Locked, Downloading
    <1> QED BY <1>1, <1>2, <1>3, StepOfOne

\* A look at a table, and after the last one the verdict, which goes on only for a table
\* that was missing.
LEMMA LookKept ==
    ASSUME FetchInv, NEW f \in Fetchers, NEW t \in Tables, LookAt(f, t)
    PROVE  FetchInv'
    <1> DEFINE x == fetcher[f]
               bad == Found(f, t)
               s == Verdict(f, bad)
    <1>1. x \in FetcherStates /\ x.at \in {"verify", "locked", "recheck"}
      BY DEF FetchInv, FetchTypeOK, LookAt
    <1>2. bad \in SUBSET {"missing", "wrong"} BY <1>1 DEF Found, FetcherStates
    <1>3. x.at \in Locked /\ "missing" \in bad => x.lacked
      BY DEF Found, FetchInv, LackKnown, Lacks, SomeMissing
    <1>4. UNCHANGED <<archive, table, edition>> /\ LeaveLocked(f)
      BY DEF LookAt
    <1>5. CASE x.look = {t}
      <2> DEFINE r == [x EXCEPT !.at = s, !.look = Tables, !.bad = {}]
      <2>1. fetcher' = [fetcher EXCEPT ![f] = r] BY <1>5 DEF LookAt
      <2>2. \/ s \in {"checksum", "data"}
            \/ /\ "missing" \in bad
               /\ \/ s = "lock" /\ x.at = "verify"
                  \/ s = "hash" /\ x.at = "locked"
                  \/ s \in {"unpack", "unextracted"} /\ x.at = "recheck"
        <3> HIDE DEF bad
        <3>1. CASE "wrong" \in bad \/ bad = {} BY <3>1 DEF Verdict
        <3>2. CASE ~("wrong" \in bad \/ bad = {})
          BY <1>1, <1>2, <3>2 DEF Verdict, FAt, ToExtract
        <3> QED BY <3>1, <3>2
      <2> HIDE DEF s, bad
      <2>3. /\ r \in FetcherStates /\ r.at = s /\ r.bad = {} /\ r.lacked = x.lacked
            /\ r.open = x.open /\ r.spoilt = x.spoilt
        BY <1>1, <2>2 DEF FetcherStates, Steps, Locked, Ends
      <2> HIDE DEF r
      <2>4. Lacks(r) BY <1>1, <1>3, <2>2, <2>3 DEF Lacks, Locked, Downloading
      <2>5. /\ r.at # "write" /\ r.at \notin Downloading
            /\ r.at \in Locked => x.at \in Locked
        BY <2>2, <2>3 DEF Locked, Downloading
      <2> QED BY <1>4, <2>1, <2>3, <2>4, <2>5, StepOfOne
    <1>6. CASE x.look # {t}
      <2> DEFINE left == x.look \ {t}
                 r == [x EXCEPT !.look = left, !.bad = bad]
      <2>1. fetcher' = [fetcher EXCEPT ![f] = r] BY <1>6 DEF LookAt
      <2>2. left \in SUBSET Tables BY <1>1 DEF FetcherStates
      <2> HIDE DEF bad, left
      <2>3. /\ r \in FetcherStates /\ r.at = x.at /\ r.bad = bad /\ r.lacked = x.lacked
            /\ r.open = x.open /\ r.spoilt = x.spoilt
        BY <1>1, <1>2, <2>2 DEF FetcherStates
      <2> HIDE DEF r
      <2>4. Lacks(r) BY <1>1, <1>3, <2>3 DEF Lacks, FetchInv, LackKnown
      <2>5. r.at # "write" /\ r.at \notin Downloading
        BY <1>1, <2>3 DEF Downloading
      <2> QED BY <1>4, <2>1, <2>3, <2>4, <2>5, StepOfOne
    <1> QED BY <1>5, <1>6

\* A process begins, and a forced one removes the tables and the archive first.
LEMMA BeginKept ==
    ASSUME FetchInv, NEW f \in Fetchers, Begin(f)
    PROVE  FetchInv'
    <1>1. CASE f \notin Forced
      BY <1>1, GotoKept DEF Begin, Steps, Locked, Downloading
    <1>2. CASE f \in Forced
      <2>1. /\ archive' = Absent /\ table' = [t \in Tables |-> "missing"]
            /\ UNCHANGED <<flock, edition>>
            /\ fetcher' = [g \in Fetchers |->
                    IF g = f THEN [Idle EXCEPT !.at = "verify"]
                    ELSE [fetcher[g] EXCEPT
                              !.spoilt = fetcher[g].spoilt \/ fetcher[g].open # {},
                              !.lacked = fetcher[g].lacked \/ fetcher[g].at \in Locked]]
        BY <1>2 DEF Begin
      <2>2. Idle \in FetcherStates /\ Idle.open = {}
        BY DEF Idle, FetcherStates, Steps, Absent
      <2>3. [Idle EXCEPT !.at = "verify"] \in FetcherStates
        BY <2>2 DEF FetcherStates, Steps
      <2>4. ASSUME NEW g \in Fetchers \ {f}
            PROVE  /\ fetcher'[g] \in FetcherStates
                   /\ fetcher'[g].at = fetcher[g].at /\ fetcher'[g].open = fetcher[g].open
                   /\ fetcher'[g].from = fetcher[g].from /\ fetcher'[g].bad = fetcher[g].bad
                   /\ fetcher[g].lacked \/ fetcher[g].at \in Locked => fetcher'[g].lacked
        <3>1. fetcher[g] \in FetcherStates BY DEF FetchInv, FetchTypeOK
        <3>2. PICK b \in BOOLEAN, c \in BOOLEAN :
                  /\ c = (fetcher[g].lacked \/ fetcher[g].at \in Locked)
                  /\ fetcher'[g] = [fetcher[g] EXCEPT !.spoilt = b, !.lacked = c]
          BY <2>1
        <3> QED BY <3>1, <3>2 DEF FetcherStates
      <2>5. fetcher'[f] \in FetcherStates /\ fetcher'[f].at = "verify" /\ fetcher'[f].open = {}
        BY <2>1, <2>2, <2>3 DEF FetcherStates
      <2>6. fetcher' \in [Fetchers -> FetcherStates]
        <3>1. \A g \in Fetchers : fetcher'[g] \in FetcherStates BY <2>4, <2>5
        <3>2. fetcher' = [g \in Fetchers |-> fetcher'[g]] BY <2>1
        <3> QED BY <3>1, <3>2
      <2>7. FetchTypeOK' BY <2>1, <2>6 DEF FetchInv, FetchTypeOK
      <2>8. LockOwned'
        BY <2>1, <2>4, <2>5 DEF FetchInv, LockOwned, Locked, Downloading
      <2>9. WritesPinned' BY <2>4, <2>5 DEF FetchInv, WritesPinned
      <2>10. DownloadedOnce'
        BY <2>1, <2>4, <2>5 DEF FetchInv, DownloadedOnce, Downloading
      <2>11. WrongTableHasWriter' BY <2>1 DEF WrongTableHasWriter
      <2>12. ASSUME NEW g \in Fetchers
             PROVE  Lacks(fetcher'[g]) /\ (fetcher'[g].at \in Locked => fetcher'[g].lacked)
        <3>1. CASE g = f BY <2>5, <3>1 DEF Lacks, Locked, Downloading
        <3>2. CASE g # f BY <2>4, <3>2 DEF FetchInv, LackKnown, Lacks
        <3> QED BY <3>1, <3>2
      <2>13. LackKnown' BY <2>12 DEF LackKnown, Lacks
      <2> QED BY <2>7, <2>8, <2>9, <2>10, <2>11, <2>13 DEF FetchInv
    <1> QED BY <1>1, <1>2

\* A process takes the lock when nobody has it, hence nobody is past its acquisition.
LEMMA AcquireKept ==
    ASSUME FetchInv, NEW f \in Fetchers, Acquire(f)
    PROVE  FetchInv'
    <1>1. /\ fetcher' = [fetcher EXCEPT ![f].at = "locked", ![f].lacked = SomeMissing]
          /\ fetcher[f].at = "lock" /\ flock = NoFetcher /\ flock' = f
          /\ UNCHANGED <<archive, table, edition>>
      BY DEF Acquire, FAt
    <1>2. /\ fetcher' \in [Fetchers -> FetcherStates] /\ fetcher'[f].at = "locked"
          /\ fetcher'[f].bad = fetcher[f].bad /\ fetcher'[f].lacked = SomeMissing
          /\ \A g \in Fetchers \ {f} : fetcher'[g] = fetcher[g]
          /\ \A g \in Fetchers : /\ fetcher'[g].open = fetcher[g].open
                                 /\ fetcher'[g].spoilt = fetcher[g].spoilt
      <2> DEFINE x == fetcher[f]
                 c == SomeMissing
                 r == [x EXCEPT !.at = "locked", !.lacked = c]
      <2>1. x \in FetcherStates /\ fetcher \in [Fetchers -> FetcherStates]
        BY DEF FetchInv, FetchTypeOK
      <2>2. c \in BOOLEAN BY DEF SomeMissing
      <2>3. fetcher' = [fetcher EXCEPT ![f] = r] BY <1>1
      <2> HIDE DEF x, c
      <2>4. /\ r \in FetcherStates /\ r.at = "locked" /\ r.bad = x.bad /\ r.lacked = c
            /\ r.open = x.open /\ r.spoilt = x.spoilt
        BY <2>1, <2>2 DEF FetcherStates, Steps, Locked
      <2> HIDE DEF r
      <2> QED BY <2>1, <2>3, <2>4 DEF x, c
    <1>3. \A g \in Fetchers : fetcher[g].at \notin Locked
      BY <1>1, FetchAssumption DEF FetchInv, LockOwned
    <1>4. FetchTypeOK' BY <1>1, <1>2 DEF FetchInv, FetchTypeOK
    <1>5. LockOwned' BY <1>1, <1>2, <1>3 DEF LockOwned
    <1>6. WritesPinned' BY <1>2 DEF FetchInv, WritesPinned
    <1>7. DownloadedOnce'
      BY <1>1, <1>2, <1>3 DEF FetchInv, DownloadedOnce, Locked, Downloading
    <1>8. WrongTableHasWriter' BY <1>1, <1>2 DEF FetchInv, WrongTableHasWriter
    <1>9. fetcher[f].bad = {} BY <1>1 DEF FetchInv, LackKnown, Lacks
    <1>10. SomeMissing' = SomeMissing BY <1>1 DEF SomeMissing
    <1>11. Lacks(fetcher[f])' /\ \A g \in Fetchers \ {f} : Lacks(fetcher[g])'
      BY <1>2, <1>9 DEF Lacks, FetchInv, LackKnown, Locked, Downloading
    <1>12. LackKnown' BY <1>2, <1>3, <1>10, <1>11 DEF LackKnown
    <1> QED BY <1>4, <1>5, <1>6, <1>7, <1>8, <1>12 DEF FetchInv

\* The part is renamed.
LEMMA LeavesPart ==
    ASSUME NEW x \in FetcherStates, NEW s \in Steps
    PROVE  LET r == [x EXCEPT !.at = s, !.part = Absent]
           IN  /\ r \in FetcherStates /\ r.at = s /\ r.lacked = x.lacked
               /\ r.bad = x.bad /\ r.open = x.open /\ r.spoilt = x.spoilt
    <1>1. Absent \in Seq(Editions) BY DEF Absent
    <1> QED BY <1>1 DEF FetcherStates

\* Only the holder of the lock is downloading, so that the archive it installs surprises
\* nobody.
LEMMA InstallKept ==
    ASSUME FetchInv, NEW f \in Fetchers, Install(f)
    PROVE  FetchInv'
    <1>1. /\ fetcher[f].at = "check" /\ flock = f /\ LeaveLocked(f)
          /\ UNCHANGED <<table, edition>>
      BY DEF Install, FAt, FetchInv, LockOwned, Locked, Downloading
    <1>2. fetcher[f] \in FetcherStates BY DEF FetchInv, FetchTypeOK
    <1>3. CASE PartIsRight(f)
      <2> DEFINE r == [fetcher[f] EXCEPT !.at = "recheck", !.part = Absent]
      <2>1. archive' = Pinned /\ fetcher' = [fetcher EXCEPT ![f] = r]
        BY <1>3 DEF Install, PartIsRight
      <2>2. /\ r \in FetcherStates /\ r.at = "recheck"
            /\ r.lacked = fetcher[f].lacked /\ r.bad = fetcher[f].bad
            /\ r.open = fetcher[f].open /\ r.spoilt = fetcher[f].spoilt
        BY <1>2, LeavesPart DEF Steps, Locked
      <2> HIDE DEF r
      <2>3. /\ fetcher' \in [Fetchers -> FetcherStates] /\ fetcher'[f].at = "recheck"
            /\ fetcher'[f].lacked = fetcher[f].lacked /\ fetcher'[f].bad = fetcher[f].bad
            /\ \A g \in Fetchers \ {f} : fetcher'[g] = fetcher[g]
            /\ \A g \in Fetchers : /\ fetcher'[g].open = fetcher[g].open
                                   /\ fetcher'[g].spoilt = fetcher[g].spoilt
        BY <2>1, <2>2 DEF FetchInv, FetchTypeOK
      <2>4. \A g \in Fetchers \ {f} : fetcher'[g].at \notin Locked
        BY <1>1, <2>3 DEF FetchInv, LockOwned
      <2>5. flock' = f BY <1>1, <2>3 DEF LeaveLocked, Locked
      <2>6. FetchTypeOK' BY <1>1, <2>3 DEF FetchInv, FetchTypeOK
      <2>7. LockOwned' BY <2>4, <2>5 DEF LockOwned
      <2>8. WritesPinned' BY <2>3 DEF FetchInv, WritesPinned
      <2>9. DownloadedOnce' BY <2>1, <2>3, <2>4 DEF DownloadedOnce, Locked, Downloading
      <2>10. WrongTableHasWriter' BY <1>1, <2>3 DEF FetchInv, WrongTableHasWriter
      <2>11. fetcher[f].lacked
        BY <1>1 DEF FetchInv, LackKnown, Lacks, Locked, Downloading
      <2>12. Lacks(fetcher[f])' BY <2>3, <2>11 DEF Lacks
      <2>13. SomeMissing' = SomeMissing BY <1>1 DEF SomeMissing
      <2>14. LackKnown' BY <2>3, <2>11, <2>12, <2>13 DEF FetchInv, LackKnown, Lacks
      <2> QED BY <2>6, <2>7, <2>8, <2>9, <2>10, <2>14 DEF FetchInv
    <1>4. CASE ~PartIsRight(f)
      <2> DEFINE r == [fetcher[f] EXCEPT !.at = "checksum", !.part = Absent]
      <2>1. UNCHANGED archive /\ fetcher' = [fetcher EXCEPT ![f] = r]
        BY <1>4 DEF Install
      <2>2. /\ r \in FetcherStates /\ r.at = "checksum"
            /\ r.open = fetcher[f].open /\ r.spoilt = fetcher[f].spoilt
        BY <1>2, LeavesPart DEF Steps, Ends
      <2> HIDE DEF r
      <2>3. Lacks(r) /\ r.at \notin Locked /\ r.at # "write"
        BY <2>2 DEF Lacks, Locked, Downloading
      <2> QED BY <1>1, <2>1, <2>2, <2>3, StepOfOne DEF Locked
    <1> QED BY <1>3, <1>4

\* The process that opens a table becomes its writer; who wrote it before is spoilt.
LEMMA OpenTableKept ==
    ASSUME FetchInv, NEW f \in Fetchers, NEW t \in Tables, OpenTable(f, t)
    PROVE  FetchInv'
    <1>1. /\ fetcher[f].at = "write" /\ fetcher[f].open = {}
          /\ table' = [table EXCEPT ![t] = "partial"]
          /\ UNCHANGED <<archive, flock, edition>>
      BY DEF OpenTable, Closed, FAt
    <1>2. fetcher'[f] = [fetcher[f] EXCEPT !.todo = @ \ {t}, !.open = {t}, !.spoilt = FALSE]
      BY DEF OpenTable
    <1>3. /\ fetcher'[f] \in FetcherStates /\ fetcher'[f].open = {t} /\ ~fetcher'[f].spoilt
          /\ fetcher'[f].at = fetcher[f].at /\ fetcher'[f].from = fetcher[f].from
          /\ fetcher'[f].bad = fetcher[f].bad /\ fetcher'[f].lacked = fetcher[f].lacked
      <2>1. fetcher[f] \in FetcherStates BY DEF FetchInv, FetchTypeOK
      <2>2. fetcher'[f] = [fetcher[f] EXCEPT !.todo = fetcher[f].todo \ {t}, !.open = {t},
                                             !.spoilt = FALSE]
        BY <1>2
      <2> DEFINE left == fetcher[f].todo \ {t}
                 now == {t}
      <2>3. left \in SUBSET Tables /\ now \in SUBSET Tables
        BY <2>1 DEF FetcherStates
      <2>4. fetcher'[f] = [fetcher[f] EXCEPT !.todo = left, !.open = now, !.spoilt = FALSE]
        BY <2>2
      <2> HIDE DEF left, now
      <2>5. /\ fetcher'[f] \in FetcherStates /\ fetcher'[f].open = now /\ ~fetcher'[f].spoilt
            /\ fetcher'[f].at = fetcher[f].at /\ fetcher'[f].from = fetcher[f].from
            /\ fetcher'[f].bad = fetcher[f].bad /\ fetcher'[f].lacked = fetcher[f].lacked
        BY <2>1, <2>3, <2>4 DEF FetcherStates
      <2> QED BY <2>5 DEF now
    <1>4. ASSUME NEW g \in Fetchers \ {f}
          PROVE  /\ fetcher'[g] \in FetcherStates
                 /\ fetcher'[g].at = fetcher[g].at /\ fetcher'[g].from = fetcher[g].from
                 /\ fetcher'[g].bad = fetcher[g].bad /\ fetcher'[g].lacked = fetcher[g].lacked
                 /\ fetcher'[g].open = fetcher[g].open
                 /\ t \notin fetcher[g].open => fetcher'[g].spoilt = fetcher[g].spoilt
      <2>1. fetcher'[g] = [fetcher[g] EXCEPT !.spoilt = fetcher[g].spoilt \/ t \in fetcher[g].open]
        BY <1>4 DEF OpenTable
      <2>2. fetcher[g] \in FetcherStates
        BY <1>4 DEF FetchInv, FetchTypeOK
      <2> QED BY <2>1, <2>2 DEF FetcherStates
    <1>5. fetcher' \in [Fetchers -> FetcherStates]
      <2>1. \A g \in Fetchers : fetcher'[g] \in FetcherStates BY <1>3, <1>4
      <2>2. fetcher' = [g \in Fetchers |-> fetcher'[g]] BY DEF OpenTable
      <2> QED BY <2>1, <2>2
    <1>6. FetchTypeOK' BY <1>1, <1>5 DEF FetchInv, FetchTypeOK
    <1>7. LockOwned' BY <1>1, <1>3, <1>4 DEF FetchInv, LockOwned
    <1>8. WritesPinned' BY <1>3, <1>4 DEF FetchInv, WritesPinned
    <1>9. DownloadedOnce' BY <1>1, <1>3, <1>4 DEF FetchInv, DownloadedOnce
    <1>10. ASSUME NEW u \in Tables, table'[u] = "partial"
           PROVE  \E g \in Fetchers : u \in fetcher'[g].open /\ ~fetcher'[g].spoilt
      <2>1. CASE u = t BY <2>1, <1>3
      <2>2. CASE u # t
        <3>1. PICK g \in Fetchers : u \in fetcher[g].open /\ ~fetcher[g].spoilt
          BY <1>1, <1>10, <2>2 DEF FetchInv, FetchTypeOK, WrongTableHasWriter
        <3>2. g # f BY <1>1, <3>1
        <3>3. t \notin fetcher[g].open BY <2>2, <3>1 DEF FetchInv, WritesPinned
        <3> QED BY <1>4, <3>1, <3>2, <3>3
      <2> QED BY <2>1, <2>2
    <1>11. WrongTableHasWriter' BY <1>10 DEF WrongTableHasWriter
    <1>12. SomeMissing' => SomeMissing
      BY <1>1 DEF SomeMissing, FetchInv, FetchTypeOK
    <1>13. LackKnown' BY <1>3, <1>4, <1>12 DEF FetchInv, LackKnown, Lacks
    <1> QED BY <1>6, <1>7, <1>8, <1>9, <1>11, <1>13 DEF FetchInv

\* A writer that is done has made its table right, or another one has truncated it since.
LEMMA CloseTableKept ==
    ASSUME FetchInv, NEW f \in Fetchers, CloseTable(f)
    PROVE  FetchInv'
    <1>1. /\ fetcher[f].at = "write" /\ fetcher[f].from = Pinned
          /\ table' = [t \in Tables |-> IF t \in fetcher[f].open /\ ~fetcher[f].spoilt
                                        THEN "right" ELSE table[t]]
          /\ fetcher' = [fetcher EXCEPT ![f] = [fetcher[f] EXCEPT !.open = {}, !.spoilt = FALSE]]
          /\ UNCHANGED <<archive, flock, edition>>
      BY DEF CloseTable, FAt, FetchInv, WritesPinned
    <1>2. /\ fetcher'[f] \in FetcherStates /\ fetcher'[f].open = {}
          /\ fetcher'[f].at = fetcher[f].at /\ fetcher'[f].from = fetcher[f].from
          /\ fetcher'[f].bad = fetcher[f].bad /\ fetcher'[f].lacked = fetcher[f].lacked
      <2> DEFINE x == fetcher[f]
                 none == {}
                 r == [x EXCEPT !.open = none, !.spoilt = FALSE]
      <2>1. x \in FetcherStates BY DEF FetchInv, FetchTypeOK
      <2>2. none \in SUBSET Tables OBVIOUS
      <2>3. fetcher'[f] = r BY <1>1 DEF FetchInv, FetchTypeOK
      <2> HIDE DEF x, none
      <2>4. /\ r \in FetcherStates /\ r.open = none /\ r.at = x.at /\ r.from = x.from
            /\ r.bad = x.bad /\ r.lacked = x.lacked
        BY <2>1, <2>2 DEF FetcherStates
      <2> HIDE DEF r
      <2> QED BY <2>3, <2>4 DEF x, none
    <1>3. /\ fetcher' \in [Fetchers -> FetcherStates]
          /\ \A g \in Fetchers \ {f} : fetcher'[g] = fetcher[g]
      BY <1>1, <1>2 DEF FetchInv, FetchTypeOK
    <1>4. FetchTypeOK' BY <1>1, <1>3 DEF FetchInv, FetchTypeOK
    <1>5. LockOwned' BY <1>1, <1>2, <1>3 DEF FetchInv, LockOwned
    <1>6. WritesPinned' BY <1>2, <1>3 DEF FetchInv, WritesPinned
    <1>7. DownloadedOnce' BY <1>1, <1>2, <1>3 DEF FetchInv, DownloadedOnce
    <1>8. ASSUME NEW u \in Tables, table'[u] = "partial"
          PROVE  \E g \in Fetchers : u \in fetcher'[g].open /\ ~fetcher'[g].spoilt
      <2>1. table[u] = "partial" /\ (u \notin fetcher[f].open \/ fetcher[f].spoilt)
        BY <1>1, <1>8
      <2>2. PICK g \in Fetchers : u \in fetcher[g].open /\ ~fetcher[g].spoilt
        BY <2>1 DEF FetchInv, WrongTableHasWriter
      <2> QED BY <1>3, <2>1, <2>2
    <1>9. WrongTableHasWriter' BY <1>8 DEF WrongTableHasWriter
    <1>10. SomeMissing' => SomeMissing BY <1>1 DEF SomeMissing
    <1>11. LackKnown' BY <1>2, <1>3, <1>10 DEF FetchInv, LackKnown, Lacks
    <1> QED BY <1>4, <1>5, <1>6, <1>7, <1>9, <1>11 DEF FetchInv

\* A download goes on under the lock, to another of its steps or out of it.
LEMMA DownloadKept ==
    ASSUME FetchInv, NEW f \in Fetchers,
           Respond(f) \/ Receive(f) \/ BodyEnds(f) \/ Drop(f) \/ Retry(f)
    PROVE  FetchInv'
    <1>1. /\ fetcher[f].at \in Downloading /\ archive = Absent
          /\ fetcher[f].at \in Locked /\ fetcher[f].lacked
      BY DEF Respond, Receive, BodyEnds, Drop, Retry, FAt, FetchInv, DownloadedOnce,
             Downloading, Locked, LackKnown, Lacks
    <1> DEFINE Goes(r) == /\ r \in FetcherStates /\ r.at \in Downloading \cup {"undelivered"}
                          /\ r.open = fetcher[f].open /\ r.spoilt = fetcher[f].spoilt
                          /\ r.lacked = fetcher[f].lacked
    <1>2. PICK r : Goes(r) /\ fetcher' = [fetcher EXCEPT ![f] = r]
      <2> DEFINE x == fetcher[f]
      <2>1. x \in FetcherStates /\ x.at \in Downloading /\ Absent \in Seq(Editions)
        BY <1>1 DEF FetchInv, FetchTypeOK, Absent
      <2>2. CASE Respond(f)
        <3> DEFINE r1 == [x EXCEPT !.at = "body", !.part = Absent]
                   r2 == [x EXCEPT !.at = "body"]
                   r3 == [x EXCEPT !.at = "failed"]
        <3>1. Goes(r1) /\ Goes(r2) /\ Goes(r3)
          BY <2>1 DEF FetcherStates, Steps, Locked, Downloading
        <3>2. \/ fetcher' = [fetcher EXCEPT ![f] = r1]
              \/ fetcher' = [fetcher EXCEPT ![f] = r2]
              \/ fetcher' = [fetcher EXCEPT ![f] = r3]
          BY <2>2 DEF Respond, FGoto
        <3> HIDE DEF Goes, r1, r2, r3
        <3> QED BY <3>1, <3>2
      <2>3. CASE Receive(f)
        <3> DEFINE r1 == [x EXCEPT !.part = Append(x.part, edition)]
        <3>1. Append(x.part, edition) \in Seq(Editions)
          BY <2>1 DEF FetchInv, FetchTypeOK, FetcherStates
        <3>2. Goes(r1)
          <4> DEFINE q == Append(x.part, edition)
          <4> HIDE DEF q
          <4> QED BY <2>1, <3>1 DEF FetcherStates, q
        <3>3. fetcher' = [fetcher EXCEPT ![f] = r1]
          BY <2>3 DEF Receive
        <3> HIDE DEF Goes, r1
        <3> QED BY <3>2, <3>3
      <2>4. CASE BodyEnds(f) \/ Drop(f)
        <3> DEFINE r1 == [x EXCEPT !.at = "check"]
                   r2 == [x EXCEPT !.at = "failed"]
        <3>1. Goes(r1) /\ Goes(r2)
          BY <2>1 DEF FetcherStates, Steps, Locked, Downloading
        <3>2. fetcher' = [fetcher EXCEPT ![f] = r1] \/ fetcher' = [fetcher EXCEPT ![f] = r2]
          BY <2>4 DEF BodyEnds, Drop, FGoto
        <3> HIDE DEF Goes, r1, r2
        <3> QED BY <3>1, <3>2
      <2>5. CASE Retry(f)
        <3> DEFINE n == x.tries + 1
                   r1 == [x EXCEPT !.at = "request", !.tries = n]
                   r2 == [x EXCEPT !.at = "undelivered", !.part = Absent]
        <3>1. n \in Nat BY <2>1 DEF FetcherStates
        <3>2. fetcher' = [fetcher EXCEPT ![f] = r1] \/ fetcher' = [fetcher EXCEPT ![f] = r2]
          <4>1. CASE n < MaxTries BY <2>5, <4>1 DEF Retry
          <4>2. CASE ~(n < MaxTries) BY <2>5, <4>2 DEF Retry
          <4> QED BY <4>1, <4>2
        <3> HIDE DEF n
        <3>3. Goes(r1)
          BY <2>1, <3>1 DEF FetcherStates, Steps, Locked, Downloading
        <3>4. Goes(r2)
          BY <2>1 DEF FetcherStates, Steps, Ends
        <3> HIDE DEF Goes, r1, r2
        <3> QED BY <3>2, <3>3, <3>4
      <2> HIDE DEF Goes
      <2> QED BY <2>2, <2>3, <2>4, <2>5
    <1>3. (LeaveLocked(f) \/ UNCHANGED flock) /\ UNCHANGED <<archive, table, edition>>
      BY DEF Respond, Receive, BodyEnds, Drop, Retry
    <1>4. Lacks(r) /\ r.at # "write" /\ (r.at \in Locked => r.at \in Downloading)
      BY <1>1, <1>2 DEF Lacks, Locked, Downloading
    <1> QED BY <1>1, <1>2, <1>3, <1>4, StepOfOne DEF Downloading

\* A process that has opened the archive, and one that verifies the tables again.
LEMMA OpensArchive ==
    ASSUME NEW x \in FetcherStates, NEW now \in {Absent, Pinned}
    PROVE  LET q == [x EXCEPT !.at = "write", !.todo = Tables, !.from = now]
           IN  /\ q \in FetcherStates /\ q.at = "write" /\ q.from = now
               /\ q.open = x.open /\ q.spoilt = x.spoilt /\ q.lacked = x.lacked
    <1>1. "write" \in Steps BY DEF Steps
    <1> QED BY <1>1 DEF FetcherStates

LEMMA StartsAgain ==
    ASSUME NEW x \in FetcherStates
    PROVE  LET q == [x EXCEPT !.at = "verify", !.again = TRUE, !.tries = 0,
                              !.from = Absent, !.lacked = FALSE]
           IN  /\ q \in FetcherStates /\ q.at = "verify"
               /\ q.open = x.open /\ q.spoilt = x.spoilt
    <1>1. "verify" \in Steps BY DEF Steps
    <1> QED BY <1>1 DEF FetcherStates

\* Every step of a process keeps the invariant, whatever the others are doing.
LEMMA FetchKept == FetchInv /\ [FetchNext]_fetchVars => FetchInv'
    <1> SUFFICES ASSUME FetchInv, [FetchNext]_fetchVars PROVE FetchInv'
      OBVIOUS
    <1> USE DEF Steps, Locked, Downloading, Ends
    <1>1. CASE UNCHANGED fetchVars \/ Republish
      BY <1>1 DEF fetchVars, Republish, FetchInv, FetchTypeOK, LockOwned, WritesPinned,
                  DownloadedOnce, WrongTableHasWriter, LackKnown, Lacks, SomeMissing, Editions
    <1>2. ASSUME NEW f \in Fetchers, Hash(f) PROVE FetchInv'
      <2>1. fetcher[f].at = "hash" /\ fetcher[f].lacked /\ LeaveLocked(f)
        BY <1>2 DEF Hash, FAt, FetchInv, LackKnown, Lacks
      <2>2. ArchiveIsRight \/ archive = Absent
        BY DEF FetchInv, DownloadedOnce, ArchiveIsRight
      <2> QED BY <1>2, <2>1, <2>2, GotoKept DEF Hash, ToExtract
    <1>3. ASSUME NEW f \in Fetchers, OpenArchive(f) PROVE FetchInv'
      <2>1. CASE archive = Absent BY <1>3, <2>1, GotoKept DEF OpenArchive
      <2>2. CASE archive # Absent
        <3> DEFINE r == [fetcher[f] EXCEPT !.at = "write", !.todo = Tables, !.from = archive]
        <3>1. archive = Pinned BY <2>2 DEF FetchInv, DownloadedOnce
        <3>2. /\ fetcher' = [fetcher EXCEPT ![f] = r] /\ UNCHANGED <<archive, table, flock, edition>>
          BY <1>3, <2>2 DEF OpenArchive
        <3>3. /\ r \in FetcherStates /\ r.at = "write" /\ r.from = Pinned
              /\ r.open = fetcher[f].open /\ r.spoilt = fetcher[f].spoilt
              /\ r.lacked = fetcher[f].lacked
          <4>1. fetcher[f] \in FetcherStates BY <1>3 DEF FetchInv, FetchTypeOK
          <4>2. archive \in {Absent, Pinned} BY <3>1
          <4> QED BY <3>1, <4>1, <4>2, OpensArchive
        <3> HIDE DEF r
        <3>4. Lacks(r) BY <1>3, <3>3 DEF OpenArchive, FAt, FetchInv, LackKnown, Lacks
        <3> QED BY <3>2, <3>3, <3>4, StepOfOne
      <2> QED BY <2>1, <2>2
    <1>4. ASSUME NEW f \in Fetchers, FetchAgain(f) PROVE FetchInv'
      <2> DEFINE r == [fetcher[f] EXCEPT !.at = "verify", !.again = TRUE, !.tries = 0,
                                         !.from = Absent, !.lacked = FALSE]
      <2>1. /\ fetcher' = [fetcher EXCEPT ![f] = r] /\ UNCHANGED <<archive, table, flock, edition>>
        BY <1>4 DEF FetchAgain
      <2>2. /\ r \in FetcherStates /\ r.at = "verify"
            /\ r.open = fetcher[f].open /\ r.spoilt = fetcher[f].spoilt
        <3>1. fetcher[f] \in FetcherStates BY <1>4 DEF FetchInv, FetchTypeOK
        <3> QED BY <3>1, StartsAgain
      <2> HIDE DEF r
      <2>3. Lacks(r) BY <2>2 DEF Lacks
      <2> QED BY <2>1, <2>2, <2>3, StepOfOne
    <1>5. ASSUME NEW f \in Fetchers, FetcherDies(f) PROVE FetchInv'
      BY <1>5, GotoKept DEF FetcherDies
    <1> QED BY <1>1, <1>2, <1>3, <1>4, <1>5, BeginKept, LookKept, AcquireKept, InstallKept,
               DownloadKept, OpenTableKept, CloseTableKept
           DEF FetchNext, FetchStep

\* The invariant of the archive holds from the start.
LEMMA FetchHolds == FetchSpec => []FetchInv
    <1>1. FetchInit => FetchInv
      <2>1. Absent \in Seq(Editions) BY DEF Absent
      <2> QED BY <2>1
             DEF FetchInit, Idle, FetchInv, FetchTypeOK, LockOwned, WritesPinned, DownloadedOnce,
                 WrongTableHasWriter, LackKnown, Lacks, FetcherStates, Editions, Steps, Locked,
                 Downloading
    <1> QED BY <1>1, FetchKept, PTL DEF FetchSpec

-----------------------------------------------------------------------------

\* A download runs under the lock and while no archive is in place, and the archive
\* installed is the pinned one (DownloadedOnce; fetch_data, download).
THEOREM DownloadsAreAlone == FetchSpec => []DownloadedOnce
    <1>1. FetchInv => DownloadedOnce
      BY DEF FetchInv
    <1> QED BY <1>1, FetchHolds, PTL

\* A table with a wrong content has a writer, or one that died (WrongTableHasWriter;
\* _extract_tar_zst).
THEOREM WrongTablesHaveWriters == FetchSpec => []WrongTableHasWriter
    <1>1. FetchInv => WrongTableHasWriter
      BY DEF FetchInv
    <1> QED BY <1>1, FetchHolds, PTL

\* A process extracts only if some table has been missing since it took the lock
\* (ExtractionIsNeeded; fetch_data).
THEOREM ExtractionsAreNeeded == FetchSpec => []ExtractionIsNeeded
    <1>1. FetchInv => ExtractionIsNeeded
      BY DEF FetchInv, LackKnown, Lacks, ExtractionIsNeeded, Extracting
    <1> QED BY <1>1, FetchHolds, PTL

-----------------------------------------------------------------------------
(* The DataFrame cache.                                                    *)

CacheTypeOK ==
    /\ prep \in [Preparers -> [at : {"new", "stat", "convert", "prune", "served", "failed"},
                               todo : SUBSET Names, files : SUBSET Names,
                               failed : SUBSET Names]]
    /\ parquet \in [Names -> Keys \cup {NoFile}]
    /\ manifest \in [key : Keys \cup {NoFile}, files : SUBSET Names, failed : SUBSET Names,
                     whole : BOOLEAN]

\* What a call relies on, unless another key has written.
Reliable ==
    \A p \in Preparers : p \notin touched =>
        /\ PAt(p, "new") => prep[p].files = {}
        /\ PAt(p, "served") \/ prep[p].failed = {}
        /\ PAt(p, "stat") => manifest.key = KeyOf[p] \/ manifest = NoManifest
        /\ Genuine(prep[p].files \ prep[p].failed, KeyOf[p])

ManifestGenuine ==
    NoFile \notin touched => Genuine(manifest.files \ manifest.failed, manifest.key)

CacheInv == CacheTypeOK /\ Reliable /\ ManifestGenuine

\* Files are looked for in a call's own names.
LEMMA NamesOfCalls ==
    ASSUME NEW p \in Preparers
    PROVE  KeyOf[p] \in Keys /\ FilesOf[KeyOf[p]] \subseteq Names /\ p # NoFile
    BY CacheAssumption DEF Names

\* Every step of a call keeps the types of the cache.
LEMMA CacheTypesKept == CacheTypeOK /\ [CacheNext]_cacheVars => CacheTypeOK'
    <1> SUFFICES ASSUME CacheTypeOK, [CacheNext]_cacheVars PROVE CacheTypeOK'
      OBVIOUS
    <1> USE DEF CacheTypeOK
    <1>0. CASE UNCHANGED cacheVars BY <1>0 DEF cacheVars
    <1>1. CASE Cleared
      <2>1. NoManifest \in [key : Keys \cup {NoFile}, files : SUBSET Names,
                            failed : SUBSET Names, whole : BOOLEAN]
        BY DEF NoManifest
      <2>2. parquet' \in [Names -> Keys \cup {NoFile}] BY <1>1 DEF Cleared
      <2>3. manifest' \in {manifest, NoManifest} /\ UNCHANGED prep BY <1>1 DEF Cleared
      <2> QED BY <2>1, <2>2, <2>3
    <1>2. ASSUME NEW p \in Preparers, PreparerStep(p) PROVE CacheTypeOK'
      <2> USE NamesOfCalls
      <2> DEFINE Calls == [at : {"new", "stat", "convert", "prune", "served", "failed"},
                           todo : SUBSET Names, files : SUBSET Names, failed : SUBSET Names]
      <2>0. /\ ToConvert(p) \in Calls
            /\ [Unprepared EXCEPT !.at = "stat", !.todo = manifest.files] \in Calls
            /\ [prep[p] EXCEPT !.at = "served", !.files = manifest.files,
                               !.failed = manifest.failed] \in Calls
            /\ \A f \in prep[p].todo : [prep[p] EXCEPT !.todo = @ \ {f}] \in Calls
        <3> DEFINE call == prep[p]
                   listed == manifest.files
                   unmade == manifest.failed
                   none == {}
        <3>1. call \in Calls /\ listed \in SUBSET Names /\ unmade \in SUBSET Names
          OBVIOUS
        <3>2. none \in SUBSET Names /\ FilesOf[KeyOf[p]] \in SUBSET Names OBVIOUS
        <3>3. ToConvert(p) \in Calls BY <3>2 DEF ToConvert
        <3> HIDE DEF call, listed, unmade, none
        <3>4. Unprepared \in Calls BY <3>2 DEF Unprepared, none
        <3>5. [Unprepared EXCEPT !.at = "stat", !.todo = listed] \in Calls
          BY <3>1, <3>4
        <3>6. [call EXCEPT !.at = "served", !.files = listed, !.failed = unmade] \in Calls
          BY <3>1
        <3>7. ASSUME NEW f \in call.todo PROVE [call EXCEPT !.todo = @ \ {f}] \in Calls
          <4> DEFINE left == call.todo \ {f}
          <4>1. left \in SUBSET Names BY <3>1
          <4> HIDE DEF left
          <4>2. [call EXCEPT !.todo = left] \in Calls BY <3>1, <4>1
          <4> QED BY <4>2 DEF left
        <3> QED BY <3>3, <3>5, <3>6, <3>7 DEF call, listed, unmade
      <2> HIDE DEF Calls
      <2>1. CASE Look(p)
        <3>1. PICK r \in Calls : prep' = [prep EXCEPT ![p] = r] BY <2>0, <2>1 DEF Look
        <3>2. prep' \in [Preparers -> Calls] BY <3>1 DEF Calls
        <3>3. UNCHANGED <<parquet, manifest>> BY <2>1 DEF Look
        <3> QED BY <3>2, <3>3 DEF Calls
      <2>2. CASE Stat(p)
        <3>1. PICK r \in Calls : prep' = [prep EXCEPT ![p] = r] BY <2>0, <2>2 DEF Stat
        <3> QED BY <2>2, <3>1 DEF Stat, Calls
      <2>3. CASE Reread(p)
        <3>1. PICK r \in Calls : prep' = [prep EXCEPT ![p] = r] BY <2>0, <2>3 DEF Reread
        <3> QED BY <2>3, <3>1 DEF Reread, Calls
      <2>4. CASE Convert(p)
        <3>1. PICK f \in prep[p].todo :
                  /\ parquet' = [parquet EXCEPT ![f] = KeyOf[p]]
                  /\ prep' = [prep EXCEPT ![p].todo = @ \ {f}, ![p].files = @ \cup {f}]
          BY <2>4 DEF Convert
        <3>2. prep[p] \in Calls /\ f \in Names BY <3>1 DEF Calls
        <3> DEFINE r == [prep[p] EXCEPT !.todo = prep[p].todo \ {f},
                                        !.files = prep[p].files \cup {f}]
        <3>3. r \in Calls
          <4> DEFINE left == prep[p].todo \ {f}
                     done == prep[p].files \cup {f}
          <4>1. left \in SUBSET Names /\ done \in SUBSET Names BY <3>2 DEF Calls
          <4> HIDE DEF left, done
          <4>2. [prep[p] EXCEPT !.todo = left, !.files = done] \in Calls
            BY <3>2, <4>1 DEF Calls
          <4> QED BY <4>2 DEF left, done
        <3>4. prep' = [prep EXCEPT ![p] = r] BY <3>1
        <3> HIDE DEF r
        <3>5. prep' \in [Preparers -> Calls] BY <3>3, <3>4 DEF Calls
        <3>6. parquet' \in [Names -> Keys \cup {NoFile}] BY <3>1, <3>2
        <3> QED BY <2>4, <3>5, <3>6 DEF Convert, Calls
      <2>5. CASE ConvertFails(p) BY <2>5 DEF ConvertFails
      <2>6. CASE SaveManifest(p)
        <3>1. Listed(p) \in SUBSET Names BY DEF Listed
        <3> QED BY <2>6, <3>1 DEF SaveManifest, Entries
      <2>7. CASE SaveFails(p) BY <2>7 DEF SaveFails
      <2>8. CASE Prune(p) BY <2>8 DEF Prune
      <2>9. CASE PreparerDies(p) BY <2>9 DEF PreparerDies
      <2> QED BY <1>2, <2>1, <2>2, <2>3, <2>4, <2>5, <2>6, <2>7, <2>8, <2>9 DEF PreparerStep
    <1> QED BY <1>0, <1>1, <1>2 DEF CacheNext

\* Every step of a call keeps what was converted and what is listed genuine.
LEMMA CacheKept == CacheInv /\ [CacheNext]_cacheVars => CacheInv'
    <1> SUFFICES ASSUME CacheInv, [CacheNext]_cacheVars PROVE Reliable' /\ ManifestGenuine'
      BY CacheTypesKept DEF CacheInv
    <1> USE DEF Genuine, PAt
    <1>1. CASE UNCHANGED cacheVars \/ Cleared
      BY <1>1, NamesOfCalls
         DEF cacheVars, Cleared, NoManifest, CacheInv, CacheTypeOK, Reliable, ManifestGenuine
    <1>2. ASSUME NEW p \in Preparers, PreparerStep(p) PROVE Reliable' /\ ManifestGenuine'
      <2> USE NamesOfCalls DEF CacheInv, CacheTypeOK
      <2>1. CASE Look(p)
        BY <2>1 DEF Look, Matches, ToConvert, Unprepared, Reliable, ManifestGenuine
      <2>2. CASE Stat(p)
        BY <2>2 DEF Stat, ToConvert, Reliable, ManifestGenuine
      <2>3. CASE Reread(p)
        BY <2>3 DEF Reread, ToConvert, Reliable, ManifestGenuine, NoManifest
      <2>4. CASE Convert(p)
        BY <2>4 DEF Convert, Others, Reliable, ManifestGenuine
      <2>5. CASE ConvertFails(p) \/ SaveFails(p) \/ PreparerDies(p)
        BY <2>5 DEF ConvertFails, SaveFails, PreparerDies, Reliable, ManifestGenuine
      <2>6. CASE SaveManifest(p)
        BY <2>6 DEF SaveManifest, Entries, Listed, Others, Reliable, ManifestGenuine
      <2>7. CASE Prune(p)
        BY <2>7 DEF Prune, Reliable, ManifestGenuine
      <2> QED BY <1>2, <2>1, <2>2, <2>3, <2>4, <2>5, <2>6, <2>7 DEF PreparerStep
    <1> QED BY <1>1, <1>2 DEF CacheNext

\* The files a manifest lists as converted, and those of them returned to a call, are of its
\* key, except where a call with another key has written since (CacheIsGenuine;
\* prepare_benchmark_data).
THEOREM FilesAreGenuine == CacheSpec => []CacheIsGenuine
    <1>1. CacheInit => CacheInv
      BY DEF CacheInit, CacheInv, CacheTypeOK, Reliable, ManifestGenuine, Genuine, PAt,
             Unprepared, NoManifest
    <1>2. CacheInv => CacheIsGenuine
      BY DEF CacheInv, Reliable, ManifestGenuine, CacheIsGenuine, Undisturbed
    <1>3. CacheInv /\ [CacheNext]_cacheVars => CacheInv' BY CacheKept
    <1> QED BY <1>1, <1>2, <1>3, PTL DEF CacheSpec

-----------------------------------------------------------------------------
(* The lease of a durable job (LeaseClock).  That a lease is not taken over *)
(* early rests on what the watching workers remember: in a first attempt    *)
(* the generation only grows, so that a row which looks unchanged is.       *)

Leases == [state : {"queued", "running", "failed", "completed", "unknown"},
           owner : Workers \cup {NoWorker}, fenced : BOOLEAN,
           generation : Nat, attempts : 0..MaxAttempts]

LeaseTyped ==
    /\ lease \in Leases /\ LeaseTypeOK
    /\ lease.state = "queued" => lease.attempts < MaxAttempts /\ ~lease.fenced

Observations == [owner : Workers \cup {NoWorker}, generation : Nat,
                 age : 0..LeaseLength, late : 0..LeaseLength]
Scans == [on : BOOLEAN, ripe : BOOLEAN, delay : 0..LeaseLength]

\* What the lease has been silent, and w was late in reading it, make a lease.
LongSilent(w) == silence + seen[w].late >= LeaseLength

\* What w remembers or has picked is no newer than the lease; it has not watched this state
\* of the lease for longer than the lease has been silent, but for what it was late; and
\* if it found it old enough when it looked at the clock, or picked it, it is.
Watched(w) ==
    /\ seen[w].generation <= lease.generation
    /\ picked[w].generation <= lease.generation
    /\ ~Changed(w) => seen[w].age <= silence + seen[w].late
    /\ scan[w].ripe /\ ~Changed(w) => LongSilent(w)
    /\ picked[w] = Identity => ~Changed(w) /\ LongSilent(w)

Untouched(w) == seen[w].generation = 0 /\ seen[w].owner = NoWorker /\ picked[w] = Nothing

\* Nobody has seen a row that no attempt was made of, and in its first attempt nobody
\* remembers a state of it that could come again: until fail_attempt resets it, the
\* generation only grows.
FirstLeaseWatched ==
    /\ lease.attempts = 0 => lease.state = "queued" /\ \A w \in Workers : Untouched(w)
    /\ lease.attempts = 1 /\ lease.state = "running" =>
           lease.owner \in Workers /\ \A w \in Workers : Watched(w)

\* The lease and the entries of the tables, one worker at a time.
LEMMA LeaseEntries ==
    ASSUME LeaseTyped, NEW w \in Workers
    PROVE  /\ seen[w] \in Observations /\ scan[w] \in Scans /\ picked[w] \in Identities
           /\ seen[w].generation \in Nat /\ seen[w].age \in 0..LeaseLength
           /\ seen[w].late \in 0..LeaseLength /\ scan[w].delay \in 0..LeaseLength
           /\ picked[w].generation \in Nat
BY DEF LeaseTyped, LeaseTypeOK, Identities, Observations, Scans

\* Time is counted up to the length of a lease.
LEMMA OlderIsTicks ==
    ASSUME NEW t \in 0..LeaseLength
    PROVE  /\ Older(t) \in 0..LeaseLength /\ t <= Older(t)
           /\ Older(LeaseLength) = LeaseLength
           /\ \A u, d \in 0..LeaseLength : t <= u + d => Older(t) <= Older(u) + d
BY LeaseAssumption DEF Older

\* A lease that ends keeps the types.
LEMMA KeepsTypes ==
    ASSUME LeaseTyped,
           \/ /\ lease'.state = IF lease.attempts < MaxAttempts THEN "queued" ELSE "failed"
              /\ ~lease.fenced
           \/ lease'.state \in {"completed", "unknown"},
           lease'.owner = NoWorker, lease'.fenced = lease.fenced,
           lease'.generation \in {0, lease.generation}, lease'.attempts = lease.attempts,
           lease' = [state |-> lease'.state, owner |-> lease'.owner, fenced |-> lease'.fenced,
                     generation |-> lease'.generation, attempts |-> lease'.attempts],
           silence' = 0, UNCHANGED <<seen, scan, picked, dead>>
    PROVE  LeaseTyped'
<1>1. /\ lease.attempts \in 0..MaxAttempts /\ lease.generation \in Nat
      /\ lease.fenced \in BOOLEAN
  BY DEF LeaseTyped, LeaseTypeOK
<1>2. lease'.state \in {"queued", "failed", "completed", "unknown"}
  OBVIOUS
<1>3. lease'.state = "queued" => lease.attempts < MaxAttempts /\ ~lease'.fenced
  OBVIOUS
<1>4. lease' \in Leases
  BY <1>1, <1>2 DEF Leases
<1>5. 0 \in 0..LeaseLength
  BY LeaseAssumption
<1> QED BY <1>1, <1>2, <1>3, <1>4, <1>5 DEF LeaseTyped, LeaseTypeOK

\* The types are inductive, with the attempts a queued row has left.
LEMMA LeaseTypedStep ==
    ASSUME LeaseTyped, [LeaseNext]_leaseVars
    PROVE  LeaseTyped'
<1> USE LeaseAssumption
<1>1. CASE UNCHANGED leaseVars
  BY <1>1 DEF leaseVars, LeaseTyped, LeaseTypeOK
<1>2. CASE Tick
  <2> DEFINE Aged(w) == [seen[w] EXCEPT !.age = Older(@)]
             Delayed(w) == IF scan[w].on THEN [scan[w] EXCEPT !.delay = Older(@)] ELSE scan[w]
  <2>1. ASSUME NEW w \in Workers PROVE Aged(w) \in Observations /\ Delayed(w) \in Scans
    BY LeaseEntries, OlderIsTicks DEF Observations, Scans
  <2>2. /\ seen' = [w \in Workers |-> Aged(w)] /\ scan' = [w \in Workers |-> Delayed(w)]
        /\ UNCHANGED <<lease, picked, dead>>
    BY <1>2 DEF Tick
  <2> HIDE DEF Aged, Delayed
  <2>3. silence' \in 0..LeaseLength
    BY <1>2, OlderIsTicks DEF Tick, LeaseTyped, LeaseTypeOK
  <2>4. seen' \in [Workers -> Observations] /\ scan' \in [Workers -> Scans]
    BY <2>1, <2>2
  <2> QED BY <2>2, <2>3, <2>4 DEF LeaseTyped, LeaseTypeOK, Observations, Scans
<1>3. ASSUME NEW w \in Workers, Claim(w) PROVE LeaseTyped'
  <2>1. /\ lease'.state = "running" /\ lease'.owner = w /\ lease'.fenced = lease.fenced
        /\ lease'.generation = lease.generation + 1 /\ lease'.attempts = lease.attempts + 1
        /\ lease' = [state |-> lease'.state, owner |-> lease'.owner, fenced |-> lease'.fenced,
                     generation |-> lease'.generation, attempts |-> lease'.attempts]
    BY <1>3 DEF Claim, LeaseTyped, Leases
  <2>2. lease.attempts < MaxAttempts /\ lease.attempts \in 0..MaxAttempts
    BY <1>3 DEF Claim, LeaseTyped, Leases
  <2>3. lease' \in Leases
    BY <2>1, <2>2 DEF LeaseTyped, Leases
  <2> QED BY <1>3, <2>1, <2>3 DEF Claim, LeaseTyped, LeaseTypeOK, Leases
<1>4. ASSUME NEW w \in Workers, RenewLease(w) PROVE LeaseTyped'
  BY <1>4 DEF RenewLease, Holds, LeaseTyped, LeaseTypeOK, Leases
<1>5. ASSUME NEW w \in Workers, Fail(w) PROVE LeaseTyped'
  <2>1. /\ lease'.state = IF lease.attempts < MaxAttempts THEN "queued" ELSE "failed"
        /\ lease'.owner = NoWorker /\ lease'.fenced = lease.fenced
        /\ lease'.generation = 0 /\ lease'.attempts = lease.attempts
        /\ lease' = [state |-> lease'.state, owner |-> lease'.owner, fenced |-> lease'.fenced,
                     generation |-> lease'.generation, attempts |-> lease'.attempts]
    BY <1>5 DEF Fail, LeaseTyped, Leases
  <2>2. /\ ~lease.fenced /\ silence' = 0 /\ UNCHANGED <<seen, scan, picked, dead>>
    BY <1>5 DEF Fail
  <2> QED BY <2>1, <2>2, KeepsTypes
<1>6. ASSUME NEW w \in Workers, Complete(w) PROVE LeaseTyped'
  <2>1. /\ lease'.state = "completed" /\ lease'.owner = NoWorker
        /\ lease'.fenced = lease.fenced
        /\ lease'.generation = lease.generation /\ lease'.attempts = lease.attempts
        /\ lease' = [state |-> lease'.state, owner |-> lease'.owner, fenced |-> lease'.fenced,
                     generation |-> lease'.generation, attempts |-> lease'.attempts]
    BY <1>6 DEF Complete, LeaseTyped, Leases
  <2>2. silence' = 0 /\ UNCHANGED <<seen, scan, picked, dead>>
    BY <1>6 DEF Complete
  <2> QED BY <2>1, <2>2, KeepsTypes
<1>7. ASSUME NEW w \in Workers, Crash(w) PROVE LeaseTyped'
  BY <1>7 DEF Crash, LeaseTyped, LeaseTypeOK, Unseen, NoScan, Nothing, Identities
<1>8. ASSUME NEW w \in Workers, StartScan(w) PROVE LeaseTyped'
  <2>1. PICK b \in BOOLEAN : scan' = [scan EXCEPT ![w] = [on |-> TRUE, ripe |-> b, delay |-> 0]]
    <3>1. (seen[w].age >= LeaseLength) \in BOOLEAN OBVIOUS
    <3> QED BY <1>8, <3>1 DEF StartScan
  <2>2. [on |-> TRUE, ripe |-> b, delay |-> 0] \in [on : BOOLEAN, ripe : BOOLEAN, delay : 0..LeaseLength]
    OBVIOUS
  <2> QED BY <1>8, <2>1, <2>2 DEF StartScan, LeaseTyped, LeaseTypeOK
<1>11. ASSUME NEW w \in Workers, ReadRows(w) PROVE LeaseTyped'
  <2>1. /\ scan' \in [Workers -> [on : BOOLEAN, ripe : BOOLEAN, delay : 0..LeaseLength]]
        /\ UNCHANGED <<lease, silence, dead>>
    BY <1>11 DEF ReadRows, NoScan, LeaseTyped, LeaseTypeOK
  <2>2. Unseen \in Observations /\ Observed(w) \in Observations /\ Identity \in Identities
    BY LeaseEntries
       DEF LeaseTyped, LeaseTypeOK, Unseen, Observed, Observations, Identity, Identities
  <2> DEFINE seenOrNot == {seen, [seen EXCEPT ![w] = Unseen], [seen EXCEPT ![w] = Observed(w)]}
  <2>3. seen' \in seenOrNot /\ picked' \in {picked, [picked EXCEPT ![w] = Identity]}
    BY <1>11 DEF ReadRows
  <2> HIDE DEF seenOrNot
  <2>4. seen' \in [Workers -> Observations]
    BY <2>2, <2>3 DEF seenOrNot, LeaseTyped, LeaseTypeOK, Observations
  <2>5. picked' \in [Workers -> Identities]
    BY <2>2, <2>3 DEF LeaseTyped, LeaseTypeOK
  <2> QED BY <2>1, <2>4, <2>5 DEF LeaseTyped, LeaseTypeOK, Observations
<1>9. ASSUME NEW w \in Workers, TakeOver(w) PROVE LeaseTyped'
  <2>1. picked' \in [Workers -> Identities] /\ dead' = dead /\ scan' = scan
    BY <1>9 DEF TakeOver, LeaseTyped, LeaseTypeOK, Nothing, Identities
  <2>2. CASE StillPicked(w)
    <3>1. lease' \in Leases /\ lease'.state = "running"
      <4>1. /\ lease'.state = "running" /\ lease'.owner = w /\ lease'.fenced
            /\ lease'.generation = lease.generation + 1 /\ lease'.attempts = lease.attempts
            /\ lease' = [state |-> lease'.state, owner |-> lease'.owner, fenced |-> TRUE,
                         generation |-> lease'.generation, attempts |-> lease'.attempts]
        BY <1>9, <2>2 DEF TakeOver, StillPicked, LeaseTyped, Leases
      <4>2. lease'.generation \in Nat /\ lease'.attempts \in 0..MaxAttempts
        BY <4>1 DEF LeaseTyped, Leases
      <4>3. [state |-> "running", owner |-> w, fenced |-> TRUE,
             generation |-> lease'.generation, attempts |-> lease'.attempts] \in Leases
        BY <4>2 DEF Leases
      <4> QED BY <4>1, <4>3
    <3>2. silence' = 0 /\ seen' = [seen EXCEPT ![w] = Unseen]
      BY <1>9, <2>2 DEF TakeOver
    <3> QED BY <2>1, <3>1, <3>2 DEF LeaseTyped, LeaseTypeOK, Unseen, Leases
  <2>3. CASE ~StillPicked(w)
    BY <1>9, <2>1, <2>3 DEF TakeOver, LeaseTyped, LeaseTypeOK
  <2> QED BY <2>2, <2>3
<1>10. ASSUME NEW w \in Workers, Recover(w) PROVE LeaseTyped'
  <2>1. /\ lease'.state = "unknown" /\ lease'.owner = NoWorker
        /\ lease'.fenced = lease.fenced
        /\ lease'.generation = lease.generation /\ lease'.attempts = lease.attempts
        /\ lease' = [state |-> lease'.state, owner |-> lease'.owner, fenced |-> lease'.fenced,
                     generation |-> lease'.generation, attempts |-> lease'.attempts]
    BY <1>10 DEF Recover, LeaseTyped, Leases
  <2>2. silence' = 0 /\ UNCHANGED <<seen, scan, picked, dead>>
    BY <1>10 DEF Recover
  <2> QED BY <2>1, <2>2, KeepsTypes
<1> QED BY <1>1, <1>2, <1>3, <1>4, <1>5, <1>6, <1>7, <1>8, <1>9, <1>10, <1>11 DEF LeaseNext

\* A worker that keeps what it remembers of an unchanged lease, or forgets all of it, and
\* begins no scan, watches on: the lease is not less silent.
LEMMA StillWatched ==
    ASSUME LeaseTyped, LeaseTyped', lease' = lease, lease.owner \in Workers,
           silence <= silence', NEW w \in Workers, Watched(w),
           \/ /\ seen'[w] = seen[w] /\ scan'[w] \in {scan[w], NoScan}
              /\ picked'[w] \in {picked[w], Nothing}
           \/ seen'[w] = Unseen /\ picked'[w] = Nothing
    PROVE  Watched(w)'
<1>1. Identity' = Identity /\ lease.generation \in Nat /\ Nothing # Identity
  BY LeaseAssumption DEF LeaseTyped, LeaseTypeOK, Identity, Nothing
<1>2. silence \in 0..LeaseLength /\ silence' \in 0..LeaseLength
  BY DEF LeaseTyped, LeaseTypeOK
<1>3. CASE /\ seen'[w] = seen[w] /\ scan'[w] \in {scan[w], NoScan}
           /\ picked'[w] \in {picked[w], Nothing}
  <2>1. Changed(w)' <=> Changed(w) BY <1>1, <1>3 DEF Changed
  <2>2. LongSilent(w) => LongSilent(w)'
    <3>1. seen[w].late \in Int /\ silence \in Int /\ silence' \in Int /\ LeaseLength \in Int
      BY <1>2, LeaseEntries, LeaseAssumption
    <3>2. seen'[w].late = seen[w].late BY <1>3
    <3> QED BY <3>1, <3>2 DEF LongSilent
  <2>3. scan'[w].ripe => scan[w].ripe BY <1>3 DEF NoScan
  <2>4. picked'[w].generation <= lease.generation BY <1>1, <1>3 DEF Watched, Nothing
  <2>5. picked'[w] = Identity => picked[w] = Identity BY <1>1, <1>3
  <2>6. ~Changed(w)' => seen'[w].age <= silence' + seen'[w].late
    <3>1. seen[w].age \in Int /\ seen[w].late \in Int BY LeaseEntries
    <3> QED BY <1>2, <1>3, <2>1, <3>1 DEF Watched
  <2> QED BY <1>1, <1>3, <2>1, <2>2, <2>3, <2>4, <2>5, <2>6 DEF Watched
<1>4. CASE seen'[w] = Unseen /\ picked'[w] = Nothing
  <2>1. Changed(w)'
    BY <1>1, <1>4, LeaseAssumption DEF Changed, Unseen, Identity
  <2> QED BY <1>1, <1>4, <2>1 DEF Watched, Unseen, Nothing
<1> QED BY <1>3, <1>4

\* A lease renewed or taken over has a generation nobody has seen.
LEMMA NewGeneration ==
    ASSUME LeaseTyped, LeaseTyped', FirstLeaseWatched, lease.state = "running",
           lease'.attempts = lease.attempts, lease'.owner \in Workers,
           lease'.generation = lease.generation + 1,
           \A w \in Workers : /\ seen'[w] = seen[w] \/ seen'[w] = Unseen
                              /\ picked'[w] = picked[w] \/ picked'[w] = Nothing
    PROVE  FirstLeaseWatched'
<1>1. lease.attempts # 0 /\ lease'.attempts # 0
  BY DEF FirstLeaseWatched
<1>2. ASSUME lease'.attempts = 1, NEW w \in Workers PROVE Watched(w)'
  <2>1. Watched(w) /\ lease.generation \in Nat
    BY <1>2 DEF FirstLeaseWatched, LeaseTyped, LeaseTypeOK
  <2>2. seen[w].generation \in Nat /\ picked[w].generation \in Nat
    BY LeaseEntries
  <2>3. seen'[w].generation < lease'.generation
    BY <1>2, <2>1, <2>2 DEF Watched, Unseen
  <2>4. picked'[w].generation < lease'.generation
    BY <1>2, <2>1, <2>2 DEF Watched, Nothing
  <2>5. seen'[w].generation \in Nat /\ picked'[w].generation \in Nat /\ lease'.generation \in Nat
    BY <2>1, <2>2 DEF Unseen, Nothing
  <2>6. seen'[w].generation # lease'.generation /\ picked'[w].generation # lease'.generation
    BY <2>3, <2>4, <2>5
  <2>7. Changed(w)' /\ picked'[w] # Identity'
    BY <2>6 DEF Changed, Identity
  <2> QED BY <2>3, <2>4, <2>5, <2>7 DEF Watched
<1> QED BY <1>1, <1>2 DEF FirstLeaseWatched

\* In the first attempt, watching stays truthful whatever the owner and the others do.
LEMMA FirstLeaseStep ==
    ASSUME LeaseTyped, LeaseTyped', FirstLeaseWatched, [LeaseNext]_leaseVars
    PROVE  FirstLeaseWatched'
<1> USE LeaseAssumption
<1>0. /\ seen \in [Workers -> Observations] /\ scan \in [Workers -> Scans]
      /\ picked \in [Workers -> Identities]
      /\ lease \in Leases /\ lease.generation \in Nat /\ silence \in 0..LeaseLength
  BY DEF LeaseTyped, LeaseTypeOK, Observations, Scans
<1> DEFINE First == lease.attempts = 1 /\ lease.state = "running"
<1>a. First => lease.owner \in Workers /\ \A w \in Workers : Watched(w)
  BY DEF FirstLeaseWatched
<1>b. ASSUME lease' = lease, lease.attempts = 0 => \A w \in Workers : Untouched(w)',
             First => \A w \in Workers : Watched(w)'
      PROVE  FirstLeaseWatched'
  BY <1>a, <1>b DEF FirstLeaseWatched
<1>1. CASE UNCHANGED leaseVars
  BY <1>1 DEF leaseVars, FirstLeaseWatched, Untouched, Watched, LongSilent, Changed, Identity
<1>2. CASE Tick
  <2>1. lease' = lease /\ picked' = picked
    BY <1>2 DEF Tick
  <2>2. ASSUME NEW w \in Workers
        PROVE  /\ seen'[w].owner = seen[w].owner /\ seen'[w].generation = seen[w].generation
               /\ seen'[w].late = seen[w].late /\ seen'[w].age = Older(seen[w].age)
               /\ scan'[w].ripe = scan[w].ripe
    BY <1>2, <1>0 DEF Tick, Observations, Scans
  <2>3. ASSUME First, NEW w \in Workers PROVE Watched(w)'
    <3>1. Watched(w) BY <1>a, <2>3
    <3>2. Changed(w)' <=> Changed(w)
      BY <2>1, <2>2 DEF Changed, Identity
    <3>3. silence' = Older(silence) /\ silence <= silence' /\ silence' \in 0..LeaseLength
      BY <1>0, <1>2, <2>3, OlderIsTicks DEF Tick
    <3>4. seen[w].age <= silence + seen[w].late => seen'[w].age <= silence' + seen'[w].late
      BY <1>0, <2>2, <3>3, OlderIsTicks, LeaseEntries
    <3>5. LongSilent(w) => LongSilent(w)'
      BY <1>0, <2>2, <3>3, LeaseEntries DEF LongSilent
    <3>6. Identity' = Identity BY <2>1 DEF Identity
    <3> QED BY <2>1, <2>2, <3>1, <3>2, <3>4, <3>5, <3>6 DEF Watched
  <2>4. lease.attempts = 0 => \A w \in Workers : Untouched(w)'
    BY <2>1, <2>2 DEF FirstLeaseWatched, Untouched, Nothing
  <2> QED BY <1>b, <2>1, <2>3, <2>4
<1>3. ASSUME NEW w \in Workers, Claim(w) PROVE FirstLeaseWatched'
  <2>1. /\ lease'.attempts = lease.attempts + 1 /\ lease'.owner = w
        /\ lease'.generation = lease.generation + 1 /\ seen' = seen /\ picked' = picked
    BY <1>3, <1>0 DEF Claim, Leases
  <2>2. lease.attempts \in Nat
    BY <1>0 DEF Leases
  <2>3. ASSUME lease'.attempts = 1, NEW v \in Workers PROVE Watched(v)'
    <3>1. Untouched(v)
      BY <2>1, <2>2, <2>3 DEF FirstLeaseWatched
    <3>2. Changed(v)' /\ picked'[v] # Identity'
      BY <2>1, <3>1 DEF Changed, Identity, Untouched, Nothing
    <3> QED BY <1>0, <2>1, <3>1, <3>2 DEF Watched, Untouched, Nothing
  <2> QED BY <2>1, <2>2, <2>3 DEF FirstLeaseWatched
<1>4. ASSUME NEW w \in Workers, RenewLease(w) PROVE FirstLeaseWatched'
  <2>1. /\ lease.state = "running" /\ lease'.attempts = lease.attempts
        /\ lease'.owner \in Workers
        /\ lease'.generation = lease.generation + 1 /\ seen' = seen /\ picked' = picked
    BY <1>4, <1>0 DEF RenewLease, Holds, Leases
  <2> QED BY <2>1, NewGeneration
<1>5. ASSUME NEW w \in Workers, Fail(w) PROVE FirstLeaseWatched'
  <2>1. lease.state = "running" /\ lease'.state # "running" /\ lease'.attempts = lease.attempts
    BY <1>5, <1>0 DEF Fail, Holds, Leases
  <2> QED BY <2>1 DEF FirstLeaseWatched
<1>6. ASSUME NEW w \in Workers, Complete(w) PROVE FirstLeaseWatched'
  <2>1. lease.state = "running" /\ lease'.state # "running" /\ lease'.attempts = lease.attempts
    BY <1>6, <1>0 DEF Complete, Holds, Leases
  <2> QED BY <2>1 DEF FirstLeaseWatched
<1>7. ASSUME NEW w \in Workers, Crash(w) PROVE FirstLeaseWatched'
  <2>1. /\ lease' = lease /\ silence' = silence /\ scan' = [scan EXCEPT ![w] = NoScan]
        /\ seen' = [seen EXCEPT ![w] = Unseen] /\ picked' = [picked EXCEPT ![w] = Nothing]
    BY <1>7 DEF Crash
  <2>2. ASSUME NEW v \in Workers
        PROVE  \/ seen'[v] = seen[v] /\ scan'[v] = scan[v] /\ picked'[v] = picked[v]
               \/ seen'[v] = Unseen /\ picked'[v] = Nothing
    BY <1>0, <2>1
  <2>3. lease.attempts = 0 => \A v \in Workers : Untouched(v)'
    BY <2>2 DEF FirstLeaseWatched, Untouched, Unseen
  <2>4. ASSUME First, NEW v \in Workers PROVE Watched(v)'
    BY <1>0, <1>a, <2>1, <2>2, <2>4, StillWatched
  <2> QED BY <1>b, <2>1, <2>3, <2>4
<1>8. ASSUME NEW w \in Workers, StartScan(w) PROVE FirstLeaseWatched'
  <2>1. /\ lease' = lease /\ silence' = silence /\ seen' = seen /\ picked' = picked
        /\ \A v \in Workers \ {w} : scan'[v] = scan[v]
        /\ scan'[w].ripe <=> seen[w].age >= LeaseLength
    BY <1>0, <1>8 DEF StartScan
  <2>2. lease.attempts = 0 => \A v \in Workers : Untouched(v)'
    BY <2>1 DEF FirstLeaseWatched, Untouched, Nothing
  <2>3. ASSUME First, NEW v \in Workers PROVE Watched(v)'
    <3>1. CASE v # w
      BY <1>0, <1>a, <2>1, <2>3, <3>1, StillWatched
    <3>2. CASE v = w
      <4>1. Watched(w) BY <1>a, <2>3
      <4>2. Changed(w)' <=> Changed(w) BY <2>1 DEF Changed, Identity
      <4>3. LongSilent(w)' <=> LongSilent(w) BY <2>1 DEF LongSilent
      <4>4. scan'[w].ripe /\ ~Changed(w) => LongSilent(w)
        BY <1>0, <2>1, <4>1, LeaseEntries DEF Watched, LongSilent
      <4>5. Identity' = Identity BY <2>1 DEF Identity
      <4> QED BY <2>1, <3>2, <4>1, <4>2, <4>3, <4>4, <4>5 DEF Watched
    <3> QED BY <3>1, <3>2
  <2> QED BY <1>b, <2>1, <2>2, <2>3
<1>11. ASSUME NEW w \in Workers, ReadRows(w) PROVE FirstLeaseWatched'
  <2>1. /\ lease' = lease /\ silence' = silence
        /\ scan'[w] = NoScan /\ \A v \in Workers \ {w} : scan'[v] = scan[v]
    BY <1>0, <1>11 DEF ReadRows
  <2>2. CASE lease.state # "running"
    <3>1. (\A v \in Workers : seen'[v] = seen[v] \/ seen'[v] = Unseen) /\ picked' = picked
      BY <1>0, <1>11, <2>2 DEF ReadRows
    <3>2. lease.attempts = 0 => \A v \in Workers : Untouched(v)'
      BY <3>1 DEF FirstLeaseWatched, Untouched, Unseen, Nothing
    <3> QED BY <1>b, <2>1, <2>2, <3>2
  <2>3. CASE lease.state = "running" /\ Changed(w)
    <3>1. /\ picked' = picked /\ seen'[w] = Observed(w)
          /\ \A v \in Workers \ {w} : seen'[v] = seen[v]
      BY <1>0, <1>11, <2>3 DEF ReadRows
    <3>2. lease.attempts # 0
      BY <2>3 DEF FirstLeaseWatched
    <3>3. ASSUME First, NEW v \in Workers PROVE Watched(v)'
      <4>1. CASE v # w
        BY <1>0, <1>a, <2>1, <3>1, <3>3, <4>1, StillWatched
      <4>2. CASE v = w
        <5>1. Watched(w) /\ Identity' = Identity BY <1>a, <2>1, <3>3 DEF Identity
        <5>2. picked'[w] # Identity BY <2>3, <3>1, <5>1 DEF Watched
        <5>3. /\ seen'[w].generation = lease.generation
              /\ seen'[w].age = scan[w].delay /\ seen'[w].late = scan[w].delay
          BY <3>1 DEF Observed
        <5>4. seen'[w].age <= silence' + seen'[w].late
          BY <1>0, <2>1, <5>3, LeaseEntries
        <5>5. picked'[w].generation <= lease.generation BY <3>1, <5>1 DEF Watched
        <5>6. lease.generation \in Nat /\ lease' = lease BY <1>0, <2>1
        <5>7. seen'[w].generation <= lease'.generation BY <5>3, <5>6
        <5>8. ~scan'[w].ripe BY <2>1 DEF NoScan
        <5>9. picked'[w] # Identity' BY <5>1, <5>2
        <5> QED BY <4>2, <5>4, <5>5, <5>6, <5>7, <5>8, <5>9 DEF Watched
      <4> QED BY <4>1, <4>2
    <3> QED BY <1>b, <2>1, <3>2, <3>3
  <2>4. CASE lease.state = "running" /\ ~Changed(w)
    <3>1. /\ seen' = seen /\ \A v \in Workers \ {w} : picked'[v] = picked[v]
          /\ picked'[w] = IF scan[w].ripe THEN Identity ELSE picked[w]
      BY <1>0, <1>11, <2>4 DEF ReadRows
    <3>2. lease.attempts # 0
      BY <2>4 DEF FirstLeaseWatched
    <3>3. ASSUME First, NEW v \in Workers PROVE Watched(v)'
      <4>1. CASE v # w \/ ~scan[w].ripe
        BY <1>0, <1>a, <2>1, <3>1, <3>3, <4>1, StillWatched
      <4>2. CASE v = w /\ scan[w].ripe
        <5>1. Watched(w) /\ Identity' = Identity BY <1>a, <2>1, <3>3 DEF Identity
        <5>2. LongSilent(w) BY <2>4, <4>2, <5>1 DEF Watched
        <5>3. ~Changed(w)' /\ LongSilent(w)'
          BY <2>1, <2>4, <3>1, <5>1, <5>2 DEF Changed, LongSilent
        <5>4. picked'[w].generation <= lease.generation
          BY <1>0, <3>1, <4>2 DEF Identity
        <5>5. seen'[w] = seen[w] /\ ~scan'[w].ripe BY <2>1, <3>1 DEF NoScan
        <5>6. /\ seen[w].generation <= lease.generation
              /\ seen[w].age <= silence + seen[w].late
          BY <2>4, <5>1 DEF Watched
        <5> QED BY <2>1, <4>2, <5>3, <5>4, <5>5, <5>6 DEF Watched
      <4> QED BY <4>1, <4>2
    <3> QED BY <1>b, <2>1, <3>2, <3>3
  <2> QED BY <2>2, <2>3, <2>4
<1>9. ASSUME NEW w \in Workers, TakeOver(w) PROVE FirstLeaseWatched'
  <2>1. \A v \in Workers : picked'[v] = picked[v] \/ picked'[v] = Nothing
    BY <1>0, <1>9 DEF TakeOver
  <2>2. CASE StillPicked(w)
    <3>1. /\ lease.state = "running" /\ lease'.attempts = lease.attempts
          /\ lease'.owner = w /\ lease'.generation = lease.generation + 1
          /\ seen' = [seen EXCEPT ![w] = Unseen]
      BY <1>0, <1>9, <2>2 DEF TakeOver, StillPicked, Leases
    <3>2. \A v \in Workers : seen'[v] = seen[v] \/ seen'[v] = Unseen
      BY <1>0, <3>1
    <3> QED BY <2>1, <3>1, <3>2, NewGeneration
  <2>3. CASE ~StillPicked(w)
    <3>1. lease' = lease /\ silence' = silence /\ seen' = seen /\ scan' = scan
      BY <1>9, <2>3 DEF TakeOver
    <3>2. lease.attempts = 0 => \A v \in Workers : Untouched(v)'
      BY <2>1, <3>1 DEF FirstLeaseWatched, Untouched
    <3>3. ASSUME First, NEW v \in Workers PROVE Watched(v)'
      BY <1>0, <1>a, <2>1, <3>1, <3>3, StillWatched
    <3> QED BY <1>b, <3>1, <3>2, <3>3
  <2> QED BY <2>2, <2>3
<1>10. ASSUME NEW w \in Workers, Recover(w) PROVE FirstLeaseWatched'
  <2>1. lease.state = "running" /\ lease'.state # "running" /\ lease'.attempts = lease.attempts
    BY <1>10, <1>0 DEF Recover, Holds, Leases
  <2> QED BY <2>1 DEF FirstLeaseWatched
<1> QED BY <1>1, <1>2, <1>3, <1>4, <1>5, <1>6, <1>7, <1>8, <1>9, <1>10, <1>11 DEF LeaseNext

\* Before the first submission is claimed, nobody has looked.
LEMMA LeaseBegins == LeaseInit => LeaseTyped /\ FirstLeaseWatched
<1> SUFFICES ASSUME LeaseInit PROVE LeaseTyped /\ FirstLeaseWatched
  OBVIOUS
<1> USE LeaseAssumption DEF LeaseInit, Unseen, NoScan, Nothing
<1>1. LeaseTyped
  BY DEF LeaseTyped, LeaseTypeOK, Leases, Identities
<1>2. FirstLeaseWatched
  BY DEF FirstLeaseWatched, Untouched
<1> QED BY <1>1, <1>2

\* The lease, the observations and the clocks of the workers always have their types, and
\* in a job's first attempt every worker's watch tells the truth.
THEOREM LeaseAlwaysWatched == LeaseSpec => [](LeaseTyped /\ FirstLeaseWatched)
<1>1. LeaseTyped /\ FirstLeaseWatched /\ [LeaseNext]_leaseVars => (LeaseTyped /\ FirstLeaseWatched)'
  BY LeaseTypedStep, FirstLeaseStep
<1> QED BY <1>1, LeaseBegins, PTL DEF LeaseSpec

\* The row, the observations and the clocks keep their types.
THEOREM LeaseTypeCorrect == LeaseSpec => []LeaseTypeOK
<1>1. LeaseTyped => LeaseTypeOK
  BY DEF LeaseTyped
<1> QED BY <1>1, LeaseAlwaysWatched, PTL

\* The lease of a first attempt, or one that changed hands in it, is taken over only after
\* it has gone unrenewed for its whole length, less what the worker that takes it was late
\* in reading it (claim_expired), for any number of workers and any lease.
THEOREM FirstLeaseHonoured == LeaseSpec => FirstLeaseIsHonoured
<1>1. ASSUME LeaseTyped, FirstLeaseWatched, [LeaseNext]_leaseVars
      PROVE  [TakenOver /\ lease.attempts = 1 => Lapsed]_leaseVars
  <2> SUFFICES ASSUME TakenOver, lease.attempts = 1, ~UNCHANGED leaseVars
               PROVE  Lapsed
    OBVIOUS
  <2>1. lease \in Leases
    BY <1>1 DEF LeaseTyped
  <2>2. lease'.fenced /\ lease'.generation # lease.generation
    BY DEF TakenOver
  <2>3. \A w \in Workers : ~Claim(w)
    BY <1>1, <2>1, <2>2 DEF Claim, LeaseTyped, Leases
  <2>4. \A w \in Workers : ~RenewLease(w) /\ ~Fail(w)
    BY <2>1, <2>2 DEF RenewLease, Fail, Leases
  <2>5. \A w \in Workers : ~Complete(w) /\ ~Recover(w)
    BY <2>1, <2>2 DEF Complete, Recover, Leases
  <2>6. ~Tick /\ \A w \in Workers : ~Crash(w) /\ ~StartScan(w) /\ ~ReadRows(w)
    BY <2>2 DEF Tick, Crash, StartScan, ReadRows
  <2>7. PICK w \in Workers : TakeOver(w)
    BY <1>1, <2>3, <2>4, <2>5, <2>6 DEF LeaseNext
  <2>8. StillPicked(w) /\ lease'.owner = w
    BY <2>1, <2>2, <2>7 DEF TakeOver, Leases
  <2>9. Watched(w)
    BY <1>1, <2>8 DEF StillPicked, FirstLeaseWatched
  <2> QED BY <2>8, <2>9 DEF StillPicked, Watched, LongSilent, Lapsed
<1> QED BY <1>1, LeaseAlwaysWatched, PTL DEF LeaseSpec, FirstLeaseIsHonoured
=============================================================================
