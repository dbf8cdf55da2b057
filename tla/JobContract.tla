---------------------------- MODULE JobContract ----------------------------
(***************************************************************************)
(* What the durable queue promises about benchmark jobs, without rows,     *)
(* workers or leases: a job waits, is active in one of a bounded number of *)
(* slots, and ends.  Its slot is given back, and its work started again or *)
(* forgotten, only when no work of it is running; a job whose outcome was  *)
(* lost keeps its slot until then; and a job is done only with a published *)
(* artifact.                                                               *)
(***************************************************************************)
EXTENDS Integers, FiniteSets

CONSTANTS Jobs, Principals, Owner, MaxRunning, MaxRunningPerPrincipal

VARIABLES
    phase,      \* where each job stands
    slots,      \* the jobs that hold a running slot
    live,       \* the jobs whose work is running
    published   \* the jobs whose artifact is published

vars == <<phase, slots, live, published>>

Phases == {"new", "waiting", "active", "done", "stopped", "lost", "gone"}

Init == /\ phase = [j \in Jobs |-> "new"]
        /\ slots = {} /\ live = {} /\ published = {}

Move(j, from, to) == phase[j] \in from /\ phase' = [phase EXCEPT ![j] = to]

Accept(j) == Move(j, {"new"}, "waiting") /\ UNCHANGED <<slots, live, published>>

Withdraw(j) == Move(j, {"waiting"}, "stopped") /\ UNCHANGED <<slots, live, published>>

Start(j) ==
    /\ Move(j, {"waiting"}, "active")
    /\ j \notin live
    /\ Cardinality(slots) < MaxRunning
    /\ Cardinality({i \in slots : Owner[i] = Owner[j]}) < MaxRunningPerPrincipal
    /\ slots' = slots \cup {j}
    /\ UNCHANGED <<live, published>>

WorkBegins(j) == /\ phase[j] = "active" /\ j \notin live
                 /\ live' = live \cup {j}
                 /\ UNCHANGED <<phase, slots, published>>

\* Work ends by itself, or with the process it runs in.
WorkEnds == live' \in SUBSET live /\ UNCHANGED <<phase, slots, published>>

PublishOnly(j) == /\ phase[j] = "active" /\ j \notin live
                  /\ published' = published \cup {j}
                  /\ live' \in SUBSET live
                  /\ UNCHANGED <<phase, slots>>

Idle(j) == j \notin live /\ slots' = slots \ {j}

Complete(j) == /\ Move(j, {"active"}, "done") /\ Idle(j)
               /\ published' = published \cup {j}
               /\ UNCHANGED live

Fail(j) == /\ Move(j, {"active"}, "stopped") /\ Idle(j) /\ j \notin published
           /\ UNCHANGED <<live, published>>

Retry(j) == /\ Move(j, {"active"}, "waiting") /\ Idle(j) /\ j \notin published
            /\ UNCHANGED <<live, published>>

Lose(j) == /\ Move(j, {"active"}, "lost") /\ j \notin published
           /\ Idle(j) \/ UNCHANGED slots
           /\ UNCHANGED <<live, published>>

Release(j) == /\ phase[j] = "lost" /\ Idle(j)
              /\ UNCHANGED <<phase, live, published>>

Withhold(j) == /\ phase[j] = "done"
               /\ published' = published \ {j}
               /\ UNCHANGED <<phase, slots, live>>

Forget(j) == /\ Move(j, {"done", "stopped", "lost"}, "gone")
             /\ j \notin slots \cup live \cup published
             /\ UNCHANGED <<slots, live, published>>

Next == \/ WorkEnds
        \/ \E j \in Jobs :
              \/ Accept(j) \/ Withdraw(j) \/ Start(j) \/ WorkBegins(j) \/ PublishOnly(j)
              \/ Complete(j) \/ Fail(j) \/ Retry(j) \/ Lose(j) \/ Release(j)
              \/ Withhold(j) \/ Forget(j)

Spec == Init /\ [][Next]_vars
=============================================================================
