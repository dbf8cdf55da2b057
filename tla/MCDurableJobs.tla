--------------------------- MODULE MCDurableJobs ---------------------------
(***************************************************************************)
(* Small instances of DurableJobs for TLC: who owns the jobs, which of them *)
(* share an idempotency key, and which workers can be exchanged.            *)
(***************************************************************************)
EXTENDS DurableJobs, TLC

CONSTANTS pa, pb, j1, j2, j3, k1

OneTenant == [j \in Jobs |-> pa]
TwoTenants == [j \in Jobs |-> IF j = j3 THEN pb ELSE pa]

NoKeys == [j \in Jobs |-> NoKey]
SharedByTwo == [j \in Jobs |-> IF j = j3 THEN NoKey ELSE k1]

WorkerSymmetry == Permutations(Workers)

\* Progress is checked while no retention period runs out: purging a finished job
\* gives nobody else anything to wait for.
WithinRetention == Init /\ [][Next /\ TimelyRecovery /\ aged' = {}]_vars /\ Fairness

\* Two jobs at a time: j1 and its resubmission j2, or j1 and the other tenant's j3, with
\* crashes but no failing call.  j1 comes first: either order is a renaming of the other.
Submitted == {j \in Jobs : row[j].state # "absent"}
Rivals ==
    /\ Submitted' # {} => j1 \in Submitted'
    /\ ~({j2, j3} \subseteq Submitted')
    /\ j3 \in Submitted' => faults' = 0

TwoAtATime == Init /\ [][Next /\ Rivals]_vars
=============================================================================
