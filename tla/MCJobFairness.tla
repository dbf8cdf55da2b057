--------------------------- MODULE MCJobFairness ---------------------------
(***************************************************************************)
(* Who is served while a tenant waits: DurableJobs with a history variable *)
(* that counts, for a tenant with queued work it would be allowed to run,  *)
(* how often every other tenant has been served since.                     *)
(***************************************************************************)
EXTENDS DurableJobs, TLC

CONSTANTS pa, pb, a1, a2, a3, b1, b2

VARIABLE overtaken

Tenants == [j \in Jobs |-> IF j \in {a1, a2, a3} THEN pa ELSE pb]
NoKeys == [j \in Jobs |-> NoKey]
WorkerSymmetry == Permutations(Workers)

Waiting(p) == QueuedOf(p) # {} /\ CanRun(p)
Served(q) == lastServed'[q] # lastServed[q]

FInit == Init /\ overtaken = [p \in Principals |-> [q \in Principals |-> 0]]

\* Jobs are submitted, run, retried and finish; no cancellation, leaked work, lost
\* lease, crash or retention, which change who waits but not who is chosen.
Uneventful ==
    /\ leak' = leak /\ aged' = {} /\ faults' = 0
    /\ \A j \in Jobs : ~row'[j].cancel
    /\ \A w \in Workers : wk'[w].pc \notin {"look", "exiting", "dead"} /\ ~wk'[w].lost

Counted ==
    overtaken' = [p \in Principals |-> [q \in Principals |->
        IF Served(p) \/ ~Waiting(p) \/ ~Waiting(p)' THEN 0
        ELSE IF q # p /\ Served(q) THEN overtaken[p][q] + 1 ELSE overtaken[p][q]]]

FSpec == FInit /\ [][Next /\ Uneventful /\ Counted]_<<vars, overtaken>>

\* The whole queue, too large to check: JobFairnessProofs.
EventfulSpec == FInit /\ [][Next /\ Counted]_<<vars, overtaken>>

\* Least recently served first: from one service of a tenant to its next, no other tenant
\* is served twice while it has work it may run, whatever arrives meanwhile.
BoundedBypass ==
    \A p, q \in Principals : overtaken[p][q] <= 1
=============================================================================
