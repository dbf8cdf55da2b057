------------------------- MODULE JobFairnessProofs -------------------------
(***************************************************************************)
(* Fair service of tenants, for any number of tenants, jobs and workers,   *)
(* any owners, keys and limits: proofs about MCJobFairness.  That nobody   *)
(* is passed twice is inductive once it is said why: whoever has passed p  *)
(* was served later than p (PassedIsLater), and the next to run is of a    *)
(* principal that was served no later than any other it could be (Ahead).  *)
(***************************************************************************)
EXTENDS MCJobFairness, DurableJobsProofs

\* The claims are counted, and a principal is served as of the claim that served it.
ServedByClaims == \A p \in Principals : lastServed[p] <= claims

Overtakings == [Principals -> [Principals -> 0..1]]

PassedIsLater ==
    \A p, q \in Principals : overtaken[p][q] = 1 => lastServed[p] < lastServed[q]

FairInv == Typed /\ ServedByClaims /\ overtaken \in Overtakings /\ PassedIsLater

\* Only claim serves, and only the principal of the job it takes.
LEMMA OnlyClaimServes ==
    ASSUME Typed, [Next]_vars
    PROVE  \/ claims' = claims /\ lastServed' = lastServed
           \/ \E j \in Jobs : /\ NextToRun(j) /\ claims' = claims + 1
                              /\ lastServed' = [lastServed EXCEPT ![Owner[j]] = claims + 1]
<1> DEFINE Unserved == claims' = claims /\ lastServed' = lastServed
<1>1. ASSUME Client PROVE Unserved
  BY <1>1 DEF Client, Submit, Cancel, Age
<1>2. ASSUME NEW w \in Workers, Proceed(w) PROVE Unserved
  BY <1>2 DEF Proceed, Gate, Late, Drop, MarkOutstanding, Reject, Check, Discard, Begin,
     Publish, Finally, Except, Revive, Giveup, Look, Clean, Settle, PurgeRow, Exit, store
<1>3. ASSUME NEW w \in Workers, ExecEnd(w) \/ LoseLease(w) \/ Leaked(w) PROVE Unserved
  BY <1>3 DEF ExecEnd, LoseLease, Leaked, LeakEnds, AttestLeak, AttestLeakFails, store
<1>4. ASSUME NEW w \in Workers, Failure(w) PROVE Unserved
  BY <1>4 DEF Failure, HeartbeatFails, StoreFails, PublishFails, AttestFails, Stop, Crash,
     CrashInPublish, store
<1>5. ASSUME NEW w \in Workers, NEW j \in Jobs, Fence(w, j) \/ PurgeFiles(w, j) PROVE Unserved
  BY <1>5 DEF Fence, PurgeFiles, store
<1>6. CASE UNCHANGED vars
  BY <1>6 DEF vars
<1> QED BY <1>1, <1>2, <1>3, <1>4, <1>5, <1>6 DEF Next, Pick, Claim

\* Next to run is a job of a principal served no later than any that waits.
LEMMA ServedIsEarliest ==
    ASSUME Typed, NEW j \in Jobs, NextToRun(j), NEW p \in Principals, Waiting(p)
    PROVE  lastServed[Owner[j]] <= lastServed[p]
<1>1. PICK i \in Queued : Owner[i] = p
  BY DEF Waiting, QueuedOf
<1>2. Ahead(j, i)
  BY <1>1 DEF NextToRun, Waiting
<1>3. lastServed \in [Principals -> Nat] /\ Owner[j] \in Principals
  BY JobsAssumption DEF Typed, TypeOK
<1> QED BY <1>1, <1>2, <1>3 DEF Ahead

\* The counters of who passed whom keep saying who was served later.
LEMMA FairStep ==
    ASSUME FairInv, Next, Counted
    PROVE  FairInv'
<1>0. /\ lastServed \in [Principals -> Nat] /\ claims \in Nat /\ Typed
      /\ lastServed' \in [Principals -> Nat] /\ claims' \in Nat /\ Typed'
  BY TypedStep DEF FairInv, Typed, TypeOK
<1>1. CASE claims' = claims /\ lastServed' = lastServed
  <2>1. \A p \in Principals : ~Served(p)
    BY <1>1 DEF Served
  <2>2. \A p, q \in Principals : overtaken'[p][q] \in {0, overtaken[p][q]}
    BY <2>1 DEF Counted
  <2>3. overtaken' \in Overtakings
    BY <2>1 DEF Counted, FairInv, Overtakings
  <2>4. PassedIsLater'
    BY <1>1, <2>2 DEF FairInv, PassedIsLater
  <2> QED BY <1>0, <1>1, <2>3, <2>4 DEF FairInv, ServedByClaims
<1>2. ASSUME NEW j \in Jobs, NextToRun(j), claims' = claims + 1,
             lastServed' = [lastServed EXCEPT ![Owner[j]] = claims + 1]
      PROVE  FairInv'
  <2> DEFINE o == Owner[j]
  <2>1. o \in Principals
    BY JobsAssumption
  <2>2. /\ lastServed'[o] = claims + 1
        /\ \A p \in Principals \ {o} : lastServed'[p] = lastServed[p]
    BY <1>0, <1>2, <2>1
  <2>3. \A p \in Principals : lastServed[p] \in Nat /\ lastServed[p] <= claims
    BY <1>0 DEF FairInv, ServedByClaims
  <2>4. Served(o) /\ \A p \in Principals \ {o} : ~Served(p)
    BY <1>0, <2>1, <2>2, <2>3 DEF Served
  <2>5. ServedByClaims'
    BY <1>0, <1>2, <2>2, <2>3 DEF ServedByClaims
  <2>6. ASSUME NEW p \in Principals, NEW q \in Principals
        PROVE  /\ overtaken'[p][q] \in 0..1
               /\ overtaken'[p][q] = 1 => lastServed'[p] < lastServed'[q]
    <3>1. overtaken[p][q] \in 0..1 /\ (overtaken[p][q] = 1 => lastServed[p] < lastServed[q])
      BY DEF FairInv, Overtakings, PassedIsLater
    <3>2. overtaken'[p][q] = IF Served(p) \/ ~Waiting(p) \/ ~Waiting(p)' THEN 0
                             ELSE IF q # p /\ Served(q) THEN overtaken[p][q] + 1
                             ELSE overtaken[p][q]
      BY DEF Counted
    <3>3. CASE p = o \/ ~Waiting(p) \/ ~Waiting(p)'
      BY <2>4, <3>2, <3>3
    <3>4. CASE p # o /\ Waiting(p) /\ Waiting(p)' /\ q = o
      <4>1. lastServed[q] <= lastServed[p]
        BY <1>0, <1>2, <3>4, ServedIsEarliest
      <4>2. overtaken[p][q] = 0
        BY <2>3, <3>1, <4>1
      <4>3. overtaken'[p][q] = 1
        BY <2>4, <3>2, <3>4, <4>2
      <4>4. lastServed'[p] < lastServed'[q]
        BY <1>0, <2>2, <2>3, <3>4
      <4> QED BY <4>3, <4>4
    <3>5. CASE p # o /\ Waiting(p) /\ Waiting(p)' /\ q # o
      <4>1. overtaken'[p][q] = overtaken[p][q]
        BY <2>4, <3>2, <3>5
      <4> QED BY <2>2, <3>1, <3>5, <4>1
    <3> QED BY <3>3, <3>4, <3>5
  <2>7. overtaken' \in Overtakings
    <3>1. overtaken' = [p \in Principals |-> [q \in Principals |-> overtaken'[p][q]]]
      BY DEF Counted
    <3> QED BY <2>6, <3>1 DEF Overtakings
  <2>8. PassedIsLater'
    BY <2>6 DEF PassedIsLater
  <2> QED BY <1>0, <2>5, <2>7, <2>8 DEF FairInv
<1> QED BY <1>0, <1>1, <1>2, OnlyClaimServes

\* Nobody is served and nobody passed before the first claim.
LEMMA FairBegins == FInit => FairInv
<1> SUFFICES ASSUME FInit PROVE FairInv
  OBVIOUS
<1>1. Typed
  BY TypedInit DEF FInit
<1>2. lastServed = [p \in Principals |-> 0] /\ claims = 0
  BY DEF FInit, Init
<1>3. overtaken \in Overtakings /\ \A p, q \in Principals : overtaken[p][q] = 0
  BY DEF FInit, Overtakings
<1> QED BY <1>1, <1>2, <1>3 DEF FairInv, ServedByClaims, PassedIsLater

\* Whoever has passed a waiting tenant was served later than it, so far, whatever else
\* happens in the queue.
THEOREM FairAlways == EventfulSpec => []FairInv
<1>1. FairInv /\ [Next /\ Counted]_<<vars, overtaken>> => FairInv'
  <2>1. FairInv /\ UNCHANGED <<vars, overtaken>> => FairInv'
    <3> SUFFICES ASSUME FairInv, UNCHANGED <<vars, overtaken>> PROVE FairInv'
      OBVIOUS
    <3>1. Typed'
      BY TypedStep DEF FairInv
    <3>2. lastServed' = lastServed /\ claims' = claims /\ overtaken' = overtaken
      BY DEF vars
    <3> QED BY <3>1, <3>2 DEF FairInv, ServedByClaims, PassedIsLater
  <2> QED BY <2>1, FairStep
<1> QED BY <1>1, FairBegins, PTL DEF EventfulSpec

\* From one service of a tenant to its next, claim serves no other tenant twice while the
\* tenant has work it may run, whatever the tenants, keys and limits are.  The run leaves
\* out cancellations, leaked work, lost leases, crashes, faults and retention; with them
\* it holds as well.
THEOREM NobodyIsPassedTwice == /\ EventfulSpec => []BoundedBypass
                               /\ FSpec => []BoundedBypass
<1>1. FairInv => BoundedBypass
  BY DEF FairInv, Overtakings, BoundedBypass
<1>2. [Next /\ Uneventful /\ Counted]_<<vars, overtaken>>
          => [Next /\ Counted]_<<vars, overtaken>>
  OBVIOUS
<1>3. FSpec => EventfulSpec
  BY <1>2, PTL DEF FSpec, EventfulSpec
<1> QED BY <1>1, <1>3, FairAlways, PTL
=============================================================================
