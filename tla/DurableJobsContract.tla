------------------------ MODULE DurableJobsContract ------------------------
(***************************************************************************)
(* The durable queue keeps its contract: proofs about DurableJobs, for any *)
(* number of jobs, tenants and workers and any limits.                     *)
(*                                                                         *)
(* Artifacts.  A job that reads as completed has its artifact and a job    *)
(* that ended otherwise has none, with failing operations as well.  It is  *)
(* inductive with what a worker relies on between two awaits: the row and  *)
(* the directory it read may change, but not in the way that matters       *)
(* (Informed).                                                             *)
(*                                                                         *)
(* Slots.  While no operation has failed, a quarantined slot has a worker  *)
(* on its way to attest, or one that left or reported untracked work:      *)
(* whoever a row waits for (Owes) settles it (Settles).                    *)
(*                                                                         *)
(* Contract.  With what workers know of artifacts, and with the accounts   *)
(* of DurableJobsCapacity, a step of any action is one of JobContract or   *)
(* shows it nothing, until an operation fails.                             *)
(***************************************************************************)
EXTENDS DurableJobsCapacity

-----------------------------------------------------------------------------
(* Processes and rows, one at a time.                                       *)

\* Only worker w moves.
OthersStay(w) == \A v \in Workers \ {w} : wk'[v] = wk[v]

\* What the ways from one await to the next do to the process.
LEMMA ProcessMoves ==
    ASSUME Typed, NEW w \in Workers
    PROVE  /\ Return(w) => wk'[w] = IdleWorker /\ OthersStay(w)
           /\ \A c : Goto(w, c) => /\ wk'[w].pc = c /\ wk'[w].job = wk[w].job
                                   /\ wk'[w].found = wk[w].found
                                   /\ wk'[w].verdict = wk[w].verdict /\ wk'[w].exc = wk[w].exc
                                   /\ OthersStay(w)
           /\ \A c, b : Unwind(w, c, b) => /\ wk'[w].pc = c /\ wk'[w].job = wk[w].job
                                           /\ wk'[w].verdict = "quiescent" /\ wk'[w].exc = "none"
                                           /\ OthersStay(w)
           /\ \A e : Leave(w, e) => /\ wk'[w].pc = "finally" /\ wk'[w].job = wk[w].job
                                    /\ wk'[w].verdict = wk[w].verdict /\ wk'[w].exc = e
                                    /\ OthersStay(w)
<1>1. wk \in [Workers -> Processes] /\ wk[w] \in Processes
  BY DEF Typed, TypeOK
<1>2. Return(w) => wk'[w] = IdleWorker /\ OthersStay(w)
  BY <1>1 DEF Return, OthersStay
<1>3. ASSUME NEW c, Goto(w, c)
      PROVE  /\ wk'[w].pc = c /\ wk'[w].job = wk[w].job /\ wk'[w].found = wk[w].found
             /\ wk'[w].verdict = wk[w].verdict /\ wk'[w].exc = wk[w].exc
             /\ OthersStay(w)
  BY <1>1, <1>3 DEF Goto, OthersStay, Processes
<1>4. ASSUME NEW c, NEW b, Unwind(w, c, b)
      PROVE  /\ wk'[w].pc = c /\ wk'[w].job = wk[w].job
             /\ wk'[w].verdict = "quiescent" /\ wk'[w].exc = "none"
             /\ OthersStay(w)
  <2> DEFINE q == [IdleWorker EXCEPT !.pc = c, !.job = wk[w].job, !.lost = b]
  <2>1. wk' = [wk EXCEPT ![w] = q]
    BY <1>4 DEF Unwind
  <2>2. q.pc = c /\ q.job = wk[w].job /\ q.verdict = "quiescent" /\ q.exc = "none"
    BY DEF IdleWorker
  <2> HIDE DEF q
  <2> QED BY <1>1, <2>1, <2>2 DEF OthersStay
<1>5. ASSUME NEW e, Leave(w, e)
      PROVE  /\ wk'[w].pc = "finally" /\ wk'[w].job = wk[w].job
             /\ wk'[w].verdict = wk[w].verdict /\ wk'[w].exc = e
             /\ OthersStay(w)
  BY <1>1, <1>5 DEF Leave, OthersStay, Processes
<1> QED BY <1>2, <1>3, <1>4, <1>5

\* One row is written, the others stay.
LEMMA RowWritten ==
    ASSUME Typed, NEW j \in Jobs, NEW r, SetRow(j, r)
    PROVE  row'[j] = r /\ \A i \in Jobs \ {j} : row'[i] = row[i]
BY DEF Typed, TypeOK, SetRow

-----------------------------------------------------------------------------
(* Artifacts.                                                               *)

\* The job will not run again.
Ended(r) == r.state \in EndStates \cup {"deleted"}

\* An artifact in F belongs to a row that is publishing or completed; a completed row not
\* in A has one.
ArtifactKept(j, r, F, A) ==
    /\ j \in F => r.state \in {"publishing", "completed"}
    /\ r.state = "completed" /\ j \notin A => j \in F

\* Before begin_publication.
Unpublished == {"gate", "drop", "exec", "outstanding", "reject", "check", "discard", "begin"}

\* Where a worker relies on what it knows of the row or of the artifact of its job.
Relying == Unpublished \cup {"revive", "giveup", "look", "clean", "settle", "purge"}

\* What the process p of w, whose job has row r, knows of the row and the artifacts F.
Informed(p, r, F, w) ==
    /\ p.pc \in Unpublished /\ HeldBy(r, w) => r.state = "running"
    /\ p.pc = "revive" /\ HeldBy(r, w) => p.job \in F
    /\ p.pc = "giveup" /\ HeldBy(r, w) => p.job \notin F
    /\ p.pc \in {"look", "clean", "settle"} => Doomed(r)
    /\ p.pc \in {"clean", "settle"} /\ ~p.found => p.job \notin F
    /\ p.pc = "purge" => Ended(r) /\ p.job \notin F

RowsKept == \A j \in Jobs : ArtifactKept(j, row[j], final, aged)
AllInformed ==
    \A w \in Workers : wk[w].job \in Jobs => Informed(wk[w], row[wk[w].job], final, w)

ArtifactsKnown == RowsKept /\ AllInformed

\* How a step of v may change whether job j, whose row is r, has an artifact.
Filed(j, r, v, G) ==
    \/ j \in G <=> j \in final
    \/ j \in G /\ MayComplete(r, v)
    \/ j \notin G /\ r.state = "completed"

\* What a move of a row by v leaves true of what another worker knows.
LEMMA MoveKeepsState ==
    ASSUME NEW j \in Jobs, row[j] \in Rows, OwnerKnown(row[j]), NEW r,
           NEW w \in Workers, NEW v \in Workers, v # w,
           ClientMove(j, r) \/ WorkerMove(j, v, r)
    PROVE  /\ HeldBy(r, w) => r.state = row[j].state
           /\ Ended(row[j]) => Ended(r)
<1> DEFINE q == row[j]
           Goal == /\ HeldBy(r, w) => r.state = q.state
                   /\ Ended(q) => Ended(r)
<1> USE DEF OwnerKnown, Ended, HeldBy, Leased, LeasedStates, EndStates
<1>1. CASE ClientMove(j, r)
  BY <1>1 DEF ClientMove, AbsentRow, Rows
<1>2. CASE NextToRun(j) /\ r = ClaimedRow(q, v)
  BY <1>2 DEF NextToRun, Queued, ClaimedRow, Rows
<1>3. CASE r = AttestedRow(q, v)
  BY <1>3 DEF AttestedRow, MayAttest, Rows
<1>4. ASSUME NEW b \in BOOLEAN, r = FailedRow(j, v, b) PROVE Goal
  BY <1>4 DEF FailedRow, Unowned, Rows
<1>5. CASE r = OutstandingRow(q, v)
  BY <1>5 DEF OutstandingRow, Unowned, Rows
<1>6. CASE MayBegin(q, v) /\ r = [q EXCEPT !.state = "publishing"]
  BY <1>6 DEF MayBegin, Rows
<1>7. CASE r = CompletedRow(q, v)
  BY <1>7 DEF CompletedRow, MayComplete, Unowned, Rows
<1>8. CASE Leased(q) /\ r = FencedRow(q, v)
  BY <1>8 DEF FencedRow, Rows
<1>9. ASSUME NEW b \in BOOLEAN, r = RecoveredRow(q, v, b) PROVE Goal
  BY <1>9 DEF RecoveredRow, Unowned, Rows, FencedBy
<1>10. CASE Deletable(q) /\ r = [AbsentRow EXCEPT !.state = "deleted"]
  BY <1>10 DEF Deletable, AbsentRow, Rows
<1> HIDE DEF OwnerKnown, Ended, HeldBy, Leased, LeasedStates, EndStates
<1> QED BY <1>1, <1>2, <1>3, <1>4, <1>5, <1>6, <1>7, <1>8, <1>9, <1>10 DEF WorkerMove

\* What a worker knows survives what another one does to the row and to the artifact.
LEMMA InformedDespiteOthers ==
    ASSUME NEW j \in Jobs, row[j] \in Rows, OwnerKnown(row[j]), NEW r,
           NEW w \in Workers, NEW v \in Workers, v # w,
           r = row[j] \/ WorkerMove(j, v, r),
           NEW p, p.job = j, NEW G, Informed(p, row[j], final, w), Filed(j, row[j], v, G)
    PROVE  Informed(p, r, G, w)
<1>1. /\ Doomed(row[j]) => Doomed(r)
      /\ Ended(row[j]) => Ended(r)
      /\ HeldBy(r, w) => HeldBy(row[j], w) /\ r.state = row[j].state
  BY MoveByOther, MoveKeepsState
<1>2. HeldBy(row[j], w) \/ Doomed(row[j]) => ~MayComplete(row[j], v)
  BY DEF HeldBy, Doomed, MayComplete, Leased, LeasedStates, EndStates
<1>3. HeldBy(row[j], w) => row[j].state # "completed"
  BY DEF HeldBy, Leased, LeasedStates
<1>4. Ended(row[j]) => Doomed(row[j])
  BY DEF Ended, Doomed
<1> QED BY <1>1, <1>2, <1>3, <1>4 DEF Informed, Filed

\* and submissions and cancellations.
LEMMA InformedDespiteClients ==
    ASSUME NEW j \in Jobs, row[j] \in Rows, NEW r, ClientMove(j, r), NEW w \in Workers,
           NEW p, p.job = j, Informed(p, row[j], final, w)
    PROVE  Informed(p, r, final, w)
<1>1. /\ Doomed(row[j]) => Doomed(r)
      /\ Ended(row[j]) => Ended(r)
      /\ HeldBy(r, w) => HeldBy(row[j], w) /\ r.state = row[j].state
  BY DEF ClientMove, AbsentRow, Rows, Doomed, Ended, HeldBy, Leased, LeasedStates, EndStates
<1> QED BY <1>1 DEF Informed

\* A step of w keeps the invariant if it does for w itself and for the artifacts.
LEMMA OwnFiling ==
    ASSUME Typed, OwnersKnown, ArtifactsKnown, NEW w \in Workers, OthersStay(w),
           aged' = aged,
           \A j \in Jobs : /\ row'[j] = row[j] \/ WorkerMove(j, w, row'[j])
                           /\ Filed(j, row[j], w, final')
                           /\ ArtifactKept(j, row'[j], final', aged),
           wk'[w].job \in Jobs => Informed(wk'[w], row'[wk'[w].job], final', w)
    PROVE  ArtifactsKnown'
<1>0. \A j \in Jobs : row[j] \in Rows /\ OwnerKnown(row[j])
  BY DEF Typed, TypeOK, OwnersKnown
<1>1. RowsKept'
  BY DEF RowsKept, ArtifactKept
<1>2. ASSUME NEW v \in Workers, wk'[v].job \in Jobs
      PROVE  Informed(wk'[v], row'[wk'[v].job], final', v)
  <2>1. CASE v = w
    BY <1>2, <2>1
  <2>2. CASE v # w
    <3>1. wk'[v] = wk[v]
      BY <2>2 DEF OthersStay
    <3>2. Informed(wk[v], row[wk[v].job], final, v) /\ wk[v].job \in Jobs
      BY <1>2, <3>1 DEF ArtifactsKnown, AllInformed
    <3> QED BY <1>0, <2>2, <3>1, <3>2, InformedDespiteOthers
  <2> QED BY <2>1, <2>2
<1> QED BY <1>1, <1>2 DEF ArtifactsKnown, AllInformed, Informed, HeldBy, Doomed, Ended, Leased

\* A step of w that leaves the table and the artifacts alone.
LEMMA OwnThought ==
    ASSUME Typed, OwnersKnown, ArtifactsKnown, NEW w \in Workers, OthersStay(w),
           UNCHANGED <<row, final, aged>>,
           wk'[w].job \in Jobs => Informed(wk'[w], row[wk'[w].job], final, w)
    PROVE  ArtifactsKnown'
<1>1. \A j \in Jobs : /\ row'[j] = row[j]
                      /\ Filed(j, row[j], w, final')
                      /\ ArtifactKept(j, row'[j], final', aged)
  BY DEF ArtifactsKnown, RowsKept, Filed
<1> QED BY <1>1, OwnFiling

\* A step of w that writes the row of j.
LEMMA OwnWriting ==
    ASSUME Typed, OwnersKnown, ArtifactsKnown, NEW w \in Workers, OthersStay(w),
           aged' = aged, NEW j \in Jobs, NEW r, SetRow(j, r),
           r = row[j] \/ WorkerMove(j, w, r),
           \A i \in Jobs \ {j} : i \in final' <=> i \in final,
           Filed(j, row[j], w, final'), ArtifactKept(j, r, final', aged),
           wk'[w].pc \notin Relying
             \/ (wk'[w].job = j /\ Informed(wk'[w], r, final', w))
    PROVE  ArtifactsKnown'
<1>0. row'[j] = r /\ \A i \in Jobs \ {j} : row'[i] = row[i]
  BY RowWritten
<1>1. ASSUME NEW i \in Jobs
      PROVE  /\ row'[i] = row[i] \/ WorkerMove(i, w, row'[i])
             /\ Filed(i, row[i], w, final')
             /\ ArtifactKept(i, row'[i], final', aged)
  BY <1>0 DEF ArtifactsKnown, RowsKept, ArtifactKept, Filed
<1>2. wk'[w].job \in Jobs => Informed(wk'[w], row'[wk'[w].job], final', w)
  BY <1>0 DEF Informed, Relying, Unpublished
<1> QED BY <1>1, <1>2, OwnFiling

\* Every step keeps the invariant, failures included: one case per action.
LEMMA FilingStep ==
    ASSUME Typed, OwnersKnown, CancelledNeverPublished, ArtifactsKnown, [Next]_vars
    PROVE  ArtifactsKnown'
<1>0. /\ row \in [Jobs -> Rows] /\ wk \in [Workers -> Processes]
      /\ \A j \in Jobs : row[j] \in Rows /\ OwnerKnown(row[j])
      /\ \A w \in Workers : wk[w] \in Processes
      /\ \A w \in Workers : wk[w].pc \notin Resting => wk[w].job \in Jobs
      /\ \A j \in Jobs : ArtifactKept(j, row[j], final, aged)
      /\ \A w \in Workers :
            wk[w].job \in Jobs => Informed(wk[w], row[wk[w].job], final, w)
  BY DEF Typed, TypeOK, BusyHaveJobs, OwnersKnown, ArtifactsKnown, RowsKept, AllInformed
<1>1. CASE UNCHANGED <<row, final, aged, wk>>
  BY <1>1 DEF ArtifactsKnown, RowsKept, AllInformed, ArtifactKept, Informed, HeldBy, Doomed,
              Ended, Leased
<1>2. ASSUME NEW j \in Jobs, Submit(j) \/ Cancel(j) PROVE ArtifactsKnown'
  <2>1. UNCHANGED <<wk, final, aged>>
    BY <1>2 DEF Submit, Cancel
  <2>2. PICK r : ClientMove(j, r) /\ SetRow(j, r)
    BY <1>2 DEF Submit, Cancel, ClientMove
  <2>3. row'[j] = r /\ \A i \in Jobs \ {j} : row'[i] = row[i]
    BY <2>2, RowWritten
  <2>4. ArtifactKept(j, r, final, aged)
    BY <1>0, <2>2 DEF ArtifactKept, ClientMove, AbsentRow, Rows
  <2>5. \A i \in Jobs : ArtifactKept(i, row'[i], final, aged)
    BY <1>0, <2>3, <2>4
  <2>6. ASSUME NEW w \in Workers, wk[w].job \in Jobs
        PROVE  Informed(wk[w], row'[wk[w].job], final, w)
    <3>1. Informed(wk[w], row[wk[w].job], final, w)
      BY <1>0, <2>6
    <3> QED BY <1>0, <2>2, <2>3, <2>6, <3>1, InformedDespiteClients
  <2> QED BY <2>1, <2>5, <2>6
      DEF ArtifactsKnown, RowsKept, AllInformed, ArtifactKept, Informed, HeldBy, Doomed, Ended,
          Leased
<1>3. ASSUME NEW j \in Jobs, Age(j) PROVE ArtifactsKnown'
  <2>1. UNCHANGED <<row, wk, final>> /\ aged \subseteq aged'
    BY <1>3 DEF Age
  <2> QED BY <2>1 DEF ArtifactsKnown, RowsKept, AllInformed, ArtifactKept, Informed, HeldBy,
                      Doomed, Ended, Leased
<1>4. ASSUME NEW w \in Workers, UNCHANGED <<row, final, aged>>, OthersStay(w),
             \/ wk'[w].pc \notin Relying
             \/ /\ wk'[w].job = wk[w].job /\ wk'[w].pc \in Unpublished
                /\ wk[w].pc \in Unpublished
      PROVE  ArtifactsKnown'
  <2>1. wk'[w].job \in Jobs => Informed(wk'[w], row[wk'[w].job], final, w)
    <3>1. CASE wk'[w].pc \notin Relying
      BY <3>1 DEF Informed, Relying, Unpublished
    <3>2. CASE /\ wk'[w].job = wk[w].job /\ wk'[w].pc \in Unpublished
               /\ wk[w].pc \in Unpublished
      BY <1>0, <3>2 DEF Informed, Unpublished
    <3> QED BY <1>4, <3>1, <3>2
  <2> QED BY <1>4, <2>1, OwnThought
<1>5. ASSUME NEW w \in Workers, Gate(w) \/ Check(w) PROVE ArtifactsKnown'
  <2>1. wk[w].pc \in Unpublished /\ UNCHANGED <<row, final, aged>>
    BY <1>5 DEF Gate, Check, At, Unpublished, store
  <2>2. \E c \in {"late", "drop", "exec", "discard", "begin", "finally"} : Goto(w, c)
    BY <1>5 DEF Gate, Check
  <2>3. /\ wk'[w].pc \in Unpublished \cup {"late", "finally"}
        /\ wk'[w].job = wk[w].job /\ OthersStay(w)
    BY <2>2, ProcessMoves DEF Unpublished
  <2> QED BY <1>4, <2>1, <2>3 DEF Relying, Unpublished
<1>6. ASSUME NEW w \in Workers, LoseLease(w) PROVE ArtifactsKnown'
  <2>1. /\ UNCHANGED <<row, final, aged>> /\ OthersStay(w)
        /\ wk'[w].pc = wk[w].pc /\ wk'[w].job = wk[w].job /\ wk[w].pc \in InGroup
    BY <1>0, <1>6 DEF LoseLease, OthersStay, store, Processes
  <2> QED BY <1>4, <2>1 DEF InGroup, Relying, Unpublished
<1>7. ASSUME NEW w \in Workers, ExecEnd(w) PROVE ArtifactsKnown'
  <2>1. wk[w].pc = "exec" /\ UNCHANGED <<row, final, aged>>
    BY <1>7 DEF ExecEnd, At, store
  <2>2. PICK verdict \in Verdicts, result \in {"check", "reject", "error"} :
           wk' = [wk EXCEPT ![w].verdict = verdict,
                      ![w].exc = IF @ = "none" /\ verdict = "quiescent" /\ result = "error"
                                 THEN "error" ELSE @,
                      ![w].pc = IF wk[w].exc # "none" THEN "finally"
                                ELSE IF verdict # "quiescent" THEN "outstanding"
                                ELSE IF result = "error" THEN "finally" ELSE result]
    BY <1>7, Zenon DEF ExecEnd
  <2>3. /\ wk'[w].pc \in {"finally", "outstanding", "check", "reject"}
        /\ wk'[w].job = wk[w].job /\ OthersStay(w)
    BY <1>0, <2>2 DEF OthersStay, Processes
  <2> QED BY <1>4, <2>1, <2>3 DEF Relying, Unpublished
<1>8. ASSUME NEW w \in Workers, Except(w) PROVE ArtifactsKnown'
  <2>1. wk[w].pc = "except" /\ wk[w].job \in Jobs /\ UNCHANGED <<row, final, aged>>
    BY <1>0, <1>8 DEF Except, At, Resting, store
  <2>2. \/ wk[w].job \in final /\ Unwind(w, "revive", FALSE)
        \/ wk[w].job \notin final /\ Unwind(w, "giveup", FALSE)
        \/ Return(w)
    BY <1>8 DEF Except
  <2>3. /\ OthersStay(w)
        /\ \/ wk'[w].pc \notin Relying
           \/ wk'[w].pc = "revive" /\ wk'[w].job = wk[w].job /\ wk[w].job \in final
           \/ wk'[w].pc = "giveup" /\ wk'[w].job = wk[w].job /\ wk[w].job \notin final
    <3>1. CASE wk[w].job \in final /\ Unwind(w, "revive", FALSE)
      BY <3>1, ProcessMoves
    <3>2. CASE wk[w].job \notin final /\ Unwind(w, "giveup", FALSE)
      BY <3>2, ProcessMoves
    <3>3. CASE Return(w)
      BY <3>3, ProcessMoves DEF IdleWorker, Relying, Unpublished
    <3> QED BY <2>2, <3>1, <3>2, <3>3
  <2>4. wk'[w].job \in Jobs => Informed(wk'[w], row[wk'[w].job], final, w)
    BY <2>3 DEF Informed, Relying, Unpublished
  <2> QED BY <2>1, <2>3, <2>4, OwnThought
<1>9. ASSUME NEW w \in Workers, Look(w) PROVE ArtifactsKnown'
  <2>1. wk[w].pc = "look" /\ wk[w].job \in Jobs /\ UNCHANGED <<row, final, aged>>
    BY <1>0, <1>9 DEF Look, At, Resting, store
  <2>2. /\ OthersStay(w) /\ wk'[w].pc = "clean" /\ wk'[w].job = wk[w].job
        /\ wk'[w].found = (wk[w].job \in final)
    BY <1>0, <1>9 DEF Look, OthersStay, Processes
  <2>3. Doomed(row[wk[w].job])
    BY <1>0, <2>1 DEF Informed
  <2>4. Informed(wk'[w], row[wk'[w].job], final, w)
    BY <2>2, <2>3 DEF Informed, Unpublished
  <2> QED BY <2>1, <2>2, <2>4, OwnThought
<1>10. ASSUME NEW w \in Workers, Clean(w) PROVE ArtifactsKnown' /\ final' = final
  <2>1. /\ wk[w].pc = "clean" /\ wk[w].job \in Jobs /\ UNCHANGED <<row, aged>>
        /\ Goto(w, "settle")
    BY <1>0, <1>10 DEF Clean, At, Resting, store
  <2>2. Doomed(row[wk[w].job]) /\ (~wk[w].found => wk[w].job \notin final)
    BY <1>0, <2>1 DEF Informed
  <2>3. final' = final
    BY <1>10, <2>2 DEF Clean
  <2>4. /\ OthersStay(w) /\ wk'[w].pc = "settle" /\ wk'[w].job = wk[w].job
        /\ wk'[w].found = wk[w].found
    BY <2>1, ProcessMoves
  <2>5. Informed(wk'[w], row[wk'[w].job], final, w)
    BY <2>2, <2>4 DEF Informed, Unpublished
  <2> QED BY <2>1, <2>3, <2>4, <2>5, OwnThought
<1>11. ASSUME NEW w \in Workers, Late(w) \/ Finally(w) PROVE ArtifactsKnown'
  <2> DEFINE j == wk[w].job
  <2>1. j \in Jobs /\ UNCHANGED <<final, aged>>
    BY <1>0, <1>11 DEF Late, Finally, At, Resting
  <2>2. SetRow(j, AttestedRow(row[j], w)) \/ SetRow(j, row[j])
    BY <1>11, Zenon DEF Late, Finally
  <2>3. OthersStay(w) /\ wk'[w].pc \in {"loop", "except", "exiting"}
    <3>1. Return(w) \/ \E c \in {"except", "exiting"}, b \in BOOLEAN : Unwind(w, c, b)
      BY <1>0, <1>11 DEF Late, Finally, AfterFinally, Processes
    <3> QED BY <3>1, ProcessMoves DEF IdleWorker
  <2>4. AttestedRow(row[j], w).state = row[j].state
    BY <1>0, <2>1 DEF AttestedRow, Rows
  <2>5. /\ WorkerMove(j, w, AttestedRow(row[j], w))
        /\ ArtifactKept(j, AttestedRow(row[j], w), final, aged)
        /\ ArtifactKept(j, row[j], final, aged)
    BY <1>0, <2>1, <2>4 DEF WorkerMove, ArtifactKept
  <2>6. Filed(j, row[j], w, final') /\ \A i \in Jobs \ {j} : i \in final' <=> i \in final
    BY <2>1 DEF Filed
  <2> HIDE DEF j
  <2> QED BY <2>1, <2>2, <2>3, <2>5, <2>6, OwnWriting DEF Relying, Unpublished
<1>12. ASSUME NEW w \in Workers, Drop(w) \/ Reject(w) \/ Discard(w) \/ Giveup(w)
       PROVE  ArtifactsKnown'
  <2> DEFINE j == wk[w].job
  <2>1. /\ j \in Jobs /\ UNCHANGED <<final, aged>>
        /\ wk[w].pc \in {"drop", "reject", "discard", "giveup"}
    BY <1>0, <1>12 DEF Drop, Reject, Discard, Giveup, At, Resting
  <2>2. PICK b \in BOOLEAN : SetRow(j, FailedRow(j, w, b))
    BY <1>12 DEF Drop, Reject, Discard, Giveup
  <2>3. OthersStay(w) /\ wk'[w].pc \in {"loop", "finally"}
    <3>1. Return(w) \/ Goto(w, "finally")
      BY <1>12 DEF Drop, Reject, Discard, Giveup
    <3> QED BY <3>1, ProcessMoves DEF IdleWorker
  <2>4. WorkerMove(j, w, FailedRow(j, w, b))
    BY DEF WorkerMove
  <2>5. ArtifactKept(j, FailedRow(j, w, b), final, aged)
    <3>1. CASE ~HeldBy(row[j], w)
      BY <1>0, <2>1, <3>1 DEF FailedRow
    <3>2. CASE HeldBy(row[j], w)
      <4>1. j \notin final
        BY <1>0, <2>1, <3>2 DEF Informed, Unpublished, ArtifactKept
      <4>2. FailedRow(j, w, b).state \in {"queued", "cancelled", "failed"}
        BY <1>0, <2>1, <3>2 DEF FailedRow, Unowned, Rows
      <4> QED BY <4>1, <4>2 DEF ArtifactKept
    <3> QED BY <3>1, <3>2
  <2>6. Filed(j, row[j], w, final') /\ \A i \in Jobs \ {j} : i \in final' <=> i \in final
    BY <2>1 DEF Filed
  <2> HIDE DEF j
  <2> QED BY <2>1, <2>2, <2>3, <2>4, <2>5, <2>6, OwnWriting DEF Relying, Unpublished
<1>13. ASSUME NEW w \in Workers, MarkOutstanding(w) PROVE ArtifactsKnown'
  <2> DEFINE j == wk[w].job
             r == OutstandingRow(row[j], w)
  <2>1. /\ j \in Jobs /\ UNCHANGED <<final, aged>> /\ wk[w].pc = "outstanding"
        /\ SetRow(j, r) /\ Goto(w, "finally")
    BY <1>0, <1>13 DEF MarkOutstanding, At, Resting
  <2>2. OthersStay(w) /\ wk'[w].pc = "finally"
    BY <2>1, ProcessMoves
  <2>3. WorkerMove(j, w, r)
    BY DEF WorkerMove
  <2>4. ArtifactKept(j, r, final, aged)
    <3>1. CASE ~HeldBy(row[j], w)
      BY <1>0, <2>1, <3>1 DEF OutstandingRow
    <3>2. CASE HeldBy(row[j], w)
      <4>1. j \notin final
        BY <1>0, <2>1, <3>2 DEF Informed, Unpublished, ArtifactKept
      <4>2. r.state = "unknown"
        BY <1>0, <2>1, <3>2 DEF OutstandingRow, Unowned, Rows
      <4> QED BY <4>1, <4>2 DEF ArtifactKept
    <3> QED BY <3>1, <3>2
  <2>5. Filed(j, row[j], w, final') /\ \A i \in Jobs \ {j} : i \in final' <=> i \in final
    BY <2>1 DEF Filed
  <2> HIDE DEF j, r
  <2> QED BY <2>1, <2>2, <2>3, <2>4, <2>5, OwnWriting DEF Relying, Unpublished
<1>14. ASSUME NEW w \in Workers, Begin(w) PROVE ArtifactsKnown'
  <2> DEFINE j == wk[w].job
             r == IF MayBegin(row[j], w) THEN [row[j] EXCEPT !.state = "publishing"] ELSE row[j]
  <2>1. j \in Jobs /\ UNCHANGED <<final, aged>> /\ SetRow(j, r)
    BY <1>0, <1>14 DEF Begin, At, Resting
  <2>2. OthersStay(w) /\ wk'[w].pc \in {"publish", "finally"}
    <3>1. Goto(w, "publish") \/ Goto(w, "finally")
      BY <1>14 DEF Begin
    <3> QED BY <3>1, ProcessMoves
  <2>3. r = row[j] \/ WorkerMove(j, w, r)
    BY DEF WorkerMove
  <2>4. ArtifactKept(j, r, final, aged)
    BY <1>0, <2>1 DEF ArtifactKept, MayBegin, Rows
  <2>5. Filed(j, row[j], w, final') /\ \A i \in Jobs \ {j} : i \in final' <=> i \in final
    BY <2>1 DEF Filed
  <2> HIDE DEF j, r
  <2> QED BY <2>1, <2>2, <2>3, <2>4, <2>5, OwnWriting DEF Relying, Unpublished
<1>15. ASSUME NEW w \in Workers, Publish(w) \/ Revive(w) PROVE ArtifactsKnown'
  <2> DEFINE j == wk[w].job
             r == CompletedRow(row[j], w)
  <2>1. /\ j \in Jobs /\ UNCHANGED aged /\ SetRow(j, r)
        /\ MayComplete(row[j], w) => final' = final \cup {j}
        /\ ~MayComplete(row[j], w) => final' = final
    <3>1. CASE Publish(w)
      BY <1>0, <3>1 DEF Publish, At, Resting
    <3>2. CASE Revive(w)
      <4>1. j \in Jobs /\ UNCHANGED <<final, aged>> /\ SetRow(j, r) /\ wk[w].pc = "revive"
        BY <1>0, <3>2 DEF Revive, At, Resting
      <4>2. MayComplete(row[j], w) => j \in final
        BY <1>0, <4>1 DEF Informed, MayComplete
      <4> QED BY <4>1, <4>2
    <3> QED BY <1>15, <3>1, <3>2
  <2>2. OthersStay(w) /\ wk'[w].pc \in {"loop", "finally"}
    <3>1. Return(w) \/ Goto(w, "finally")
      BY <1>15 DEF Publish, Revive
    <3> QED BY <3>1, ProcessMoves DEF IdleWorker
  <2>3. WorkerMove(j, w, r)
    BY DEF WorkerMove
  <2>4. ArtifactKept(j, r, final', aged)
    BY <1>0, <2>1 DEF ArtifactKept, CompletedRow, Unowned, Rows
  <2>5. Filed(j, row[j], w, final') /\ \A i \in Jobs \ {j} : i \in final' <=> i \in final
    BY <2>1 DEF Filed
  <2> HIDE DEF j, r
  <2> QED BY <2>1, <2>2, <2>3, <2>4, <2>5, OwnWriting DEF Relying, Unpublished
<1>16. ASSUME NEW w \in Workers, PublishFails(w) \/ CrashInPublish(w) PROVE ArtifactsKnown'
  <2> DEFINE j == wk[w].job
  <2>1. /\ j \in Jobs /\ UNCHANGED <<row, aged>>
        /\ MayComplete(row[j], w) /\ final' = final \cup {j}
    BY <1>0, <1>16 DEF PublishFails, CrashInPublish, At, Resting, store
  <2>2. OthersStay(w) /\ wk'[w].pc \in {"finally", "dead"}
    <3>1. CASE PublishFails(w)
      BY <3>1, ProcessMoves DEF PublishFails
    <3>2. CASE CrashInPublish(w)
      BY <1>0, <3>2 DEF CrashInPublish, Die, OthersStay, IdleWorker
    <3> QED BY <1>16, <3>1, <3>2
  <2>3. SetRow(j, row[j])
    BY <1>0, <2>1 DEF SetRow
  <2>4. ArtifactKept(j, row[j], final', aged)
    BY <1>0, <2>1 DEF ArtifactKept, MayComplete
  <2>5. Filed(j, row[j], w, final') /\ \A i \in Jobs \ {j} : i \in final' <=> i \in final
    BY <2>1 DEF Filed
  <2> HIDE DEF j
  <2> QED BY <2>1, <2>2, <2>3, <2>4, <2>5, OwnWriting DEF Relying, Unpublished
<1>17. ASSUME NEW w \in Workers, NEW j \in Jobs, Claim(w, j) PROVE ArtifactsKnown'
  <2> DEFINE r == ClaimedRow(row[j], w)
  <2>1. /\ UNCHANGED <<final, aged>> /\ SetRow(j, r) /\ row[j].state = "queued"
        /\ WorkerMove(j, w, r)
    BY <1>17 DEF Claim, NextToRun, Queued, WorkerMove
  <2>2. OthersStay(w) /\ wk'[w].pc = "gate" /\ wk'[w].job = j
    BY <1>0, <1>17 DEF Claim, OthersStay, Processes
  <2>3. r.state = "running"
    BY <1>0 DEF ClaimedRow, Rows
  <2>4. ArtifactKept(j, r, final, aged)
    BY <1>0, <2>1, <2>3 DEF ArtifactKept
  <2>5. Informed(wk'[w], r, final, w)
    BY <2>2, <2>3 DEF Informed
  <2>6. Filed(j, row[j], w, final') /\ \A i \in Jobs \ {j} : i \in final' <=> i \in final
    BY <2>1 DEF Filed
  <2> HIDE DEF r
  <2> QED BY <2>1, <2>2, <2>4, <2>5, <2>6, OwnWriting
<1>18. ASSUME NEW w \in Workers, NEW j \in Jobs, Fence(w, j) PROVE ArtifactsKnown'
  <2> DEFINE r == FencedRow(row[j], w)
  <2>1. UNCHANGED <<final, aged>> /\ SetRow(j, r) /\ WorkerMove(j, w, r) /\ Leased(row[j])
    BY <1>18 DEF Fence, FencedRow, WorkerMove
  <2>2. OthersStay(w) /\ wk'[w].pc = "look" /\ wk'[w].job = j
    BY <1>0, <1>18 DEF Fence, OthersStay, Processes
  <2>3. r.state = row[j].state /\ Doomed(r)
    BY <1>0, <2>1 DEF FencedRow, Doomed, Leased, Rows
  <2>4. ArtifactKept(j, r, final, aged)
    BY <1>0, <2>3 DEF ArtifactKept
  <2>5. Informed(wk'[w], r, final, w)
    BY <2>2, <2>3 DEF Informed, Unpublished
  <2>6. Filed(j, row[j], w, final') /\ \A i \in Jobs \ {j} : i \in final' <=> i \in final
    BY <2>1 DEF Filed
  <2> HIDE DEF r
  <2> QED BY <2>1, <2>2, <2>4, <2>5, <2>6, OwnWriting
<1>19. ASSUME NEW w \in Workers, NEW j \in Jobs, PurgeFiles(w, j) PROVE ArtifactsKnown'
  <2>1. /\ UNCHANGED <<row, aged>> /\ j \in aged /\ Deletable(row[j])
        /\ row[j].state = "completed" => final' = final \ {j}
        /\ row[j].state # "completed" => final' = final
    BY <1>19 DEF PurgeFiles, store
  <2>2. OthersStay(w) /\ wk'[w].pc = "purge" /\ wk'[w].job = j
    BY <1>0, <1>19 DEF PurgeFiles, OthersStay, Processes
  <2>3. SetRow(j, row[j])
    BY <1>0, <2>1 DEF SetRow
  <2>4. Ended(row[j]) /\ j \notin final'
    BY <1>0, <2>1 DEF Deletable, Ended, EndStates, ArtifactKept
  <2>5. ArtifactKept(j, row[j], final', aged) /\ Informed(wk'[w], row[j], final', w)
    BY <2>1, <2>2, <2>4 DEF ArtifactKept, Informed, Unpublished
  <2>6. Filed(j, row[j], w, final') /\ \A i \in Jobs \ {j} : i \in final' <=> i \in final
    BY <2>1 DEF Filed
  <2> QED BY <2>1, <2>2, <2>3, <2>5, <2>6, OwnWriting
<1>20. ASSUME NEW w \in Workers, Settle(w) PROVE ArtifactsKnown'
  <2> DEFINE j == wk[w].job
             b == wk[w].found /\ j \in final
             r == RecoveredRow(row[j], w, b)
  <2>1. /\ j \in Jobs /\ UNCHANGED <<final, aged>> /\ wk[w].pc = "settle"
        /\ SetRow(j, r) /\ Return(w) /\ b \in BOOLEAN
    BY <1>0, <1>20 DEF Settle, At, Resting
  <2>2. OthersStay(w) /\ wk'[w].pc = "loop"
    BY <2>1, ProcessMoves DEF IdleWorker
  <2>3. WorkerMove(j, w, r)
    BY <2>1 DEF WorkerMove
  <2>4. ArtifactKept(j, r, final, aged)
    <3>1. CASE ~FencedBy(row[j], w)
      BY <1>0, <2>1, <3>1 DEF RecoveredRow
    <3>2. CASE FencedBy(row[j], w) /\ row[j].state = "publishing" /\ b
      BY <1>0, <2>1, <3>2 DEF RecoveredRow, Unowned, Rows, ArtifactKept
    <3>3. CASE FencedBy(row[j], w) /\ ~(row[j].state = "publishing" /\ b)
      <4>1. ~wk[w].found => j \notin final
        BY <1>0, <2>1 DEF Informed
      <4>2. row[j].state = "running" \/ row[j].state = "publishing"
        BY <3>3 DEF FencedBy, Leased, LeasedStates
      <4>3. j \notin final
        BY <1>0, <2>1, <3>3, <4>1, <4>2 DEF ArtifactKept
      <4>4. r.state = "unknown"
        BY <1>0, <2>1, <3>3 DEF RecoveredRow, Unowned, Rows
      <4> QED BY <4>3, <4>4 DEF ArtifactKept
    <3> QED BY <3>1, <3>2, <3>3
  <2>5. Filed(j, row[j], w, final') /\ \A i \in Jobs \ {j} : i \in final' <=> i \in final
    BY <2>1 DEF Filed
  <2> HIDE DEF j, b, r
  <2> QED BY <2>1, <2>2, <2>3, <2>4, <2>5, OwnWriting DEF Relying, Unpublished
<1>21. ASSUME NEW w \in Workers, PurgeRow(w) PROVE ArtifactsKnown'
  <2> DEFINE j == wk[w].job
             r == IF Deletable(row[j]) THEN [AbsentRow EXCEPT !.state = "deleted"] ELSE row[j]
  <2>1. /\ j \in Jobs /\ UNCHANGED <<final, aged>> /\ wk[w].pc = "purge"
        /\ SetRow(j, r) /\ Return(w)
    BY <1>0, <1>21 DEF PurgeRow, At, Resting
  <2>2. OthersStay(w) /\ wk'[w].pc = "loop"
    BY <2>1, ProcessMoves DEF IdleWorker
  <2>3. r = row[j] \/ WorkerMove(j, w, r)
    BY DEF WorkerMove
  <2>4. ArtifactKept(j, r, final, aged)
    <3>1. j \notin final
      BY <1>0, <2>1 DEF Informed
    <3>2. r = row[j] \/ r.state = "deleted"
      BY DEF AbsentRow
    <3> QED BY <1>0, <2>1, <3>1, <3>2 DEF ArtifactKept
  <2>5. Filed(j, row[j], w, final') /\ \A i \in Jobs \ {j} : i \in final' <=> i \in final
    BY <2>1 DEF Filed
  <2> HIDE DEF j, r
  <2> QED BY <2>1, <2>2, <2>3, <2>4, <2>5, OwnWriting DEF Relying, Unpublished
<1>22. ASSUME NEW w \in Workers, NEW j \in Jobs, AttestLeak(w, j) PROVE ArtifactsKnown'
  <2> DEFINE r == AttestedRow(row[j], w)
  <2>1. /\ UNCHANGED <<final, aged, wk>> /\ SetRow(j, r) /\ WorkerMove(j, w, r)
    BY <1>22 DEF AttestLeak, WorkerMove
  <2>2. r.state = row[j].state /\ r.owner = row[j].owner /\ r.fenced = row[j].fenced
    BY <1>0 DEF AttestedRow, Rows
  <2>3. ArtifactKept(j, r, final, aged)
    BY <1>0, <2>2 DEF ArtifactKept
  <2>4. row'[j] = r /\ \A i \in Jobs \ {j} : row'[i] = row[i]
    BY <2>1, RowWritten
  <2> HIDE DEF r
  <2>5. wk[w].job \in Jobs => Informed(wk[w], row'[wk[w].job], final, w)
    <3>1. CASE wk[w].job = j
      BY <1>0, <2>2, <2>4, <3>1 DEF Informed, HeldBy, Doomed, Ended, Leased
    <3>2. CASE wk[w].job # j
      BY <1>0, <2>4, <3>2
    <3> QED BY <3>1, <3>2
  <2>6. ASSUME NEW i \in Jobs
        PROVE  /\ row'[i] = row[i] \/ WorkerMove(i, w, row'[i])
               /\ Filed(i, row[i], w, final')
               /\ ArtifactKept(i, row'[i], final', aged)
    BY <1>0, <2>1, <2>3, <2>4 DEF Filed
  <2>7. OthersStay(w)
    BY <2>1 DEF OthersStay
  <2> QED BY <2>1, <2>5, <2>6, <2>7, OwnFiling
<1>23. ASSUME NEW w \in Workers, Failure(w) \/ Exit(w) PROVE ArtifactsKnown'
  <2>1. ASSUME NEW e, wk[w].pc \in InGroup, Interrupt(w, e), UNCHANGED <<row, final, aged>>
        PROVE  ArtifactsKnown'
    <3>1. CASE At(w, "exec")
      <4>1. /\ OthersStay(w) /\ wk'[w].pc = "exec" /\ wk'[w].job = wk[w].job
            /\ wk[w].pc = "exec"
        BY <1>0, <2>1, <3>1 DEF Interrupt, At, OthersStay, Processes
      <4> QED BY <1>4, <2>1, <4>1 DEF Unpublished
    <3>2. CASE ~At(w, "exec")
      <4>1. OthersStay(w) /\ wk'[w].pc = "finally"
        BY <2>1, <3>2, ProcessMoves DEF Interrupt
      <4> QED BY <1>4, <2>1, <4>1 DEF Relying, Unpublished
    <3> QED BY <3>1, <3>2
  <2>2. CASE HeartbeatFails(w)
    BY <2>1, <2>2 DEF HeartbeatFails, store
  <2>3. CASE StoreFails(w)
    <3>1. OthersStay(w) /\ wk'[w].pc = "finally" /\ UNCHANGED <<row, final, aged>>
      BY <2>3, ProcessMoves DEF StoreFails, store
    <3> QED BY <1>4, <3>1 DEF Relying, Unpublished
  <2>4. CASE AttestFails(w)
    <3>1. \E c \in {"exiting", "except"} : \E b : Unwind(w, c, b)
      BY <2>4 DEF AttestFails
    <3>2. OthersStay(w) /\ wk'[w].pc \in {"exiting", "except"} /\ UNCHANGED <<row, final, aged>>
      BY <2>4, <3>1, ProcessMoves DEF AttestFails, store
    <3> QED BY <1>4, <3>2 DEF Relying, Unpublished
  <2>5. CASE Stop(w)
    <3>1. CASE wk[w].pc \in InGroup /\ Interrupt(w, "stop")
      BY <2>1, <2>5, <3>1 DEF Stop, store
    <3>2. CASE Unwind(w, "exiting", FALSE)
      <4>1. OthersStay(w) /\ wk'[w].pc = "exiting" /\ UNCHANGED <<row, final, aged>>
        BY <2>5, <3>2, ProcessMoves DEF Stop, store
      <4> QED BY <1>4, <4>1 DEF Relying, Unpublished
    <3> QED BY <2>5, <3>1, <3>2 DEF Stop
  <2>6. CASE Exit(w) \/ Crash(w)
    <3>1. OthersStay(w) /\ wk'[w].pc = "dead" /\ UNCHANGED <<row, final, aged>>
      BY <1>0, <2>6 DEF Exit, Crash, Die, OthersStay, IdleWorker, store
    <3> QED BY <1>4, <3>1 DEF Relying, Unpublished
  <2> QED BY <1>16, <1>23, <2>2, <2>3, <2>4, <2>5, <2>6 DEF Failure
<1>24. ASSUME NEW w \in Workers, NEW j \in Jobs, LeakEnds(w, j) \/ AttestLeakFails(w, j)
       PROVE  ArtifactsKnown'
  <2>1. UNCHANGED <<row, final, aged, wk>>
    BY <1>24 DEF LeakEnds, AttestLeakFails, store
  <2> QED BY <1>1, <2>1
<1>25. CASE Client
  BY <1>2, <1>3, <1>25 DEF Client
<1>26. ASSUME NEW w \in Workers,
              Pick(w) \/ Proceed(w) \/ ExecEnd(w) \/ LoseLease(w) \/ Leaked(w) \/ Failure(w)
       PROVE  ArtifactsKnown'
  <2>1. CASE Pick(w)
    BY <1>17, <1>18, <1>19, <2>1 DEF Pick
  <2>2. CASE Proceed(w)
    BY <1>5, <1>8, <1>9, <1>10, <1>11, <1>12, <1>13, <1>14, <1>15, <1>20, <1>21, <1>23, <2>2
       DEF Proceed
  <2>3. CASE Leaked(w)
    BY <1>22, <1>24, <2>3 DEF Leaked
  <2> QED BY <1>6, <1>7, <1>23, <1>26, <2>1, <2>2, <2>3
<1> QED BY <1>1, <1>25, <1>26 DEF Next, vars

\* The artifacts and what each worker relies on: the inductive invariant, with failures.
THEOREM ArtifactsAlwaysKnown == Spec => []ArtifactsKnown
<1>1. Init => ArtifactsKnown
  <2> SUFFICES ASSUME Init PROVE ArtifactsKnown
    OBVIOUS
  <2>1. /\ \A j \in Jobs : row[j] = AbsentRow
        /\ \A w \in Workers : wk[w].job = NoJob
        /\ final = {}
    BY DEF Init, IdleWorker
  <2> QED BY <2>1, JobsAssumption
      DEF ArtifactsKnown, RowsKept, AllInformed, ArtifactKept, AbsentRow
<1>2. Typed /\ OwnersKnown /\ CancelledNeverPublished /\ ArtifactsKnown /\ [Next]_vars
         => ArtifactsKnown'
  BY FilingStep
<1> QED BY <1>1, <1>2, TypedAlways, OwnersAlwaysKnown, CancellationHonoured, PTL DEF Spec

\* A job that reads as completed has its artifact until retention, and an artifact that
\* reached the final directory, whatever failed after os.replace, belongs to a job that is
\* completed or still publishing: fail_attempt, recover and mark_unknown_outstanding never
\* end such a job otherwise, and recovery never removes its directory.
THEOREM ArtifactsMatch == Spec => []ArtifactMatchesRow
<1>1. ArtifactsKnown => ArtifactMatchesRow
  BY DEF ArtifactsKnown, RowsKept, ArtifactKept, ArtifactMatchesRow
<1> QED BY <1>1, ArtifactsAlwaysKnown, PTL

-----------------------------------------------------------------------------
(* Slots that wait for an attestation.                                      *)

\* The row r waits for w to attest that its work has ended.
Owes(r, w) ==
    /\ ~r.quiesced
    /\ \/ r.state = "unknown" /\ r.unproven = w
       \/ Leased(r) /\ r.fenced /\ r.unproven = w
       \/ HeldBy(r, w)

\* The process p, with work l of job j left behind, is on its way to the attestation, or
\* leaves, or the work is reported for good.
Settles(p, l, j) ==
    \/ l # "none"
    \/ p.pc \in {"exiting", "dead"}
    \/ p.job = j /\ p.pc \in InGroup \cup {"gate", "late"}
    \/ p.job = j /\ p.pc = "finally" /\ (p.verdict = "quiescent" \/ p.exc = "stop")

Answered(p, l, r, w, j) == Owes(r, w) => r.cancel \/ Settles(p, l, j)

\* Only an attempt that saw its executor end carries a verdict.
Assessed(p) == p.pc \notin {"outstanding", "finally"} => p.verdict = "quiescent"

AllAnswered ==
    /\ \A w \in Workers : Assessed(wk[w])
    /\ \A w \in Workers, j \in Jobs : Answered(wk[w], leak[w][j], row[j], w, j)

\* Only claim and mark_unknown_outstanding make a row wait for a worker, and only for the
\* one that calls them; no method takes a cancellation back from a row that waits.
LEMMA DebtKept ==
    ASSUME NEW j \in Jobs, row[j] \in Rows, OwnerKnown(row[j]), NEW r,
           NEW w \in Workers, NEW v \in Workers,
           ClientMove(j, r) \/ WorkerMove(j, v, r), Owes(r, w),
           v = w => r # ClaimedRow(row[j], w) /\ r # OutstandingRow(row[j], w)
    PROVE  Owes(row[j], w) /\ (row[j].cancel => r.cancel)
<1> DEFINE q == row[j]
           Goal == Owes(q, w) /\ (q.cancel => r.cancel)
<1> USE DEF OwnerKnown, Owes, HeldBy, Leased, LeasedStates, EndStates
<1>1. CASE ClientMove(j, r)
  BY <1>1 DEF ClientMove, AbsentRow, Rows
<1>2. CASE NextToRun(j) /\ r = ClaimedRow(q, v)
  BY <1>2, JobsAssumption DEF ClaimedRow, Rows
<1>3. CASE r = AttestedRow(q, v)
  BY <1>3 DEF AttestedRow, MayAttest, Rows
<1>4. ASSUME NEW b \in BOOLEAN, r = FailedRow(j, v, b) PROVE Goal
  BY <1>4, JobsAssumption DEF FailedRow, Unowned, Rows
<1>5. CASE r = OutstandingRow(q, v)
  BY <1>5 DEF OutstandingRow, Unowned, Rows
<1>6. CASE MayBegin(q, v) /\ r = [q EXCEPT !.state = "publishing"]
  BY <1>6 DEF MayBegin, Rows
<1>7. CASE r = CompletedRow(q, v)
  BY <1>7, JobsAssumption DEF CompletedRow, MayComplete, Unowned, Rows
<1>8. CASE Leased(q) /\ r = FencedRow(q, v)
  BY <1>8, JobsAssumption DEF FencedRow, Rows
<1>9. ASSUME NEW b \in BOOLEAN, r = RecoveredRow(q, v, b) PROVE Goal
  BY <1>9, JobsAssumption DEF RecoveredRow, Unowned, Rows, FencedBy
<1>10. CASE Deletable(q) /\ r = [AbsentRow EXCEPT !.state = "deleted"]
  BY <1>10 DEF Deletable, AbsentRow, Rows
<1> HIDE DEF OwnerKnown, Owes, HeldBy, Leased, LeasedStates, EndStates
<1> QED BY <1>1, <1>2, <1>3, <1>4, <1>5, <1>6, <1>7, <1>8, <1>9, <1>10 DEF WorkerMove

\* What a worker has attested does not wait for it.
LEMMA AttestPays ==
    ASSUME NEW r \in Rows, NEW w
    PROVE  ~Owes(AttestedRow(r, w), w)
BY DEF Owes, AttestedRow, MayAttest, HeldBy, Leased, Rows

\* A process that is not on its way settles only what it reported, or by leaving.
LEMMA OnlyReported ==
    ASSUME NEW p, NEW l, NEW j, Settles(p, l, j),
           p.pc \notin InGroup \cup {"gate", "late", "exiting", "dead"},
           p.pc = "finally" => p.verdict # "quiescent" /\ p.exc # "stop"
    PROVE  l # "none"
BY DEF Settles

\* A step of w that writes at most the row of j keeps the invariant if it does for w and j.
LEMMA OwnAnswer ==
    ASSUME Typed, OwnersKnown, AllAnswered, NEW w \in Workers, OthersStay(w),
           \A v \in Workers \ {w} : leak'[v] = leak[v],
           NEW j \in Jobs, NEW r, SetRow(j, r), r = row[j] \/ WorkerMove(j, w, r),
           \A i \in Jobs \ {j} : leak[w][i] # "none" => leak'[w][i] # "none",
           wk[w].pc \in {"exiting", "dead"} => wk'[w].pc \in {"exiting", "dead"},
           wk[w].job = j \/ wk[w].pc \notin InGroup \cup {"gate", "late", "finally"},
           Assessed(wk'[w]), Answered(wk'[w], leak'[w][j], r, w, j)
    PROVE  AllAnswered'
<1>0. /\ \A i \in Jobs : row[i] \in Rows /\ OwnerKnown(row[i])
      /\ \A v \in Workers : Assessed(wk[v])
      /\ \A v \in Workers, i \in Jobs : Answered(wk[v], leak[v][i], row[i], v, i)
  BY DEF Typed, TypeOK, OwnersKnown, AllAnswered
<1>1. row'[j] = r /\ \A i \in Jobs \ {j} : row'[i] = row[i]
  BY RowWritten
<1>2. \A v \in Workers : Assessed(wk'[v])
  BY <1>0 DEF OthersStay
<1>3. ASSUME NEW v \in Workers, NEW i \in Jobs
      PROVE  Answered(wk'[v], leak'[v][i], row'[i], v, i)
  <2>0. Answered(wk[v], leak[v][i], row[i], v, i)
    BY <1>0
  <2>1. CASE v = w /\ i = j
    BY <1>1, <2>1
  <2>2. CASE v = w /\ i # j
    <3>1. Settles(wk[w], leak[w][i], i) => Settles(wk'[w], leak'[w][i], i)
      BY <2>2 DEF Settles
    <3> QED BY <1>1, <2>0, <2>2, <3>1 DEF Answered
  <2>3. CASE v # w /\ i # j
    BY <1>1, <2>0, <2>3 DEF OthersStay
  <2>4. CASE v # w /\ i = j
    <3>1. wk'[v] = wk[v] /\ leak'[v] = leak[v]
      BY <2>4 DEF OthersStay
    <3>2. Owes(r, v) => Owes(row[j], v) /\ (row[j].cancel => r.cancel)
      BY <1>0, <2>4, DebtKept
    <3> QED BY <1>1, <2>0, <2>4, <3>1, <3>2 DEF Answered
  <2> QED BY <2>1, <2>2, <2>3, <2>4
<1> QED BY <1>2, <1>3 DEF AllAnswered, Assessed, Answered, Owes, Settles, HeldBy, Leased

\* A step of w that writes no row.
LEMMA OwnQuiet ==
    ASSUME Typed, OwnersKnown, AllAnswered, NEW w \in Workers, OthersStay(w), UNCHANGED row,
           \A v \in Workers \ {w} : leak'[v] = leak[v],
           \A j \in Jobs : Settles(wk[w], leak[w][j], j) => Settles(wk'[w], leak'[w][j], j),
           Assessed(wk'[w])
    PROVE  AllAnswered'
<1>1. \A v \in Workers : Assessed(wk'[v])
  BY DEF AllAnswered, OthersStay
<1>2. ASSUME NEW v \in Workers, NEW j \in Jobs
      PROVE  Answered(wk'[v], leak'[v][j], row'[j], v, j)
  <2>1. Answered(wk[v], leak[v][j], row[j], v, j)
    BY DEF AllAnswered
  <2> QED BY <2>1 DEF Answered, OthersStay
<1> QED BY <1>1, <1>2 DEF AllAnswered, Assessed, Answered, Owes, Settles, HeldBy, Leased

\* A step of w, not on its way to an attestation of j, that neither claims nor reports.
LEMMA OwnAside ==
    ASSUME Typed, OwnersKnown, AllAnswered, NEW w \in Workers, OthersStay(w), UNCHANGED leak,
           NEW j \in Jobs, NEW r, SetRow(j, r),
           \/ r = row[j]
           \/ /\ WorkerMove(j, w, r)
              /\ r # ClaimedRow(row[j], w) /\ r # OutstandingRow(row[j], w),
           wk[w].pc \notin InGroup \cup {"gate", "late", "finally", "exiting", "dead"},
           wk'[w].verdict = "quiescent"
    PROVE  AllAnswered'
<1>1. row[j] \in Rows /\ OwnerKnown(row[j])
  BY DEF Typed, TypeOK, OwnersKnown
<1>2. Owes(r, w) => Owes(row[j], w) /\ (row[j].cancel => r.cancel)
  BY <1>1, DebtKept
<1>3. Answered(wk[w], leak[w][j], row[j], w, j)
  BY DEF AllAnswered
<1>4. Settles(wk[w], leak[w][j], j) => leak'[w][j] # "none"
  BY OnlyReported
<1>5. Answered(wk'[w], leak'[w][j], r, w, j)
  BY <1>2, <1>3, <1>4 DEF Answered, Settles
<1>6. Assessed(wk'[w])
  BY DEF Assessed
<1> QED BY <1>5, <1>6, OwnAnswer

\* Every step without a failing operation keeps the invariant: one case per action.
LEMMA AnsweredStep ==
    ASSUME Typed, OwnersKnown, AllGuarded, AllAnswered, [Next]_vars, faults' = 0, faults = 0
    PROVE  AllAnswered'
<1>0. /\ wk \in [Workers -> Processes] /\ leak \in [Workers -> [Jobs -> LeakStates]]
      /\ row \in [Jobs -> Rows]
      /\ \A j \in Jobs : row[j] \in Rows /\ OwnerKnown(row[j])
      /\ \A w \in Workers : wk[w] \in Processes
      /\ \A w \in Workers : wk[w].pc \notin Resting => wk[w].job \in Jobs
      /\ \A w \in Workers : Consistent(wk[w]) /\ Assessed(wk[w])
      /\ \A w \in Workers, j \in Jobs : /\ Answered(wk[w], leak[w][j], row[j], w, j)
                                        /\ Guarded(wk[w], leak[w][j], row[j], w, j)
      /\ \A j \in Jobs : SetRow(j, row[j]) <=> row' = row
  BY DEF Typed, TypeOK, BusyHaveJobs, OwnersKnown, AllGuarded, AllAnswered, SetRow
<1>1. CASE UNCHANGED <<row, wk, leak>>
  BY <1>1 DEF AllAnswered, Assessed, Answered, Owes, Settles, HeldBy, Leased
<1>2. ASSUME NEW j \in Jobs, Submit(j) \/ Cancel(j) PROVE AllAnswered'
  <2>1. UNCHANGED <<wk, leak>>
    BY <1>2 DEF Submit, Cancel
  <2>2. PICK r : ClientMove(j, r) /\ SetRow(j, r)
    BY <1>2 DEF Submit, Cancel, ClientMove
  <2>3. row'[j] = r /\ \A i \in Jobs \ {j} : row'[i] = row[i]
    BY <2>2, RowWritten
  <2>4. ASSUME NEW w \in Workers PROVE Answered(wk[w], leak[w][j], r, w, j)
    <3>1. \/ r # ClaimedRow(row[j], w) /\ r # OutstandingRow(row[j], w)
          \/ ~Owes(r, w)
          \/ Owes(row[j], w) /\ (row[j].cancel => r.cancel)
      BY <1>0, <2>2 DEF ClientMove, AbsentRow, Rows, Owes, HeldBy, Leased, LeasedStates
    <3>2. Owes(r, w) => Owes(row[j], w) /\ (row[j].cancel => r.cancel)
      BY <1>0, <2>2, <3>1, DebtKept
    <3> QED BY <1>0, <3>2 DEF Answered
  <2>5. ASSUME NEW w \in Workers, NEW i \in Jobs
        PROVE  Answered(wk'[w], leak'[w][i], row'[i], w, i)
    BY <1>0, <2>1, <2>3, <2>4
  <2>6. \A w \in Workers : Assessed(wk'[w])
    BY <1>0, <2>1
  <2> QED BY <2>5, <2>6 DEF AllAnswered, Assessed, Answered, Owes, Settles, HeldBy, Leased
<1>3. ASSUME NEW w \in Workers, NEW j \in Jobs, Claim(w, j) PROVE AllAnswered'
  <2> DEFINE r == ClaimedRow(row[j], w)
  <2>1. /\ UNCHANGED leak /\ SetRow(j, r) /\ WorkerMove(j, w, r) /\ wk[w].pc = "loop"
    BY <1>3 DEF Claim, At, WorkerMove
  <2>2. /\ OthersStay(w) /\ wk'[w].pc = "gate" /\ wk'[w].job = j
        /\ wk'[w].verdict = wk[w].verdict
    BY <1>0, <1>3 DEF Claim, OthersStay, Processes
  <2>3. Assessed(wk'[w]) /\ Answered(wk'[w], leak'[w][j], r, w, j)
    BY <1>0, <2>1, <2>2 DEF Assessed, Answered, Settles
  <2> HIDE DEF r
  <2> QED BY <2>1, <2>2, <2>3, OwnAnswer DEF InGroup
<1>4. ASSUME NEW w \in Workers, NEW j \in Jobs, Fence(w, j) PROVE AllAnswered'
  <2> DEFINE r == FencedRow(row[j], w)
  <2>1. /\ UNCHANGED leak /\ SetRow(j, r) /\ WorkerMove(j, w, r) /\ wk[w].pc = "loop"
        /\ Leased(row[j])
    BY <1>4 DEF Fence, FencedRow, At, WorkerMove
  <2>2. OthersStay(w) /\ wk'[w].verdict = wk[w].verdict
    BY <1>0, <1>4 DEF Fence, OthersStay, Processes
  <2>3. r = row[j] \/ (r # ClaimedRow(row[j], w) /\ r # OutstandingRow(row[j], w))
    <3>1. r.fenced /\ r.state = row[j].state
      BY <1>0, <2>1 DEF FencedRow, Rows
    <3>2. ~ClaimedRow(row[j], w).fenced
      BY <1>0 DEF ClaimedRow, Rows
    <3>3. \/ OutstandingRow(row[j], w) = row[j]
          \/ OutstandingRow(row[j], w).state = "unknown"
      BY <1>0 DEF OutstandingRow, Unowned, Rows
    <3>4. row[j].state # "unknown"
      BY <2>1 DEF Leased, LeasedStates
    <3> QED BY <3>1, <3>2, <3>3, <3>4
  <2>4. wk'[w].verdict = "quiescent"
    BY <1>0, <2>1, <2>2 DEF Assessed
  <2> HIDE DEF r
  <2> QED BY <2>1, <2>2, <2>3, <2>4, OwnAside DEF InGroup
<1>5. ASSUME NEW w \in Workers, NEW j \in Jobs, PurgeFiles(w, j) PROVE AllAnswered'
  <2>1. UNCHANGED <<leak, row>> /\ wk[w].pc = "loop"
    BY <1>5 DEF PurgeFiles, At, store
  <2>2. OthersStay(w) /\ wk'[w].verdict = wk[w].verdict
    BY <1>0, <1>5 DEF PurgeFiles, OthersStay, Processes
  <2>3. wk'[w].verdict = "quiescent"
    BY <1>0, <2>1, <2>2 DEF Assessed
  <2> QED BY <1>0, <2>1, <2>2, <2>3, OwnAside DEF InGroup
<1>6. ASSUME NEW w \in Workers, Gate(w) PROVE AllAnswered'
  <2> DEFINE j == wk[w].job
  <2>1. /\ j \in Jobs /\ UNCHANGED <<leak, row>> /\ wk[w].pc = "gate"
        /\ \/ Goto(w, "late") \/ Goto(w, "exec")
           \/ Goto(w, "drop") /\ row[j].cancel
    BY <1>0, <1>6 DEF Gate, At, store, Resting
  <2>2. /\ OthersStay(w) /\ wk'[w].pc \in {"late", "exec", "drop"} /\ wk'[w].job = j
        /\ wk'[w].pc = "drop" => row[j].cancel
        /\ wk'[w].verdict = wk[w].verdict
    BY <2>1, ProcessMoves
  <2>3. Assessed(wk'[w]) /\ Answered(wk'[w], leak'[w][j], row[j], w, j)
    BY <1>0, <2>1, <2>2 DEF Assessed, Answered, Settles, InGroup
  <2> QED BY <1>0, <2>1, <2>2, <2>3, OwnAnswer
<1>7. ASSUME NEW w \in Workers, Late(w) PROVE AllAnswered'
  <2> DEFINE j == wk[w].job
             r == AttestedRow(row[j], w)
  <2>1. j \in Jobs /\ UNCHANGED leak /\ wk[w].pc = "late" /\ SetRow(j, r) /\ Return(w)
    BY <1>0, <1>7 DEF Late, At, Resting
  <2>2. OthersStay(w) /\ wk'[w] = IdleWorker
    BY <2>1, ProcessMoves
  <2>3. Assessed(wk'[w]) /\ Answered(wk'[w], leak'[w][j], r, w, j)
    BY <1>0, <2>1, <2>2, AttestPays DEF Assessed, Answered, IdleWorker
  <2>4. WorkerMove(j, w, r)
    BY DEF WorkerMove
  <2> HIDE DEF r
  <2> QED BY <2>1, <2>2, <2>3, <2>4, OwnAnswer
<1>8. ASSUME NEW w \in Workers, Drop(w) \/ Revive(w) \/ Giveup(w) \/ Settle(w) \/ PurgeRow(w)
      PROVE  AllAnswered'
  <2> DEFINE j == wk[w].job
  <2>1. /\ j \in Jobs /\ UNCHANGED leak /\ Return(w)
        /\ wk[w].pc \in {"drop", "revive", "giveup", "settle", "purge"}
    BY <1>0, <1>8 DEF Drop, Revive, Giveup, Settle, PurgeRow, At, Resting
  <2>2. OthersStay(w) /\ wk'[w].verdict = "quiescent"
    BY <2>1, ProcessMoves DEF IdleWorker
  <2>3. PICK r : /\ SetRow(j, r)
                 /\ \/ r = row[j]
                    \/ \E b \in BOOLEAN : r = FailedRow(j, w, b) \/ r = RecoveredRow(row[j], w, b)
                    \/ r = CompletedRow(row[j], w)
                    \/ Deletable(row[j]) /\ r = [AbsentRow EXCEPT !.state = "deleted"]
    BY <1>8 DEF Drop, Revive, Giveup, Settle, PurgeRow
  <2>4. r = row[j] \/ WorkerMove(j, w, r)
    BY <2>3 DEF WorkerMove
  <2>5. \/ r = row[j]
        \/ ~Owes(r, w)
        \/ r # ClaimedRow(row[j], w) /\ r # OutstandingRow(row[j], w)
    <3>1. ASSUME NEW b \in BOOLEAN, r = FailedRow(j, w, b), r # row[j] PROVE ~Owes(r, w)
      <4>1. HeldBy(row[j], w)
        BY <3>1 DEF FailedRow
      <4>2. r.state \in {"queued", "cancelled", "failed"}
        BY <1>0, <2>1, <3>1, <4>1 DEF FailedRow, Unowned, Rows
      <4> QED BY <4>2 DEF Owes, HeldBy, Leased, LeasedStates
    <3>2. ASSUME NEW b \in BOOLEAN, r = RecoveredRow(row[j], w, b), r # row[j]
          PROVE  r # ClaimedRow(row[j], w) /\ r # OutstandingRow(row[j], w)
      <4>1. FencedBy(row[j], w) /\ ~HeldBy(row[j], w)
        BY <3>2 DEF RecoveredRow, FencedBy, HeldBy
      <4>2. r.state \in {"completed", "unknown"}
        BY <1>0, <2>1, <3>2, <4>1 DEF RecoveredRow, Unowned, Rows
      <4>3. ClaimedRow(row[j], w).state = "running" /\ OutstandingRow(row[j], w) = row[j]
        BY <1>0, <2>1, <4>1 DEF ClaimedRow, OutstandingRow, Rows
      <4> QED BY <3>2, <4>2, <4>3
    <3>3. ASSUME r = CompletedRow(row[j], w), r # row[j] PROVE ~Owes(r, w)
      BY <1>0, <2>1, <3>3 DEF CompletedRow, Unowned, Rows, Owes, HeldBy, Leased, LeasedStates
    <3>4. ASSUME r = [AbsentRow EXCEPT !.state = "deleted"] PROVE ~Owes(r, w)
      BY <3>4 DEF AbsentRow, Owes, HeldBy, Leased, LeasedStates
    <3> QED BY <2>3, <3>1, <3>2, <3>3, <3>4
  <2>6. CASE Owes(r, w) \/ r = row[j]
    BY <2>1, <2>2, <2>3, <2>4, <2>5, <2>6, OwnAside DEF InGroup
  <2>7. CASE ~Owes(r, w)
    <3>1. Assessed(wk'[w]) /\ Answered(wk'[w], leak'[w][j], r, w, j)
      BY <2>2, <2>7 DEF Assessed, Answered
    <3> QED BY <2>1, <2>2, <2>3, <2>4, <3>1, OwnAnswer
  <2> QED BY <2>6, <2>7
<1>9. ASSUME NEW w \in Workers, Except(w) \/ Look(w) \/ Clean(w) PROVE AllAnswered'
  <2>1. /\ wk[w].job \in Jobs /\ UNCHANGED <<row, leak>>
        /\ wk[w].pc \in {"except", "look", "clean"}
    BY <1>0, <1>9 DEF Except, Look, Clean, At, Resting, store
  <2>2. OthersStay(w) /\ wk'[w].verdict = "quiescent"
    <3>1. CASE Except(w)
      <4>1. Unwind(w, "revive", FALSE) \/ Unwind(w, "giveup", FALSE) \/ Return(w)
        BY <3>1 DEF Except
      <4>2. IdleWorker.verdict = "quiescent"
        BY DEF IdleWorker
      <4> QED BY <4>1, <4>2, ProcessMoves
    <3>2. CASE Look(w)
      <4>1. OthersStay(w) /\ wk'[w].verdict = wk[w].verdict
        BY <1>0, <3>2 DEF Look, OthersStay, Processes
      <4> QED BY <1>0, <2>1, <4>1 DEF Assessed
    <3>3. CASE Clean(w)
      <4>1. OthersStay(w) /\ wk'[w].verdict = wk[w].verdict
        BY <3>3, ProcessMoves DEF Clean
      <4> QED BY <1>0, <2>1, <4>1 DEF Assessed
    <3> QED BY <1>9, <3>1, <3>2, <3>3
  <2> QED BY <1>0, <2>1, <2>2, OwnAside DEF InGroup
<1>10. ASSUME NEW w \in Workers, Reject(w) \/ Check(w) \/ Discard(w) \/ Begin(w) \/ Publish(w)
       PROVE  AllAnswered'
  <2> DEFINE j == wk[w].job
  <2>1. /\ j \in Jobs /\ UNCHANGED leak
        /\ wk[w].pc \in {"reject", "check", "discard", "begin", "publish"}
    BY <1>0, <1>10 DEF Reject, Check, Discard, Begin, Publish, At, Resting
  <2>2. \E c \in {"finally", "discard", "begin", "publish"} : Goto(w, c)
    BY <1>10 DEF Reject, Check, Discard, Begin, Publish
  <2>3. /\ OthersStay(w) /\ wk'[w].job = j /\ wk'[w].verdict = wk[w].verdict
        /\ wk'[w].pc \in {"finally", "discard", "begin", "publish"}
    BY <2>2, ProcessMoves
  <2>4. wk'[w].verdict = "quiescent"
    BY <1>0, <2>1, <2>3 DEF Assessed
  <2>5. \A r : Assessed(wk'[w]) /\ Answered(wk'[w], leak'[w][j], r, w, j)
    BY <2>3, <2>4 DEF Assessed, Answered, Settles, InGroup
  <2>6. PICK r : SetRow(j, r) /\ (r = row[j] \/ WorkerMove(j, w, r))
    <3>1. CASE Check(w)
      BY <1>0, <2>1, <3>1 DEF Check, store
    <3>2. CASE Begin(w)
      BY <3>2 DEF Begin, WorkerMove
    <3>3. CASE Publish(w)
      BY <3>3 DEF Publish, WorkerMove
    <3>4. CASE Reject(w) \/ Discard(w)
      <4>1. \E b \in BOOLEAN : SetRow(j, FailedRow(j, w, b))
        BY <3>4 DEF Reject, Discard
      <4> QED BY <4>1 DEF WorkerMove
    <3> QED BY <1>10, <3>1, <3>2, <3>3, <3>4
  <2> QED BY <2>1, <2>3, <2>5, <2>6, OwnAnswer
<1>11. ASSUME NEW w \in Workers, MarkOutstanding(w) PROVE AllAnswered'
  <2> DEFINE j == wk[w].job
             r == OutstandingRow(row[j], w)
  <2>1. /\ j \in Jobs /\ wk[w].pc = "outstanding" /\ SetRow(j, r) /\ Goto(w, "finally")
    BY <1>0, <1>11 DEF MarkOutstanding, At, Resting
  <2>2. OthersStay(w) /\ wk'[w].pc = "finally"
    BY <2>1, ProcessMoves
  <2>3. leak[w][j] \in {"loose", "over"}
    BY <1>0, <2>1 DEF Guarded
  <2>4. /\ leak'[w][j] # "none"
        /\ \A i \in Jobs \ {j} : leak'[w][i] = leak[w][i]
        /\ \A v \in Workers \ {w} : leak'[v] = leak[v]
    BY <1>0, <1>11, <2>3 DEF MarkOutstanding
  <2>5. Assessed(wk'[w]) /\ Answered(wk'[w], leak'[w][j], r, w, j)
    BY <2>2, <2>4 DEF Assessed, Answered, Settles
  <2>6. WorkerMove(j, w, r)
    BY DEF WorkerMove
  <2> HIDE DEF r
  <2> QED BY <2>1, <2>2, <2>4, <2>5, <2>6, OwnAnswer
<1>12. ASSUME NEW w \in Workers, ExecEnd(w) PROVE AllAnswered'
  <2> DEFINE j == wk[w].job
  <2>1. j \in Jobs /\ wk[w].pc = "exec" /\ UNCHANGED row
    BY <1>0, <1>12 DEF ExecEnd, At, store, Resting
  <2>2. /\ \A i \in Jobs \ {j} : leak'[w][i] = leak[w][i]
        /\ \A v \in Workers \ {w} : leak'[v] = leak[v]
    BY <1>0, <1>12 DEF ExecEnd
  <2>3. PICK verdict \in Verdicts, result \in {"check", "reject", "error"} :
           wk' = [wk EXCEPT ![w].verdict = verdict,
                      ![w].exc = IF @ = "none" /\ verdict = "quiescent" /\ result = "error"
                                 THEN "error" ELSE @,
                      ![w].pc = IF wk[w].exc # "none" THEN "finally"
                                ELSE IF verdict # "quiescent" THEN "outstanding"
                                ELSE IF result = "error" THEN "finally" ELSE result]
    BY <1>12, Zenon DEF ExecEnd
  <2>4. wk[w].exc \in {"none", "stop"}
    BY <1>0, <2>1 DEF Consistent, Processes
  <2>5. /\ OthersStay(w) /\ wk'[w].job = j /\ wk'[w].verdict = verdict
        /\ wk'[w].pc \in {"finally", "outstanding", "check", "reject"}
    BY <1>0, <2>3 DEF OthersStay, Processes
  <2>6. /\ wk'[w].pc \notin {"outstanding", "finally"} => verdict = "quiescent"
        /\ wk'[w].pc = "finally" => verdict = "quiescent" \/ wk'[w].exc = "stop"
    <3>1. CASE wk[w].exc = "none"
      BY <1>0, <2>3, <3>1 DEF Processes
    <3>2. CASE wk[w].exc = "stop"
      BY <1>0, <2>3, <3>2 DEF Processes
    <3> QED BY <2>4, <3>1, <3>2
  <2>7. Assessed(wk'[w]) /\ Answered(wk'[w], leak'[w][j], row[j], w, j)
    BY <2>5, <2>6 DEF Assessed, Answered, Settles, InGroup
  <2> QED BY <1>0, <2>1, <2>2, <2>5, <2>7, OwnAnswer
<1>13. ASSUME NEW w \in Workers, Finally(w) PROVE AllAnswered'
  <2> DEFINE j == wk[w].job
             r == IF wk[w].verdict = "quiescent" THEN AttestedRow(row[j], w) ELSE row[j]
  <2>1. /\ j \in Jobs /\ wk[w].pc = "finally" /\ SetRow(j, r) /\ UNCHANGED leak
        /\ \/ Return(w) /\ wk[w].exc = "none"
           \/ Unwind(w, "except", wk[w].lost) /\ wk[w].exc = "error"
           \/ Unwind(w, "exiting", wk[w].lost) /\ wk[w].exc = "stop"
    <3>1. wk[w].exc \in {"none", "error", "stop"}
      BY <1>0 DEF Processes
    <3> QED BY <1>0, <1>13, <3>1 DEF Finally, AfterFinally, At, Resting
  <2>2. /\ OthersStay(w) /\ wk'[w].verdict = "quiescent"
        /\ wk[w].exc = "stop" => wk'[w].pc = "exiting"
    BY <2>1, ProcessMoves DEF IdleWorker
  <2>3. Answered(wk'[w], leak'[w][j], r, w, j)
    <3>1. CASE wk[w].verdict = "quiescent"
      BY <1>0, <2>1, <3>1, AttestPays DEF Answered
    <3>2. CASE wk[w].exc = "stop"
      BY <2>2, <3>2 DEF Answered, Settles
    <3>3. CASE wk[w].verdict # "quiescent" /\ wk[w].exc # "stop"
      <4>1. Settles(wk[w], leak[w][j], j) => leak'[w][j] # "none"
        BY <2>1, <3>3, OnlyReported DEF InGroup
      <4>2. Answered(wk[w], leak[w][j], r, w, j)
        BY <1>0, <2>1, <3>3
      <4> QED BY <4>1, <4>2 DEF Answered, Settles
    <3> QED BY <3>1, <3>2, <3>3
  <2>4. Assessed(wk'[w])
    BY <2>2 DEF Assessed
  <2>5. r = row[j] \/ WorkerMove(j, w, r)
    BY DEF WorkerMove
  <2> HIDE DEF r
  <2> QED BY <2>1, <2>2, <2>3, <2>4, <2>5, OwnAnswer
<1>14. ASSUME NEW w \in Workers, LoseLease(w) PROVE AllAnswered'
  <2>1. /\ OthersStay(w) /\ UNCHANGED <<row, leak>>
        /\ wk'[w].pc = wk[w].pc /\ wk'[w].job = wk[w].job
        /\ wk'[w].verdict = wk[w].verdict /\ wk'[w].exc = wk[w].exc
    BY <1>0, <1>14 DEF LoseLease, OthersStay, store, Processes
  <2>2. Assessed(wk'[w])
    BY <1>0, <2>1 DEF Assessed
  <2>3. \A j \in Jobs : Settles(wk[w], leak[w][j], j) => Settles(wk'[w], leak'[w][j], j)
    BY <2>1 DEF Settles
  <2> QED BY <2>1, <2>2, <2>3, OwnQuiet
<1>15. ASSUME NEW w \in Workers, NEW j \in Jobs, LeakEnds(w, j) PROVE AllAnswered'
  <2>1. /\ OthersStay(w) /\ UNCHANGED <<row, wk>>
        /\ \A v \in Workers \ {w} : leak'[v] = leak[v]
        /\ \A i \in Jobs : leak[w][i] # "none" => leak'[w][i] # "none"
    BY <1>0, <1>15 DEF LeakEnds, OthersStay, store
  <2>2. \A i \in Jobs : Settles(wk[w], leak[w][i], i) => Settles(wk'[w], leak'[w][i], i)
    BY <2>1 DEF Settles
  <2>3. Assessed(wk'[w])
    BY <1>0, <2>1
  <2> QED BY <2>1, <2>2, <2>3, OwnQuiet
<1>16. ASSUME NEW w \in Workers, NEW j \in Jobs, AttestLeak(w, j) PROVE AllAnswered'
  <2> DEFINE r == AttestedRow(row[j], w)
  <2>1. /\ UNCHANGED wk /\ SetRow(j, r) /\ OthersStay(w)
        /\ \A v \in Workers \ {w} : leak'[v] = leak[v]
        /\ \A i \in Jobs \ {j} : leak'[w][i] = leak[w][i]
    BY <1>0, <1>16 DEF AttestLeak, OthersStay
  <2>2. row'[j] = r /\ \A i \in Jobs \ {j} : row'[i] = row[i]
    BY <2>1, RowWritten
  <2>3. ~Owes(r, w) /\ WorkerMove(j, w, r)
    BY <1>0, AttestPays DEF WorkerMove
  <2>4. ASSUME NEW v \in Workers PROVE Answered(wk'[v], leak'[v][j], row'[j], v, j)
    <3>1. CASE v = w
      BY <2>2, <2>3, <3>1 DEF Answered
    <3>2. CASE v # w
      <4>1. Owes(r, v) => Owes(row[j], v) /\ (row[j].cancel => r.cancel)
        BY <1>0, <2>3, <3>2, DebtKept
      <4> QED BY <1>0, <2>1, <2>2, <3>2, <4>1 DEF Answered
    <3> QED BY <3>1, <3>2
  <2>5. ASSUME NEW v \in Workers, NEW i \in Jobs \ {j}
        PROVE  Answered(wk'[v], leak'[v][i], row'[i], v, i)
    BY <1>0, <2>1, <2>2, <2>5
  <2>6. \A v \in Workers : Assessed(wk'[v])
    BY <1>0, <2>1
  <2>7. \A v \in Workers, i \in Jobs : Answered(wk'[v], leak'[v][i], row'[i], v, i)
    BY <2>4, <2>5
  <2> QED BY <2>6, <2>7 DEF AllAnswered, Assessed, Answered, Owes, Settles, HeldBy, Leased
<1>17. ASSUME NEW w \in Workers, Stop(w) PROVE AllAnswered'
  <2>0. UNCHANGED <<row, leak>>
    BY <1>17 DEF Stop, store
  <2>1. CASE wk[w].pc \in InGroup /\ Interrupt(w, "stop")
    <3>1. CASE At(w, "exec")
      <4>1. /\ OthersStay(w) /\ wk'[w].pc = wk[w].pc /\ wk'[w].job = wk[w].job
            /\ wk[w].pc = "exec" /\ wk'[w].verdict = wk[w].verdict
        BY <1>0, <2>1, <3>1 DEF Interrupt, At, OthersStay, Processes
      <4>2. Assessed(wk'[w])
        BY <1>0, <4>1 DEF Assessed
      <4>3. \A j \in Jobs : Settles(wk[w], leak[w][j], j) => Settles(wk'[w], leak'[w][j], j)
        BY <2>0, <4>1 DEF Settles
      <4> QED BY <2>0, <4>1, <4>2, <4>3, OwnQuiet
    <3>2. CASE ~At(w, "exec")
      <4>1. /\ OthersStay(w) /\ wk'[w].pc = "finally" /\ wk'[w].job = wk[w].job
            /\ wk'[w].exc = "stop"
        BY <2>1, <3>2, ProcessMoves DEF Interrupt
      <4>2. Assessed(wk'[w])
        BY <4>1 DEF Assessed
      <4>3. \A j \in Jobs : Settles(wk[w], leak[w][j], j) => Settles(wk'[w], leak'[w][j], j)
        BY <2>0, <2>1, <4>1 DEF Settles, InGroup
      <4> QED BY <2>0, <4>1, <4>2, <4>3, OwnQuiet
    <3> QED BY <3>1, <3>2
  <2>2. CASE Unwind(w, "exiting", FALSE)
    <3>1. OthersStay(w) /\ wk'[w].pc = "exiting" /\ wk'[w].verdict = "quiescent"
      BY <2>2, ProcessMoves
    <3>2. Assessed(wk'[w])
      BY <3>1 DEF Assessed
    <3>3. \A j \in Jobs : Settles(wk'[w], leak'[w][j], j)
      BY <3>1 DEF Settles
    <3> QED BY <2>0, <3>1, <3>2, <3>3, OwnQuiet
  <2> QED BY <1>17, <2>1, <2>2 DEF Stop
<1>18. ASSUME NEW w \in Workers, Exit(w) \/ Crash(w) \/ CrashInPublish(w) PROVE AllAnswered'
  <2>1. UNCHANGED row /\ Die(w)
    BY <1>18 DEF Exit, Crash, CrashInPublish, store
  <2>2. /\ OthersStay(w) /\ wk'[w].pc = "dead" /\ wk'[w].verdict = "quiescent"
        /\ \A v \in Workers \ {w} : leak'[v] = leak[v]
    BY <1>0, <2>1 DEF Die, OthersStay, IdleWorker
  <2>3. Assessed(wk'[w])
    BY <2>2 DEF Assessed
  <2>4. \A j \in Jobs : Settles(wk'[w], leak'[w][j], j)
    BY <2>2 DEF Settles
  <2> QED BY <2>1, <2>2, <2>3, <2>4, OwnQuiet
<1>19. ASSUME Fault PROVE FALSE
  BY <1>19 DEF Fault
<1>20. CASE Client
  <2>1. ASSUME NEW j \in Jobs, Age(j) PROVE AllAnswered'
    BY <1>1, <2>1 DEF Age
  <2> QED BY <1>2, <1>20, <2>1 DEF Client
<1>21. ASSUME NEW w \in Workers,
              Pick(w) \/ Proceed(w) \/ ExecEnd(w) \/ LoseLease(w) \/ Leaked(w) \/ Failure(w)
       PROVE  AllAnswered'
  <2>1. CASE Pick(w)
    BY <1>3, <1>4, <1>5, <2>1 DEF Pick
  <2>2. CASE Proceed(w)
    BY <1>6, <1>7, <1>8, <1>9, <1>10, <1>11, <1>13, <1>18, <2>2 DEF Proceed
  <2>3. CASE Leaked(w)
    BY <1>15, <1>16, <1>19, <2>3 DEF Leaked, AttestLeakFails
  <2>4. CASE Failure(w)
    BY <1>17, <1>18, <1>19, <2>4 DEF Failure, HeartbeatFails, StoreFails, PublishFails,
                                     AttestFails
  <2> QED BY <1>12, <1>14, <1>21, <2>1, <2>2, <2>3, <2>4
<1> QED BY <1>1, <1>20, <1>21 DEF Next, vars

\* While nothing has failed.
SlotsAnswered == faults = 0 => AllAnswered

\* Nothing has failed before a state in which nothing has failed.
LEMMA NoFaultBefore ==
    ASSUME Typed, [Next]_vars, faults' = 0
    PROVE  faults = 0
<1>1. faults \in Nat
  <2>1. faults \in 0..MaxFaults
    BY DEF Typed, TypeOK
  <2> QED BY <2>1, LimitsAssumption
<1> QED BY <1>1, FaultsCount

\* A row marked unknown says whose work is unproven (mark_unknown_outstanding, recover).
QuarantineOwned == \A j \in Jobs : Quarantined(row[j]) => row[j].unproven \in Workers

\* No move of a row marks it unknown without saying whose work is unproven.
LEMMA QuarantineKnown ==
    ASSUME NEW j \in Jobs, row[j] \in Rows, OwnerKnown(row[j]), NEW r, RowMove(j, r),
           Quarantined(row[j]) => row[j].unproven \in Workers, Quarantined(r)
    PROVE  r.unproven \in Workers
<1> DEFINE q == row[j]
           Goal == r.unproven \in Workers
<1> USE DEF OwnerKnown, Quarantined, HeldBy, Leased, LeasedStates, EndStates
<1>1. CASE ClientMove(j, r)
  BY <1>1 DEF ClientMove, AbsentRow, Rows
<1>2. ASSUME NEW v \in Workers, WorkerMove(j, v, r) PROVE Goal
  <2>1. CASE NextToRun(j) /\ r = ClaimedRow(q, v)
    BY <2>1 DEF ClaimedRow, Rows
  <2>2. CASE r = AttestedRow(q, v)
    BY <2>2 DEF AttestedRow, MayAttest, Rows
  <2>3. ASSUME NEW b \in BOOLEAN, r = FailedRow(j, v, b) PROVE Goal
    BY <2>3 DEF FailedRow, Unowned, Rows
  <2>4. CASE r = OutstandingRow(q, v)
    BY <2>4 DEF OutstandingRow, Unowned, Rows
  <2>5. CASE MayBegin(q, v) /\ r = [q EXCEPT !.state = "publishing"]
    BY <2>5 DEF MayBegin, Rows
  <2>6. CASE r = CompletedRow(q, v)
    BY <2>6 DEF CompletedRow, MayComplete, Unowned, Rows
  <2>7. CASE Leased(q) /\ r = FencedRow(q, v)
    BY <2>7 DEF FencedRow, Rows
  <2>8. ASSUME NEW b \in BOOLEAN, r = RecoveredRow(q, v, b) PROVE Goal
    BY <2>8 DEF RecoveredRow, Unowned, Rows, FencedBy
  <2>9. CASE Deletable(q) /\ r = [AbsentRow EXCEPT !.state = "deleted"]
    BY <2>9 DEF Deletable, AbsentRow, Rows
  <2> HIDE DEF OwnerKnown, Quarantined, HeldBy, Leased, LeasedStates, EndStates
  <2> QED BY <1>2, <2>1, <2>2, <2>3, <2>4, <2>5, <2>6, <2>7, <2>8, <2>9 DEF WorkerMove
<1> QED BY <1>1, <1>2 DEF RowMove

\* Every slot that waits for an attestation has a worker on its way to it, or one that
\* left or reported the work: the inductive invariant behind NoOrphanedSlot.
THEOREM SlotsAlwaysAnswered == Spec => [](SlotsAnswered /\ QuarantineOwned)
<1>1. Init => SlotsAnswered /\ QuarantineOwned
  <2> SUFFICES ASSUME Init PROVE AllAnswered /\ QuarantineOwned
    BY DEF SlotsAnswered
  <2>1. /\ \A w \in Workers : wk[w] = IdleWorker
        /\ \A j \in Jobs : row[j] = AbsentRow
    BY DEF Init
  <2>2. /\ Assessed(IdleWorker) /\ ~Quarantined(AbsentRow)
        /\ \A w \in Workers : ~Owes(AbsentRow, w)
    BY DEF Assessed, IdleWorker, Owes, AbsentRow, HeldBy, Leased, LeasedStates, Quarantined
  <2>3. AllAnswered
    BY <2>1, <2>2 DEF AllAnswered, Answered
  <2>4. QuarantineOwned
    BY <2>1, <2>2 DEF QuarantineOwned
  <2> QED BY <2>3, <2>4
<1>2. ASSUME Typed, OwnersKnown, WorkGuarded, SlotsAnswered, QuarantineOwned, [Next]_vars
      PROVE  SlotsAnswered' /\ QuarantineOwned'
  <2>0. row \in [Jobs -> Rows] /\ \A j \in Jobs : OwnerKnown(row[j])
    BY <1>2 DEF Typed, TypeOK, OwnersKnown
  <2>1. ASSUME faults' = 0 PROVE AllAnswered'
    <3>1. faults = 0
      BY <1>2, <2>1, NoFaultBefore
    <3> QED BY <1>2, <2>1, <3>1, AnsweredStep DEF WorkGuarded, SlotsAnswered
  <2>2. CASE UNCHANGED row
    BY <1>2, <2>1, <2>2 DEF SlotsAnswered, QuarantineOwned, Quarantined
  <2>3. ASSUME NEW j \in Jobs, NEW r, RowMove(j, r), SetRow(j, r) PROVE QuarantineOwned'
    <3>1. Quarantined(r) => r.unproven \in Workers
      BY <1>2, <2>0, <2>3, QuarantineKnown DEF QuarantineOwned
    <3>2. \A i \in Jobs : Quarantined(row'[i]) => row'[i].unproven \in Workers
      BY <1>2, <2>0, <2>3, <3>1 DEF SetRow, QuarantineOwned
    <3> QED BY <3>2 DEF QuarantineOwned, Quarantined
  <2> QED BY <1>2, <2>1, <2>2, <2>3, OneRowMoves DEF SlotsAnswered
<1> QED BY <1>1, <1>2, TypedAlways, OwnersAlwaysKnown, WorkAlwaysGuarded, PTL DEF Spec

\* While the worker lives, the slot of a job marked unknown is still to be attested, or its
\* work was reported as untracked, or its cancellation was found before the work began
\* (_run_job attests in its finally block or before the attempt, and AttestLeak afterwards).
THEOREM SlotsNeverOrphaned == Spec => []NoOrphanedSlot
<1>1. ASSUME Typed, SlotsAnswered, QuarantineOwned PROVE NoOrphanedSlot
  <2> SUFFICES ASSUME faults = 0, NEW j \in Jobs, Quarantined(row[j]), ~row[j].cancel
               PROVE  Attester(j) \/ NoLongerObserved(j)
    BY <1>1 DEF NoOrphanedSlot
  <2> DEFINE w == row[j].unproven
  <2>1. w \in Workers /\ w # NoWorker
    BY <1>1, JobsAssumption DEF QuarantineOwned
  <2>2. Owes(row[j], w)
    BY DEF Quarantined, Owes
  <2>3. Settles(wk[w], leak[w][j], j)
    BY <1>1, <2>1, <2>2 DEF SlotsAnswered, AllAnswered, Answered
  <2>4. leak[w][j] \in LeakStates
    BY <1>1, <2>1 DEF Typed, TypeOK
  <2> QED BY <2>1, <2>3, <2>4 DEF Settles, LeakStates, Attester, NoLongerObserved
<1> QED BY <1>1, TypedAlways, SlotsAlwaysAnswered, PTL

-----------------------------------------------------------------------------
(* The contract.                                                            *)

\* The process p, or work l it left behind, is executing job j.
Works(p, l, j) == (p.pc = "exec" /\ p.job = j) \/ l \in {"loose", "watched"}

\* The jobs whose work is running, worker by worker, before and after a step.
LEMMA LiveWorks ==
    /\ LiveJobs = {j \in Jobs : \E w \in Workers : Works(wk[w], leak[w][j], j)}
    /\ LiveJobs' = {j \in Jobs : \E w \in Workers : Works(wk'[w], leak'[w][j], j)}
BY DEF LiveJobs, Live, Running, LeftBehind, At, Works

\* A step of one worker begins and ends its own work only.
LEMMA LiveMoves ==
    ASSUME NEW w \in Workers, OthersStay(w), \A v \in Workers \ {w} : leak'[v] = leak[v]
    PROVE  /\ (\A j \in Jobs : Works(wk'[w], leak'[w][j], j) => Works(wk[w], leak[w][j], j))
                 => LiveJobs' \subseteq LiveJobs
           /\ (\A j \in Jobs : Works(wk'[w], leak'[w][j], j) <=> Works(wk[w], leak[w][j], j))
                 => LiveJobs' = LiveJobs
<1>1. \A v \in Workers, j \in Jobs :
         v = w \/ (Works(wk'[v], leak'[v][j], j) <=> Works(wk[v], leak[v][j], j))
  BY DEF OthersStay
<1> QED BY <1>1, LiveWorks

\* A worker that neither is nor comes to execute, and leaves its leftovers alone.
LEMMA LiveStays ==
    ASSUME NEW w \in Workers, OthersStay(w), UNCHANGED leak,
           wk[w].pc # "exec", wk'[w].pc # "exec"
    PROVE  LiveJobs' = LiveJobs
BY LiveMoves DEF Works

\* What writing one row does to the phases and the slots.
LEMMA RowPhases ==
    ASSUME Typed, NEW j \in Jobs, NEW r, SetRow(j, r)
    PROVE  /\ Standing' = [Standing EXCEPT ![j] = PhaseOf(r)]
           /\ Standing[j] = PhaseOf(row[j])
           /\ Holding' = (IF Outstanding(r) THEN Holding \cup {j} ELSE Holding \ {j})
           /\ j \in Holding <=> Outstanding(row[j])
<1>1. row'[j] = r /\ \A i \in Jobs \ {j} : row'[i] = row[i]
  BY RowWritten
<1>2. Standing' = [i \in Jobs |-> PhaseOf(row'[i])]
  BY DEF Standing, PhaseOf, Leased
<1>3. Holding' = {i \in Jobs : Outstanding(row'[i])}
  BY DEF Holding, Outstanding, Leased, Quarantined
<1>4. Standing' = [Standing EXCEPT ![j] = PhaseOf(r)]
  BY <1>1, <1>2 DEF Standing
<1>5. Holding' = (IF Outstanding(r) THEN Holding \cup {j} ELSE Holding \ {j})
  BY <1>1, <1>3 DEF Holding
<1> QED BY <1>4, <1>5 DEF Standing, Holding

\* A row that stays in its phase and keeps or lacks its slot shows the contract nothing.
LEMMA PhaseStays ==
    ASSUME Typed, NEW j \in Jobs, NEW r, SetRow(j, r), PhaseOf(r) = PhaseOf(row[j]),
           Outstanding(r) <=> Outstanding(row[j])
    PROVE  Standing' = Standing /\ Holding' = Holding
<1>1. /\ Standing' = [Standing EXCEPT ![j] = Standing[j]]
      /\ Holding' = (IF j \in Holding THEN Holding \cup {j} ELSE Holding \ {j})
  BY RowPhases
<1> QED BY <1>1 DEF Standing

\* The rows of PhaseOf, case by case.
LEMMA PhaseCases ==
    ASSUME NEW r
    PROVE  /\ r.state = "absent" => PhaseOf(r) = "new"
           /\ r.state = "queued" => PhaseOf(r) = "waiting"
           /\ Leased(r) => PhaseOf(r) = "active" /\ Outstanding(r)
           /\ r.state = "completed" => PhaseOf(r) = "done"
           /\ r.state = "unknown" => PhaseOf(r) = "lost"
           /\ r.state = "deleted" => PhaseOf(r) = "gone"
           /\ r.state \in {"failed", "cancelled"} => PhaseOf(r) = "stopped"
           /\ r.state \in {"absent", "deleted", "queued", "completed", "failed", "cancelled"}
                 => ~Outstanding(r)
           /\ r.state = "unknown" => (Outstanding(r) <=> ~r.quiesced)
BY DEF PhaseOf, Leased, LeasedStates, Outstanding, Quarantined

\* Nobody works on a job that w may attest, and that w does not work on itself.
LEMMA NobodyElse ==
    ASSUME Typed, OwnersKnown, AllGuarded, NEW j \in Jobs, NEW w \in Workers,
           MayAttest(row[j], w) \/ HeldBy(row[j], w), ~Works(wk[w], leak[w][j], j)
    PROVE  j \notin LiveJobs
<1> SUFFICES ASSUME NEW v \in Workers, Works(wk[v], leak[v][j], j) PROVE FALSE
  BY LiveWorks
<1>1. Accounted(row[j], v)
  BY DEF AllGuarded, Guarded, Works
<1>2. v = w
  BY <1>1, OneAccount DEF OwnersKnown
<1> QED BY <1>2

\* Nobody works on a job whose row no work is accounted to.
LEMMA NobodyAccounted ==
    ASSUME Typed, AllGuarded, NEW j \in Jobs,
           row[j].state \notin {"running", "unknown"} \/ row[j].quiesced
    PROVE  j \notin LiveJobs
<1> SUFFICES ASSUME NEW v \in Workers, Works(wk[v], leak[v][j], j) PROVE FALSE
  BY LiveWorks
<1>1. Accounted(row[j], v)
  BY DEF AllGuarded, Guarded, Works
<1> QED BY <1>1 DEF Accounted

\* The step is one of the contract, as PhaseOf, Holding and LiveJobs show it.
Implemented == Contract!Next \/ UNCHANGED Contract!vars

\* attest_quiescence gives the slot of an unknown job back.
LEMMA AttestImplements ==
    ASSUME Typed, OwnersKnown, AllGuarded, NEW j \in Jobs, NEW w \in Workers,
           SetRow(j, AttestedRow(row[j], w)), ~Works(wk[w], leak[w][j], j),
           LiveJobs' = LiveJobs, final' = final
    PROVE  Implemented
<1> DEFINE q == row[j]
           r == AttestedRow(q, w)
<1>1. q \in Rows
  BY DEF Typed, TypeOK
<1>2. CASE ~MayAttest(q, w)
  <2>1. r = q
    BY <1>2 DEF AttestedRow
  <2>2. Standing' = Standing /\ Holding' = Holding
    BY <2>1, PhaseStays
  <2> QED BY <2>2 DEF Implemented, Contract!vars
<1>3. CASE MayAttest(q, w)
  <2>1. r.state = q.state /\ r.quiesced
    BY <1>1, <1>3 DEF AttestedRow, Rows
  <2>2. CASE Leased(q)
    <3>1. PhaseOf(r) = PhaseOf(q) /\ (Outstanding(r) <=> Outstanding(q))
      BY <2>1, <2>2, PhaseCases DEF Leased
    <3>2. Standing' = Standing /\ Holding' = Holding
      BY <3>1, PhaseStays
    <3> QED BY <3>2 DEF Implemented, Contract!vars
  <2>3. CASE q.state = "unknown"
    <3>1. PhaseOf(q) = "lost" /\ PhaseOf(r) = "lost" /\ ~Outstanding(r)
      BY <2>1, <2>3, PhaseCases
    <3>a. /\ Standing[j] = "lost" /\ Standing' = [Standing EXCEPT ![j] = "lost"]
          /\ Holding' = Holding \ {j}
      BY <3>1, RowPhases
    <3>2. Standing[j] = "lost" /\ Standing' = Standing /\ Holding' = Holding \ {j}
      BY <3>a DEF Standing
    <3>3. j \notin LiveJobs
      BY <1>3, NobodyElse
    <3>4. Contract!Release(j)
      BY <3>2, <3>3 DEF Contract!Release, Contract!Idle
    <3> QED BY <3>4 DEF Implemented, Contract!Next
  <2> QED BY <1>3, <2>2, <2>3 DEF MayAttest, HeldBy
<1> QED BY <1>2, <1>3

\* fail_attempt by the holder of the lease, whose executor has returned.
LEMMA FailImplements ==
    ASSUME Typed, OwnersKnown, AllGuarded, NEW j \in Jobs, NEW w \in Workers, NEW b \in BOOLEAN,
           SetRow(j, FailedRow(j, w, b)), ~Works(wk[w], leak[w][j], j),
           HeldBy(row[j], w) => j \notin final,
           LiveJobs' = LiveJobs, final' = final
    PROVE  Implemented
<1> DEFINE q == row[j]
           r == FailedRow(j, w, b)
<1>1. q \in Rows
  BY DEF Typed, TypeOK
<1>2. CASE ~HeldBy(q, w)
  <2>1. r = q
    BY <1>2 DEF FailedRow
  <2>2. Standing' = Standing /\ Holding' = Holding
    BY <2>1, PhaseStays
  <2> QED BY <2>2 DEF Implemented, Contract!vars
<1>3. CASE HeldBy(q, w)
  <2>1. r.state \in {"queued", "cancelled", "failed"}
    BY <1>1, <1>3 DEF FailedRow, Unowned, Rows
  <2>2. PhaseOf(q) = "active" /\ PhaseOf(r) \in {"waiting", "stopped"} /\ ~Outstanding(r)
    BY <1>3, <2>1, PhaseCases DEF HeldBy
  <2>3. /\ Standing[j] = "active" /\ Standing' = [Standing EXCEPT ![j] = PhaseOf(r)]
        /\ Holding' = Holding \ {j}
    BY <2>2, RowPhases
  <2>4. j \notin LiveJobs
    BY <1>3, NobodyElse
  <2>5. Contract!Retry(j) \/ Contract!Fail(j)
    BY <1>3, <2>2, <2>3, <2>4 DEF Contract!Retry, Contract!Fail, Contract!Move, Contract!Idle
  <2> QED BY <2>5 DEF Implemented, Contract!Next
<1> QED BY <1>2, <1>3

\* complete by the holder of the lease, whose executor has returned.
LEMMA CompleteImplements ==
    ASSUME Typed, AllGuarded, NEW j \in Jobs, NEW w \in Workers,
           SetRow(j, CompletedRow(row[j], w)), LiveJobs' = LiveJobs,
           MayComplete(row[j], w) => final' = final \cup {j},
           ~MayComplete(row[j], w) => final' = final
    PROVE  Implemented
<1> DEFINE q == row[j]
           r == CompletedRow(q, w)
<1>1. q \in Rows
  BY DEF Typed, TypeOK
<1>2. CASE ~MayComplete(q, w)
  <2>1. r = q
    BY <1>2 DEF CompletedRow
  <2>2. Standing' = Standing /\ Holding' = Holding
    BY <2>1, PhaseStays
  <2> QED BY <1>2, <2>2 DEF Implemented, Contract!vars
<1>3. CASE MayComplete(q, w)
  <2>1. r.state = "completed"
    BY <1>1, <1>3 DEF CompletedRow, Unowned, Rows
  <2>2. PhaseOf(q) = "active" /\ PhaseOf(r) = "done" /\ ~Outstanding(r)
    BY <1>3, <2>1, PhaseCases DEF MayComplete, HeldBy
  <2>3. /\ Standing[j] = "active" /\ Standing' = [Standing EXCEPT ![j] = "done"]
        /\ Holding' = Holding \ {j}
    BY <2>2, RowPhases
  <2>4. j \notin LiveJobs
    BY <1>3, NobodyAccounted DEF MayComplete
  <2>5. Contract!Complete(j)
    BY <1>3, <2>3, <2>4 DEF Contract!Complete, Contract!Move, Contract!Idle
  <2> QED BY <2>5 DEF Implemented, Contract!Next
<1> QED BY <1>2, <1>3

\* recover completes a job only with its artifact, and keeps the slot of work that was
\* not proven to have ended.
LEMMA RecoverImplements ==
    ASSUME Typed, AllGuarded, NEW j \in Jobs, NEW w \in Workers, NEW b \in BOOLEAN,
           SetRow(j, RecoveredRow(row[j], w, b)), b => j \in final,
           row[j].state = "publishing" /\ ~b => j \notin final,
           row[j].state = "running" => j \notin final,
           LiveJobs' = LiveJobs, final' = final
    PROVE  Implemented
<1> DEFINE q == row[j]
           r == RecoveredRow(q, w, b)
<1>1. q \in Rows
  BY DEF Typed, TypeOK
<1>2. CASE ~FencedBy(q, w)
  <2>1. r = q
    BY <1>2 DEF RecoveredRow
  <2>2. Standing' = Standing /\ Holding' = Holding
    BY <2>1, PhaseStays
  <2> QED BY <2>2 DEF Implemented, Contract!vars
<1>3. CASE FencedBy(q, w)
  <2>0. PhaseOf(q) = "active" /\ Outstanding(q) /\ q.state \in {"running", "publishing"}
    BY <1>3, PhaseCases DEF FencedBy, Leased, LeasedStates
  <2>1. CASE q.state = "publishing" /\ b
    <3>1. r.state = "completed"
      BY <1>1, <1>3, <2>1 DEF RecoveredRow, Unowned, Rows
    <3>2. PhaseOf(r) = "done" /\ ~Outstanding(r)
      BY <3>1, PhaseCases
    <3>3. /\ Standing[j] = "active" /\ Standing' = [Standing EXCEPT ![j] = "done"]
          /\ Holding' = Holding \ {j}
      BY <2>0, <3>2, RowPhases
    <3>4. j \notin LiveJobs /\ final' = final \cup {j}
      BY <2>1, NobodyAccounted
    <3>5. Contract!Complete(j)
      BY <3>3, <3>4 DEF Contract!Complete, Contract!Move, Contract!Idle
    <3> QED BY <3>5 DEF Implemented, Contract!Next
  <2>2. CASE ~(q.state = "publishing" /\ b)
    <3>1. r.state = "unknown" /\ r.quiesced = q.quiesced
      BY <1>1, <1>3, <2>2 DEF RecoveredRow, Unowned, Rows
    <3>2. PhaseOf(r) = "lost" /\ (Outstanding(r) <=> ~q.quiesced)
      BY <3>1, PhaseCases
    <3>3. /\ Standing[j] = "active" /\ Standing' = [Standing EXCEPT ![j] = "lost"]
          /\ j \in Holding
          /\ Holding' = IF q.quiesced THEN Holding \ {j} ELSE Holding \cup {j}
      BY <2>0, <3>2, RowPhases
    <3>4. q.quiesced => j \notin LiveJobs
      BY NobodyAccounted
    <3>5. j \notin final
      BY <2>0, <2>2
    <3>6. Contract!Idle(j) \/ Holding' = Holding
      BY <3>3, <3>4 DEF Contract!Idle
    <3>7. Contract!Lose(j)
      BY <3>3, <3>5, <3>6 DEF Contract!Lose, Contract!Move
    <3> QED BY <3>7 DEF Implemented, Contract!Next
  <2> QED BY <2>1, <2>2
<1> QED BY <1>2, <1>3

\* Every step without a failing operation is a step of the contract, or shows it nothing:
\* one case per action.
LEMMA ContractStep ==
    ASSUME Typed, OwnersKnown, AllGuarded, ArtifactsKnown, [Next]_vars, faults' = 0, faults = 0
    PROVE  Implemented
<1>0. /\ wk \in [Workers -> Processes] /\ leak \in [Workers -> [Jobs -> LeakStates]]
      /\ row \in [Jobs -> Rows] /\ final \subseteq Jobs
      /\ \A j \in Jobs : row[j] \in Rows /\ OwnerKnown(row[j])
      /\ \A w \in Workers : wk[w] \in Processes
      /\ \A w \in Workers : wk[w].pc \notin Resting => wk[w].job \in Jobs
      /\ \A j \in Jobs : ArtifactKept(j, row[j], final, aged)
      /\ \A w \in Workers :
            wk[w].job \in Jobs => Informed(wk[w], row[wk[w].job], final, w)
      /\ \A w \in Workers, j \in Jobs : Guarded(wk[w], leak[w][j], row[j], w, j)
  BY DEF Typed, TypeOK, BusyHaveJobs, OwnersKnown, ArtifactsKnown, RowsKept, AllInformed,
         AllGuarded
<1>1. ASSUME UNCHANGED <<row, final>>, LiveJobs' = LiveJobs PROVE Implemented
  BY <1>1 DEF Implemented, Contract!vars, Standing, PhaseOf, Holding, Outstanding, Leased,
              Quarantined
<1>2. ASSUME UNCHANGED <<row, final>>, LiveJobs' \subseteq LiveJobs PROVE Implemented
  <2>1. Standing' = Standing /\ Holding' = Holding
    BY <1>2 DEF Standing, PhaseOf, Holding, Outstanding, Leased, Quarantined
  <2>2. Contract!WorkEnds
    BY <1>2, <2>1 DEF Contract!WorkEnds
  <2> QED BY <2>2 DEF Implemented, Contract!Next
<1>3. UNCHANGED <<wk, leak>> => LiveJobs' = LiveJobs
  BY LiveWorks
<1>4. ASSUME NEW j \in Jobs, Submit(j) PROVE Implemented
  <2> DEFINE r == [AbsentRow EXCEPT !.state = "queued", !.sequence = enqueues + 1]
  <2>1. UNCHANGED <<final, wk, leak>> /\ SetRow(j, r) /\ row[j].state = "absent"
    BY <1>4 DEF Submit
  <2>2. r.state = "queued"
    BY DEF AbsentRow
  <2>3. /\ PhaseOf(row[j]) = "new" /\ PhaseOf(r) = "waiting"
        /\ ~Outstanding(row[j]) /\ ~Outstanding(r)
    BY <2>1, <2>2, PhaseCases
  <2> HIDE DEF r
  <2>4. /\ Standing[j] = "new" /\ Standing' = [Standing EXCEPT ![j] = "waiting"]
        /\ Holding' = Holding \ {j} /\ j \notin Holding
    BY <2>1, <2>3, RowPhases
  <2>5. Contract!Accept(j)
    BY <1>3, <2>1, <2>4 DEF Contract!Accept, Contract!Move
  <2> QED BY <2>5 DEF Implemented, Contract!Next
<1>5. ASSUME NEW j \in Jobs, Cancel(j) PROVE Implemented
  <2> DEFINE r == [row[j] EXCEPT !.cancel = TRUE,
                     !.state = IF @ = "queued" THEN "cancelled" ELSE @]
  <2>1. /\ UNCHANGED <<final, wk, leak>> /\ SetRow(j, r)
        /\ row[j].state \in {"queued", "running"}
    BY <1>5 DEF Cancel
  <2>2. r.state = IF row[j].state = "queued" THEN "cancelled" ELSE row[j].state
    BY <1>0 DEF Rows
  <2> HIDE DEF r
  <2>3. CASE row[j].state = "queued"
    <3>1. /\ PhaseOf(row[j]) = "waiting" /\ PhaseOf(r) = "stopped"
          /\ ~Outstanding(row[j]) /\ ~Outstanding(r)
      BY <2>2, <2>3, PhaseCases
    <3>2. /\ Standing[j] = "waiting" /\ Standing' = [Standing EXCEPT ![j] = "stopped"]
          /\ Holding' = Holding \ {j} /\ j \notin Holding
      BY <2>1, <3>1, RowPhases
    <3>3. Contract!Withdraw(j)
      BY <1>3, <2>1, <3>2 DEF Contract!Withdraw, Contract!Move
    <3> QED BY <3>3 DEF Implemented, Contract!Next
  <2>4. CASE row[j].state = "running"
    <3>1. Leased(r) /\ Leased(row[j])
      BY <2>2, <2>4 DEF Leased, LeasedStates
    <3>2. Standing' = Standing /\ Holding' = Holding
      BY <2>1, <3>1, PhaseCases, PhaseStays
    <3> QED BY <1>3, <2>1, <3>2 DEF Implemented, Contract!vars
  <2> QED BY <2>1, <2>3, <2>4
<1>6. ASSUME NEW w \in Workers, NEW j \in Jobs, Claim(w, j) PROVE Implemented
  <2> DEFINE r == ClaimedRow(row[j], w)
  <2>1. /\ UNCHANGED <<final, leak>> /\ SetRow(j, r) /\ wk[w].pc = "loop" /\ NextToRun(j)
        /\ row[j].state = "queued"
    BY <1>6 DEF Claim, At, NextToRun, Queued
  <2>2. OthersStay(w) /\ wk'[w].pc = "gate"
    BY <1>0, <1>6 DEF Claim, OthersStay, Processes
  <2>3. LiveJobs' = LiveJobs
    BY <2>1, <2>2, LiveStays
  <2>4. r.state = "running"
    BY <1>0 DEF ClaimedRow, Rows
  <2>5. Leased(r)
    BY <2>4 DEF Leased, LeasedStates
  <2> HIDE DEF r
  <2>6. PhaseOf(row[j]) = "waiting" /\ PhaseOf(r) = "active" /\ Outstanding(r)
    BY <2>1, <2>5, PhaseCases
  <2>7. /\ Standing[j] = "waiting" /\ Standing' = [Standing EXCEPT ![j] = "active"]
        /\ Holding' = Holding \cup {j}
    BY <2>1, <2>6, RowPhases
  <2>8. j \notin LiveJobs
    BY <2>1, NobodyAccounted
  <2>9. /\ Cardinality(Holding) < MaxRunning
        /\ Cardinality({i \in Holding : Owner[i] = Owner[j]}) < MaxRunningPerPrincipal
    BY <2>1 DEF NextToRun, CanRun, HoldingOf
  <2>10. Contract!Start(j)
    <3>1. Contract!Move(j, {"waiting"}, "active") /\ UNCHANGED <<LiveJobs, final>>
      BY <2>1, <2>3, <2>7 DEF Contract!Move
    <3>2. \A S : Contract!Cardinality(S) = Cardinality(S)
      BY DEF Contract!Cardinality, Cardinality
    <3> QED BY <2>7, <2>8, <2>9, <3>1, <3>2, Zenon DEF Contract!Start
  <2> QED BY <2>10 DEF Implemented, Contract!Next
<1>7. ASSUME NEW w \in Workers, NEW j \in Jobs, Fence(w, j) PROVE Implemented
  <2> DEFINE r == FencedRow(row[j], w)
  <2>1. UNCHANGED <<final, leak>> /\ SetRow(j, r) /\ wk[w].pc = "loop" /\ Leased(row[j])
    BY <1>7 DEF Fence, FencedRow, At
  <2>2. OthersStay(w) /\ wk'[w].pc = "look"
    BY <1>0, <1>7 DEF Fence, OthersStay, Processes
  <2>3. LiveJobs' = LiveJobs
    BY <2>1, <2>2, LiveStays
  <2>4. Leased(r)
    BY <1>0, <2>1 DEF FencedRow, Leased, Rows
  <2> HIDE DEF r
  <2>5. Standing' = Standing /\ Holding' = Holding
    BY <2>1, <2>4, PhaseCases, PhaseStays
  <2> QED BY <2>1, <2>3, <2>5 DEF Implemented, Contract!vars
<1>8. ASSUME NEW w \in Workers, NEW j \in Jobs, PurgeFiles(w, j) PROVE Implemented
  <2>1. /\ UNCHANGED <<row, leak>> /\ wk[w].pc = "loop"
        /\ row[j].state = "completed" => final' = final \ {j}
        /\ row[j].state # "completed" => final' = final
    BY <1>8 DEF PurgeFiles, At, store
  <2>2. OthersStay(w) /\ wk'[w].pc = "purge"
    BY <1>0, <1>8 DEF PurgeFiles, OthersStay, Processes
  <2>3. LiveJobs' = LiveJobs
    BY <2>1, <2>2, LiveStays
  <2>4. CASE row[j].state = "completed"
    <3>1. Standing' = Standing /\ Holding' = Holding /\ Standing[j] = PhaseOf(row[j])
      BY <2>1 DEF Standing, PhaseOf, Holding, Outstanding, Leased, Quarantined
    <3>2. Standing[j] = "done"
      BY <2>4, <3>1, PhaseCases
    <3>3. Contract!Withhold(j)
      BY <2>1, <2>3, <2>4, <3>1, <3>2 DEF Contract!Withhold
    <3> QED BY <3>3 DEF Implemented, Contract!Next
  <2> QED BY <1>1, <2>1, <2>3, <2>4
<1>9. ASSUME NEW w \in Workers, Gate(w) PROVE Implemented
  <2> DEFINE j == wk[w].job
  <2>1. /\ j \in Jobs /\ UNCHANGED <<leak, row, final>> /\ wk[w].pc = "gate"
        /\ \/ Goto(w, "late") \/ Goto(w, "drop")
           \/ Goto(w, "exec") /\ HeldBy(row[j], w)
    BY <1>0, <1>9 DEF Gate, At, store, Resting
  <2>2. CASE Goto(w, "late") \/ Goto(w, "drop")
    <3>1. OthersStay(w) /\ wk'[w].pc \in {"late", "drop"}
      BY <2>2, ProcessMoves
    <3>2. LiveJobs' = LiveJobs
      BY <2>1, <3>1, LiveStays
    <3> QED BY <1>1, <2>1, <3>2
  <2>3. CASE Goto(w, "exec") /\ HeldBy(row[j], w)
    <3>1. OthersStay(w) /\ wk'[w].pc = "exec" /\ wk'[w].job = j
      BY <2>3, ProcessMoves
    <3>2. leak[w][j] = "none"
      BY <1>0, <2>1 DEF Guarded, Tidy
    <3>3. j \notin LiveJobs
      BY <2>1, <2>3, <3>2, NobodyElse DEF Works
    <3>4. LiveJobs' = LiveJobs \cup {j}
      <4>1. \A i \in Jobs : Works(wk'[w], leak'[w][i], i)
                              <=> Works(wk[w], leak[w][i], i) \/ i = j
        BY <2>1, <3>1 DEF Works
      <4>2. \A v \in Workers \ {w}, i \in Jobs :
               Works(wk'[v], leak'[v][i], i) <=> Works(wk[v], leak[v][i], i)
        BY <2>1, <3>1 DEF OthersStay
      <4> QED BY <2>1, <4>1, <4>2, LiveWorks
    <3>5. Standing' = Standing /\ Holding' = Holding /\ Standing[j] = PhaseOf(row[j])
      BY <2>1 DEF Standing, PhaseOf, Holding, Outstanding, Leased, Quarantined
    <3>6. Standing[j] = "active"
      BY <2>3, <3>5, PhaseCases DEF HeldBy
    <3>7. Contract!WorkBegins(j)
      BY <2>1, <3>3, <3>4, <3>5, <3>6 DEF Contract!WorkBegins
    <3> QED BY <2>1, <3>7 DEF Implemented, Contract!Next
  <2> QED BY <2>1, <2>2, <2>3
<1>10. ASSUME NEW w \in Workers, Late(w) PROVE Implemented
  <2> DEFINE j == wk[w].job
  <2>1. /\ j \in Jobs /\ UNCHANGED <<leak, final>> /\ wk[w].pc = "late"
        /\ SetRow(j, AttestedRow(row[j], w)) /\ Return(w)
    BY <1>0, <1>10 DEF Late, At, Resting
  <2>2. OthersStay(w) /\ wk'[w].pc = "loop"
    BY <2>1, ProcessMoves DEF IdleWorker
  <2>3. LiveJobs' = LiveJobs
    BY <2>1, <2>2, LiveStays
  <2>4. ~Works(wk[w], leak[w][j], j)
    BY <1>0, <2>1 DEF Guarded, Tidy, Works
  <2> QED BY <2>1, <2>3, <2>4, AttestImplements
<1>11. ASSUME NEW w \in Workers, Drop(w) \/ Reject(w) \/ Discard(w) \/ Giveup(w)
       PROVE  Implemented
  <2> DEFINE j == wk[w].job
  <2>1. PICK b \in BOOLEAN :
           /\ j \in Jobs /\ UNCHANGED <<leak, final>>
           /\ wk[w].pc \in {"drop", "reject", "discard", "giveup"}
           /\ SetRow(j, FailedRow(j, w, b))
    BY <1>0, <1>11 DEF Drop, Reject, Discard, Giveup, At, Resting
  <2>2. OthersStay(w) /\ wk'[w].pc \in {"loop", "finally"}
    <3>1. Return(w) \/ Goto(w, "finally")
      BY <1>11 DEF Drop, Reject, Discard, Giveup
    <3>2. IdleWorker.pc = "loop"
      BY DEF IdleWorker
    <3> QED BY <3>1, <3>2, ProcessMoves
  <2>3. LiveJobs' = LiveJobs
    BY <2>1, <2>2, LiveStays
  <2>4. ~Works(wk[w], leak[w][j], j)
    BY <1>0, <2>1 DEF Guarded, Tidy, Works
  <2>5. HeldBy(row[j], w) => j \notin final
    BY <1>0, <2>1 DEF Informed, Unpublished, ArtifactKept
  <2> QED BY <2>1, <2>3, <2>4, <2>5, FailImplements
<1>12. ASSUME NEW w \in Workers, MarkOutstanding(w) PROVE Implemented
  <2> DEFINE j == wk[w].job
             r == OutstandingRow(row[j], w)
  <2>1. /\ j \in Jobs /\ UNCHANGED final /\ wk[w].pc = "outstanding"
        /\ SetRow(j, r) /\ Goto(w, "finally")
    BY <1>0, <1>12 DEF MarkOutstanding, At, Resting
  <2>2. OthersStay(w) /\ wk'[w].pc = "finally"
    BY <2>1, ProcessMoves
  <2>3. leak[w][j] \in {"loose", "over"}
    BY <1>0, <2>1 DEF Guarded
  <2>4. /\ leak'[w][j] \in {"loose", "watched"} <=> leak[w][j] \in {"loose", "watched"}
        /\ \A i \in Jobs \ {j} : leak'[w][i] = leak[w][i]
        /\ \A v \in Workers \ {w} : leak'[v] = leak[v]
    BY <1>0, <1>12, <2>3 DEF MarkOutstanding
  <2>5. LiveJobs' = LiveJobs
    BY <2>1, <2>2, <2>4, LiveMoves DEF Works
  <2>6. CASE ~HeldBy(row[j], w)
    <3>1. r = row[j]
      BY <2>6 DEF OutstandingRow
    <3>2. Standing' = Standing /\ Holding' = Holding
      BY <2>1, <3>1, PhaseStays
    <3> QED BY <2>1, <2>5, <3>2 DEF Implemented, Contract!vars
  <2>7. CASE HeldBy(row[j], w)
    <3>1. r.state = "unknown" /\ ~r.quiesced
      BY <1>0, <2>1, <2>7 DEF OutstandingRow, Unowned, Rows
    <3> HIDE DEF r
    <3>2. /\ PhaseOf(row[j]) = "active" /\ PhaseOf(r) = "lost"
          /\ Outstanding(row[j]) /\ Outstanding(r)
      BY <2>7, <3>1, PhaseCases DEF HeldBy
    <3>3. /\ Standing[j] = "active" /\ Standing' = [Standing EXCEPT ![j] = "lost"]
          /\ Holding' = Holding \cup {j} /\ j \in Holding
      BY <2>1, <3>2, RowPhases
    <3>4. j \notin final
      BY <1>0, <2>1, <2>7 DEF Informed, Unpublished, ArtifactKept
    <3>5. Contract!Lose(j)
      BY <2>1, <2>5, <3>3, <3>4 DEF Contract!Lose, Contract!Move
    <3> QED BY <2>1, <3>5 DEF Implemented, Contract!Next
  <2> QED BY <2>6, <2>7
<1>13. ASSUME NEW w \in Workers, Begin(w) PROVE Implemented
  <2> DEFINE j == wk[w].job
             r == IF MayBegin(row[j], w) THEN [row[j] EXCEPT !.state = "publishing"] ELSE row[j]
  <2>1. j \in Jobs /\ UNCHANGED <<final, leak>> /\ SetRow(j, r) /\ wk[w].pc = "begin"
    BY <1>0, <1>13 DEF Begin, At, Resting
  <2>2. OthersStay(w) /\ wk'[w].pc \in {"publish", "finally"}
    <3>1. Goto(w, "publish") \/ Goto(w, "finally")
      BY <1>13 DEF Begin
    <3> QED BY <3>1, ProcessMoves
  <2>3. LiveJobs' = LiveJobs
    BY <2>1, <2>2, LiveStays
  <2>4. r = row[j] \/ (Leased(r) /\ Leased(row[j]))
    BY <1>0, <2>1 DEF MayBegin, HeldBy, Leased, LeasedStates, Rows
  <2> HIDE DEF r
  <2>5. PhaseOf(r) = PhaseOf(row[j]) /\ (Outstanding(r) <=> Outstanding(row[j]))
    BY <2>4, PhaseCases
  <2>6. Standing' = Standing /\ Holding' = Holding
    BY <2>1, <2>5, PhaseStays
  <2> QED BY <2>1, <2>3, <2>6 DEF Implemented, Contract!vars
<1>14. ASSUME NEW w \in Workers, Publish(w) \/ Revive(w) PROVE Implemented
  <2> DEFINE j == wk[w].job
  <2>1. /\ j \in Jobs /\ UNCHANGED leak /\ SetRow(j, CompletedRow(row[j], w))
        /\ wk[w].pc \in {"publish", "revive"}
        /\ MayComplete(row[j], w) => final' = final \cup {j}
        /\ ~MayComplete(row[j], w) => final' = final
    <3>1. CASE Publish(w)
      BY <1>0, <3>1 DEF Publish, At, Resting
    <3>2. CASE Revive(w)
      <4>1. /\ j \in Jobs /\ UNCHANGED <<final, leak>> /\ wk[w].pc = "revive"
            /\ SetRow(j, CompletedRow(row[j], w))
        BY <1>0, <3>2 DEF Revive, At, Resting
      <4>2. MayComplete(row[j], w) => j \in final
        BY <1>0, <4>1 DEF Informed, MayComplete
      <4> QED BY <4>1, <4>2
    <3> QED BY <1>14, <3>1, <3>2
  <2>2. OthersStay(w) /\ wk'[w].pc \in {"loop", "finally"}
    <3>1. Return(w) \/ Goto(w, "finally")
      BY <1>14 DEF Publish, Revive
    <3>2. IdleWorker.pc = "loop"
      BY DEF IdleWorker
    <3> QED BY <3>1, <3>2, ProcessMoves
  <2>3. LiveJobs' = LiveJobs
    BY <2>1, <2>2, LiveStays
  <2> QED BY <2>1, <2>3, CompleteImplements
<1>15. ASSUME NEW w \in Workers, Finally(w) PROVE Implemented
  <2> DEFINE j == wk[w].job
  <2>1. /\ j \in Jobs /\ UNCHANGED <<leak, final>> /\ wk[w].pc = "finally"
        /\ \/ /\ wk[w].verdict = "quiescent"
              /\ SetRow(j, AttestedRow(row[j], w))
           \/ UNCHANGED row
        /\ \/ Return(w) \/ Unwind(w, "except", wk[w].lost) \/ Unwind(w, "exiting", wk[w].lost)
    <3>1. AfterFinally(wk[w].exc) \in {"loop", "except", "exiting"}
      BY DEF AfterFinally
    <3>2. SetRow(j, row[j]) /\ j \in Jobs => UNCHANGED row
      BY <1>0 DEF SetRow
    <3> QED BY <1>0, <1>15, <3>1, <3>2 DEF Finally, At, Resting
  <2>2. OthersStay(w) /\ wk'[w].pc \in {"loop", "except", "exiting"}
    <3>1. IdleWorker.pc = "loop"
      BY DEF IdleWorker
    <3> QED BY <2>1, <3>1, ProcessMoves
  <2>3. LiveJobs' = LiveJobs
    BY <2>1, <2>2, LiveStays
  <2>4. CASE wk[w].verdict = "quiescent" /\ SetRow(j, AttestedRow(row[j], w))
    <3>1. ~Works(wk[w], leak[w][j], j)
      BY <1>0, <2>1, <2>4 DEF Guarded, Works
    <3> QED BY <2>1, <2>3, <2>4, <3>1, AttestImplements
  <2> QED BY <1>1, <2>1, <2>3, <2>4
<1>16. ASSUME NEW w \in Workers, Check(w) \/ Except(w) \/ Look(w) \/ LoseLease(w)
       PROVE  Implemented
  <2>1. UNCHANGED <<row, final, leak>>
    BY <1>16 DEF Check, Except, Look, LoseLease, store
  <2>2. CASE LoseLease(w)
    <3>1. /\ OthersStay(w) /\ wk'[w].pc = wk[w].pc /\ wk'[w].job = wk[w].job
      BY <1>0, <2>2 DEF LoseLease, OthersStay, Processes
    <3>2. LiveJobs' = LiveJobs
      BY <2>1, <3>1, LiveMoves DEF Works
    <3> QED BY <1>1, <2>1, <3>2
  <2>3. CASE Check(w) \/ Except(w) \/ Look(w)
    <3>1. OthersStay(w) /\ wk[w].pc # "exec" /\ wk'[w].pc # "exec"
      <4>1. CASE Check(w)
        <5>1. wk[w].pc = "check" /\ \E c \in {"discard", "finally", "begin"} : Goto(w, c)
          BY <4>1 DEF Check, At
        <5>2. OthersStay(w) /\ wk'[w].pc \in {"discard", "finally", "begin"}
          BY <5>1, ProcessMoves
        <5> QED BY <5>1, <5>2
      <4>2. CASE Except(w)
        <5>1. /\ wk[w].pc = "except"
              /\ Unwind(w, "revive", FALSE) \/ Unwind(w, "giveup", FALSE) \/ Return(w)
          BY <4>2 DEF Except, At
        <5>2. CASE Return(w)
          BY <5>1, <5>2, ProcessMoves DEF IdleWorker
        <5>3. Unwind(w, "revive", FALSE) => OthersStay(w) /\ wk'[w].pc = "revive"
          BY ProcessMoves
        <5>4. Unwind(w, "giveup", FALSE) => OthersStay(w) /\ wk'[w].pc = "giveup"
          BY ProcessMoves
        <5> QED BY <5>1, <5>2, <5>3, <5>4
      <4>3. CASE Look(w)
        BY <1>0, <4>3 DEF Look, At, OthersStay, Processes
      <4> QED BY <2>3, <4>1, <4>2, <4>3
    <3>2. LiveJobs' = LiveJobs
      BY <2>1, <3>1, LiveStays
    <3> QED BY <1>1, <2>1, <3>2
  <2> QED BY <1>16, <2>2, <2>3
<1>17. ASSUME NEW w \in Workers, Clean(w) PROVE Implemented
  <2>1. /\ UNCHANGED <<row, leak>> /\ wk[w].pc = "clean" /\ wk[w].job \in Jobs
        /\ Goto(w, "settle")
    BY <1>0, <1>17 DEF Clean, At, store, Resting
  <2>2. final' = final
    <3>1. ~wk[w].found => wk[w].job \notin final
      BY <1>0, <2>1 DEF Informed
    <3>2. final' = final \/ (~wk[w].found /\ final' = final \ {wk[w].job})
      BY <1>17 DEF Clean
    <3> QED BY <3>1, <3>2
  <2>3. OthersStay(w) /\ wk'[w].pc = "settle"
    BY <2>1, ProcessMoves
  <2>4. LiveJobs' = LiveJobs
    BY <2>1, <2>3, LiveStays
  <2> QED BY <1>1, <2>1, <2>2, <2>4
<1>18. ASSUME NEW w \in Workers, Settle(w) PROVE Implemented
  <2> DEFINE j == wk[w].job
             b == wk[w].found /\ j \in final
  <2>1. /\ j \in Jobs /\ UNCHANGED <<final, leak>> /\ wk[w].pc = "settle"
        /\ SetRow(j, RecoveredRow(row[j], w, b)) /\ Return(w) /\ b \in BOOLEAN
    BY <1>0, <1>18 DEF Settle, At, Resting
  <2>2. OthersStay(w) /\ wk'[w].pc = "loop"
    BY <2>1, ProcessMoves DEF IdleWorker
  <2>3. LiveJobs' = LiveJobs
    BY <2>1, <2>2, LiveStays
  <2>4. ~b => j \notin final
    BY <1>0, <2>1 DEF Informed
  <2>5. row[j].state = "running" => j \notin final
    BY <1>0, <2>1 DEF ArtifactKept
  <2>6. b => j \in final
    OBVIOUS
  <2> HIDE DEF b
  <2> QED BY <2>1, <2>3, <2>4, <2>5, <2>6, RecoverImplements
<1>19. ASSUME NEW w \in Workers, PurgeRow(w) PROVE Implemented
  <2> DEFINE j == wk[w].job
             r == [AbsentRow EXCEPT !.state = "deleted"]
  <2>1. /\ j \in Jobs /\ UNCHANGED <<final, leak>> /\ wk[w].pc = "purge" /\ Return(w)
        /\ SetRow(j, IF Deletable(row[j]) THEN r ELSE row[j])
    BY <1>0, <1>19 DEF PurgeRow, At, Resting
  <2>2. OthersStay(w) /\ wk'[w].pc = "loop"
    BY <2>1, ProcessMoves DEF IdleWorker
  <2>3. LiveJobs' = LiveJobs
    BY <2>1, <2>2, LiveStays
  <2>4. CASE ~Deletable(row[j])
    <3>1. Standing' = Standing /\ Holding' = Holding
      BY <2>1, <2>4, PhaseStays
    <3> QED BY <2>1, <2>3, <3>1 DEF Implemented, Contract!vars
  <2>5. CASE Deletable(row[j])
    <3>1. /\ PhaseOf(row[j]) \in {"done", "stopped", "lost"} /\ ~Outstanding(row[j])
      BY <2>5, PhaseCases DEF Deletable
    <3>2. r.state = "deleted"
      BY DEF AbsentRow
    <3>3. PhaseOf(r) = "gone" /\ ~Outstanding(r)
      BY <3>2, PhaseCases
    <3> HIDE DEF r
    <3>4. /\ Standing[j] \in {"done", "stopped", "lost"}
          /\ Standing' = [Standing EXCEPT ![j] = "gone"]
          /\ Holding' = Holding \ {j} /\ j \notin Holding
      BY <2>1, <2>5, <3>1, <3>3, RowPhases
    <3>5. j \notin LiveJobs
      BY <2>1, <2>5, NobodyAccounted DEF Deletable
    <3>6. j \notin final
      BY <1>0, <2>1 DEF Informed
    <3>7. Contract!Forget(j)
      BY <2>1, <2>3, <3>4, <3>5, <3>6 DEF Contract!Forget, Contract!Move
    <3> QED BY <2>1, <3>7 DEF Implemented, Contract!Next
  <2> QED BY <2>4, <2>5
<1>20. ASSUME NEW w \in Workers, ExecEnd(w) PROVE Implemented
  <2> DEFINE j == wk[w].job
  <2>1. j \in Jobs /\ wk[w].pc = "exec" /\ UNCHANGED <<row, final>>
    BY <1>0, <1>20 DEF ExecEnd, At, store, Resting
  <2>2. /\ \A i \in Jobs \ {j} : leak'[w][i] = leak[w][i]
        /\ \A v \in Workers \ {w} : leak'[v] = leak[v]
    BY <1>0, <1>20 DEF ExecEnd
  <2>3. PICK verdict \in Verdicts, result \in {"check", "reject", "error"} :
           wk' = [wk EXCEPT ![w].verdict = verdict,
                      ![w].exc = IF @ = "none" /\ verdict = "quiescent" /\ result = "error"
                                 THEN "error" ELSE @,
                      ![w].pc = IF wk[w].exc # "none" THEN "finally"
                                ELSE IF verdict # "quiescent" THEN "outstanding"
                                ELSE IF result = "error" THEN "finally" ELSE result]
    BY <1>20, Zenon DEF ExecEnd
  <2>4. OthersStay(w) /\ wk'[w].pc \in {"finally", "outstanding", "check", "reject"}
    BY <1>0, <2>3 DEF OthersStay, Processes
  <2>5. \A i \in Jobs : Works(wk'[w], leak'[w][i], i) => Works(wk[w], leak[w][i], i)
    BY <2>1, <2>2, <2>4 DEF Works
  <2>6. LiveJobs' \subseteq LiveJobs
    BY <2>2, <2>4, <2>5, LiveMoves
  <2> QED BY <1>2, <2>1, <2>6
<1>21. ASSUME NEW w \in Workers, NEW j \in Jobs, LeakEnds(w, j) PROVE Implemented
  <2>1. /\ OthersStay(w) /\ UNCHANGED <<row, final, wk>>
        /\ \A v \in Workers \ {w} : leak'[v] = leak[v]
        /\ \A i \in Jobs : leak'[w][i] \in {"loose", "watched"} => leak[w][i] = leak'[w][i]
    BY <1>0, <1>21 DEF LeakEnds, OthersStay, store
  <2>2. \A i \in Jobs : Works(wk'[w], leak'[w][i], i) => Works(wk[w], leak[w][i], i)
    BY <2>1 DEF Works
  <2>3. LiveJobs' \subseteq LiveJobs
    BY <2>1, <2>2, LiveMoves
  <2> QED BY <1>2, <2>1, <2>3
<1>22. ASSUME NEW w \in Workers, NEW j \in Jobs, AttestLeak(w, j) PROVE Implemented
  <2>1. /\ OthersStay(w) /\ UNCHANGED <<final, wk>> /\ leak[w][j] = "ended"
        /\ SetRow(j, AttestedRow(row[j], w))
        /\ \A v \in Workers \ {w} : leak'[v] = leak[v]
        /\ \A i \in Jobs \ {j} : leak'[w][i] = leak[w][i]
        /\ leak'[w][j] = "none"
    BY <1>0, <1>22 DEF AttestLeak, OthersStay
  <2>2. \A i \in Jobs : Works(wk'[w], leak'[w][i], i) <=> Works(wk[w], leak[w][i], i)
    BY <2>1 DEF Works
  <2>3. LiveJobs' = LiveJobs
    BY <2>1, <2>2, LiveMoves
  <2>4. ~Works(wk[w], leak[w][j], j)
    BY <1>0, <2>1 DEF Guarded, Tidy, Works
  <2> QED BY <2>1, <2>3, <2>4, AttestImplements
<1>23. ASSUME NEW w \in Workers, Stop(w) PROVE Implemented
  <2>1. UNCHANGED <<row, final, leak>>
    BY <1>23 DEF Stop, store
  <2>2. \/ wk[w].pc = "exec" /\ Interrupt(w, "stop")
        \/ /\ wk[w].pc # "exec"
           /\ Leave(w, "stop") \/ Unwind(w, "exiting", FALSE)
    BY <1>23 DEF Stop, Interrupt, At
  <2>3. CASE wk[w].pc = "exec" /\ Interrupt(w, "stop")
    <3>1. OthersStay(w) /\ wk'[w].pc = wk[w].pc /\ wk'[w].job = wk[w].job
      BY <1>0, <2>3 DEF Interrupt, At, OthersStay, Processes
    <3>2. LiveJobs' = LiveJobs
      BY <2>1, <3>1, LiveMoves DEF Works
    <3> QED BY <1>1, <2>1, <3>2
  <2>4. CASE wk[w].pc # "exec" /\ (Leave(w, "stop") \/ Unwind(w, "exiting", FALSE))
    <3>1. OthersStay(w) /\ wk'[w].pc # "exec"
      <4>1. CASE Leave(w, "stop")
        BY <4>1, ProcessMoves
      <4>2. CASE Unwind(w, "exiting", FALSE)
        <5>1. OthersStay(w) /\ wk'[w].pc = "exiting"
          BY <4>2, ProcessMoves
        <5> QED BY <5>1
      <4> QED BY <2>4, <4>1, <4>2
    <3>2. LiveJobs' = LiveJobs
      BY <2>1, <2>4, <3>1, LiveStays
    <3> QED BY <1>1, <2>1, <3>2
  <2> QED BY <2>2, <2>3, <2>4
<1>24. ASSUME NEW w \in Workers, Die(w) PROVE LiveJobs' \subseteq LiveJobs
  <2>1. /\ OthersStay(w) /\ wk'[w].pc = "dead"
        /\ \A v \in Workers \ {w} : leak'[v] = leak[v]
        /\ \A j \in Jobs : leak'[w][j] = "none"
    BY <1>0, <1>24 DEF Die, OthersStay, IdleWorker
  <2>2. \A j \in Jobs : ~Works(wk'[w], leak'[w][j], j)
    BY <2>1 DEF Works
  <2> QED BY <2>1, <2>2, LiveMoves
<1>25. ASSUME NEW w \in Workers, Exit(w) \/ Crash(w) PROVE Implemented
  BY <1>2, <1>24, <1>25 DEF Exit, Crash, store
<1>26. ASSUME NEW w \in Workers, CrashInPublish(w) PROVE Implemented
  <2> DEFINE j == wk[w].job
  <2>1. /\ j \in Jobs /\ UNCHANGED row /\ MayComplete(row[j], w)
        /\ final' = final \cup {j} /\ Die(w)
    BY <1>0, <1>26 DEF CrashInPublish, At, Resting, store
  <2>2. Standing' = Standing /\ Holding' = Holding /\ Standing[j] = PhaseOf(row[j])
    BY <2>1 DEF Standing, PhaseOf, Holding, Outstanding, Leased, Quarantined
  <2>3. Standing[j] = "active"
    BY <2>1, <2>2, PhaseCases DEF MayComplete, HeldBy
  <2>4. j \notin LiveJobs
    BY <2>1, NobodyAccounted DEF MayComplete
  <2>5. Contract!PublishOnly(j)
    BY <1>24, <2>1, <2>2, <2>3, <2>4 DEF Contract!PublishOnly
  <2> QED BY <2>1, <2>5 DEF Implemented, Contract!Next
<1>27. ASSUME Fault PROVE FALSE
  BY <1>27 DEF Fault
<1>28. CASE Client
  <2>1. ASSUME NEW j \in Jobs, Age(j) PROVE Implemented
    BY <1>1, <1>3, <2>1 DEF Age
  <2> QED BY <1>4, <1>5, <1>28, <2>1 DEF Client
<1>29. ASSUME NEW w \in Workers,
              Pick(w) \/ Proceed(w) \/ ExecEnd(w) \/ LoseLease(w) \/ Leaked(w) \/ Failure(w)
       PROVE  Implemented
  <2>1. CASE Pick(w)
    BY <1>6, <1>7, <1>8, <2>1 DEF Pick
  <2>2. CASE Proceed(w)
    BY <1>9, <1>10, <1>11, <1>12, <1>13, <1>14, <1>15, <1>16, <1>17, <1>18, <1>19, <1>25, <2>2
       DEF Proceed
  <2>3. CASE Leaked(w)
    BY <1>21, <1>22, <1>27, <2>3 DEF Leaked, AttestLeakFails
  <2>4. CASE Failure(w)
    BY <1>23, <1>25, <1>26, <1>27, <2>4 DEF Failure, HeartbeatFails, StoreFails, PublishFails,
                                            AttestFails
  <2> QED BY <1>16, <1>20, <1>29, <2>1, <2>2, <2>3, <2>4
<1>30. CASE UNCHANGED vars
  BY <1>1, <1>3, <1>30 DEF vars
<1> QED BY <1>28, <1>29, <1>30 DEF Next

\* A queue begins as the contract does.
LEMMA QueueBeginsAsContract == Init => Contract!Init
<1> SUFFICES ASSUME Init PROVE Contract!Init
  OBVIOUS
<1>1. \A j \in Jobs : row[j].state = "absent"
  BY DEF Init, AbsentRow
<1>2. \A j \in Jobs : PhaseOf(row[j]) = "new" /\ ~Outstanding(row[j])
  BY <1>1, PhaseCases
<1>3. \A w \in Workers, j \in Jobs : ~Works(wk[w], leak[w][j], j)
  BY DEF Init, IdleWorker, Works
<1>4. LiveJobs = {}
  BY <1>3, LiveWorks
<1> QED BY <1>2, <1>4 DEF Init, Contract!Init, Standing, Holding

\* As long as no store or file operation fails, every step of rows, workers, recovery and
\* retention, crashes included, is a step of JobContract: a slot is given back, work is
\* started again or forgotten, and an outcome is decided, only as the contract allows.
THEOREM ContractIsImplemented == Spec => ImplementsContract
<1>1. ASSUME Typed, OwnersKnown, WorkGuarded, ArtifactsKnown, [Next]_vars
      PROVE  [faults' = 0 => Contract!Next]_(Contract!vars)
  <2>1. CASE faults' = 0
    <3>1. faults = 0
      BY <1>1, <2>1, NoFaultBefore
    <3> QED BY <1>1, <2>1, <3>1, ContractStep DEF WorkGuarded, Implemented
  <2> QED BY <2>1
<1> QED BY <1>1, QueueBeginsAsContract, TypedAlways, OwnersAlwaysKnown, WorkAlwaysGuarded,
           ArtifactsAlwaysKnown, PTL DEF Spec, ImplementsContract
=============================================================================
