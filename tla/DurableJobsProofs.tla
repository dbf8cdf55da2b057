------------------------- MODULE DurableJobsProofs --------------------------
(***************************************************************************)
(* Proofs about DurableJobs, for any number of jobs, tenants, workers and  *)
(* faults and any limits: rows and processes keep their types, a requested *)
(* cancellation is honoured, and the limits on queued and on slot-holding  *)
(* jobs are kept.  The types are inductive together with two facts the     *)
(* repository relies on: a queued row has attempts left (fail_attempt asks *)
(* before it requeues), and a worker that is not resting has a job.        *)
(* OneRowMoves, then, reduces every step to one move of one row, so that   *)
(* an invariant of rows needs one case per repository method, not per      *)
(* action.                                                                 *)
(***************************************************************************)
EXTENDS DurableJobs, FiniteSetTheorems, TLAPS

(* Types.                                                                   *)

\* A worker at these points holds no job; at all others it has one.
Resting == {"loop", "exiting", "dead"}

QueuedMayRun == \A j \in Jobs : row[j].state = "queued" => row[j].attempts < MaxAttempts
BusyHaveJobs == \A w \in Workers : wk[w].pc \notin Resting => wk[w].job \in Jobs
Typed == TypeOK /\ QueuedMayRun /\ BusyHaveJobs

TypedRow(r) == r \in Rows /\ (r.state = "queued" => r.attempts < MaxAttempts)
TypedProcess(p) == p \in Processes /\ (p.pc \notin Resting => p.job \in Jobs)

\* Row and process types, one row and one process at a time.
LEMMA TypedRows ==
    ASSUME Typed
    PROVE  /\ \A j \in Jobs : TypedRow(row[j])
           /\ \A w \in Workers : TypedProcess(wk[w])
BY DEF Typed, TypeOK, QueuedMayRun, BusyHaveJobs, TypedRow, TypedProcess

\* A released row (owner and lease cleared, state s) is a row.
LEMMA UnownedType ==
    ASSUME NEW r \in Rows, NEW s \in States
    PROVE  /\ Unowned(r, s) \in Rows
           /\ Unowned(r, s).state = s
           /\ Unowned(r, s).attempts = r.attempts
BY DEF Rows, Unowned

\* What attest_quiescence, mark_unknown_outstanding, complete and recover write is a
\* well-typed row, and none of them puts a row in the queue.
LEMMA RowOperatorTypes ==
    ASSUME NEW r, TypedRow(r), NEW w \in Workers, NEW found \in BOOLEAN
    PROVE  /\ TypedRow(AttestedRow(r, w))
           /\ TypedRow(OutstandingRow(r, w))
           /\ TypedRow(CompletedRow(r, w))
           /\ TypedRow(RecoveredRow(r, w, found))
<1>1. TypedRow(AttestedRow(r, w))
  BY DEF AttestedRow, MayAttest, Rows, TypedRow
<1>2. TypedRow(OutstandingRow(r, w))
  BY DEF OutstandingRow, Unowned, Rows, States, EndStates, TypedRow
<1>3. TypedRow(CompletedRow(r, w))
  BY UnownedType DEF CompletedRow, States, EndStates, TypedRow
<1>4. TypedRow(RecoveredRow(r, w, found))
  BY UnownedType DEF RecoveredRow, States, EndStates, TypedRow
<1> QED BY <1>1, <1>2, <1>3, <1>4

\* So are the row submit inserts and the one retention leaves.
LEMMA FreshRowTypes ==
    /\ TypedRow([AbsentRow EXCEPT !.state = "deleted"])
    /\ \A n \in Nat : TypedRow([AbsentRow EXCEPT !.state = "queued", !.sequence = n])
<1>1. 0 \in 0..MaxAttempts /\ 0 < MaxAttempts
  BY LimitsAssumption
<1>2. AbsentRow \in Rows /\ AbsentRow.attempts = 0
  BY <1>1 DEF AbsentRow, Rows, States
<1> QED BY <1>1, <1>2 DEF Rows, States, TypedRow

\* fail_attempt writes a well-typed row, and requeues only one with attempts left.
LEMMA FailedRowType ==
    ASSUME Typed, NEW j \in Jobs, NEW w \in Workers, NEW b \in BOOLEAN
    PROVE  TypedRow(FailedRow(j, w, b))
<1>1. {"queued", "cancelled", "failed"} \subseteq States
  BY DEF States, EndStates
<1> QED BY <1>1, UnownedType, TypedRows DEF FailedRow, TypedRow

\* claim counts the attempt up without passing max_attempts.
LEMMA ClaimedRowType ==
    ASSUME NEW r, TypedRow(r), r.state = "queued", NEW w \in Workers
    PROVE  TypedRow(ClaimedRow(r, w))
<1>1. r.attempts + 1 \in 0..MaxAttempts
  BY LimitsAssumption DEF Rows, TypedRow
<1>2. "running" \in States
  BY DEF States, LeasedStates
<1> QED BY <1>1, <1>2 DEF ClaimedRow, Rows, TypedRow

\* Writing a well-typed row keeps the table well-typed.
LEMMA RowChangeTyped ==
    ASSUME Typed, NEW j \in Jobs, NEW r, TypedRow(r), SetRow(j, r)
    PROVE  row' \in [Jobs -> Rows] /\ QueuedMayRun'
BY DEF Typed, TypeOK, QueuedMayRun, TypedRow, SetRow

\* A worker that moves to a well-typed state keeps the processes well-typed.
LEMMA ProcessChangeTyped ==
    ASSUME Typed, NEW w \in Workers, NEW p, TypedProcess(p), wk' = [wk EXCEPT ![w] = p]
    PROVE  wk' \in [Workers -> Processes] /\ BusyHaveJobs'
BY DEF Typed, TypeOK, BusyHaveJobs, TypedProcess

\* The ways a worker moves from one await to the next keep the processes well-typed.
LEMMA MovesTyped ==
    ASSUME Typed, NEW w \in Workers
    PROVE  /\ Return(w) => wk' \in [Workers -> Processes] /\ BusyHaveJobs'
           /\ \A c \in PCs : (c \notin Resting => wk[w].job \in Jobs) /\ Goto(w, c) =>
                                wk' \in [Workers -> Processes] /\ BusyHaveJobs'
           /\ \A c \in PCs, b \in BOOLEAN :
                 (c \notin Resting => wk[w].job \in Jobs) /\ Unwind(w, c, b) =>
                                wk' \in [Workers -> Processes] /\ BusyHaveJobs'
           /\ \A e \in {"none", "error", "stop"} : wk[w].job \in Jobs /\ Leave(w, e) =>
                                wk' \in [Workers -> Processes] /\ BusyHaveJobs'
<1>1. wk[w] \in Processes /\ wk \in [Workers -> Processes]
  BY DEF Typed, TypeOK
<1>2. TypedProcess(IdleWorker)
  BY DEF IdleWorker, Processes, PCs, Verdicts, TypedProcess, Resting
<1>3. Return(w) => wk' \in [Workers -> Processes] /\ BusyHaveJobs'
  BY <1>2, ProcessChangeTyped DEF Return
<1>4. ASSUME NEW c \in PCs, c \notin Resting => wk[w].job \in Jobs, Goto(w, c)
      PROVE  wk' \in [Workers -> Processes] /\ BusyHaveJobs'
  <2> DEFINE p == [wk[w] EXCEPT !.pc = c]
  <2>1. TypedProcess(p)
    BY <1>1, <1>4 DEF Processes, TypedProcess
  <2>2. wk' = [wk EXCEPT ![w] = p]
    BY <1>1, <1>4 DEF Goto
  <2> HIDE DEF p
  <2> QED BY <2>1, <2>2, ProcessChangeTyped
<1>5. ASSUME NEW c \in PCs, NEW b \in BOOLEAN, c \notin Resting => wk[w].job \in Jobs,
             Unwind(w, c, b)
      PROVE  wk' \in [Workers -> Processes] /\ BusyHaveJobs'
  <2> DEFINE p == [IdleWorker EXCEPT !.pc = c, !.job = wk[w].job, !.lost = b]
  <2>1. TypedProcess(p)
    BY <1>1, <1>2, <1>5 DEF Processes, TypedProcess, IdleWorker, Verdicts
  <2>2. wk' = [wk EXCEPT ![w] = p]
    BY <1>1, <1>5 DEF Unwind
  <2> HIDE DEF p
  <2> QED BY <2>1, <2>2, ProcessChangeTyped
<1>6. ASSUME NEW e \in {"none", "error", "stop"}, wk[w].job \in Jobs, Leave(w, e)
      PROVE  wk' \in [Workers -> Processes] /\ BusyHaveJobs'
  <2> DEFINE p == [wk[w] EXCEPT !.pc = "finally", !.exc = e]
  <2>1. TypedProcess(p)
    BY <1>1, <1>6 DEF Processes, TypedProcess, PCs, Resting
  <2>2. wk' = [wk EXCEPT ![w] = p]
    BY <1>1, <1>6 DEF Leave
  <2> HIDE DEF p
  <2> QED BY <2>1, <2>2, ProcessChangeTyped
<1> QED BY <1>3, <1>4, <1>5, <1>6

\* Every step keeps the types: one case per action.
LEMMA TypedStep ==
    ASSUME Typed, [Next]_vars
    PROVE  Typed'
<1> USE DEF Resting
<1>0. /\ \A j \in Jobs : TypedRow(row[j]) /\ row[j] \in Rows
      /\ \A w \in Workers : TypedProcess(wk[w]) /\ wk[w] \in Processes
      /\ TypeOK
  BY TypedRows DEF TypedRow, TypedProcess, Typed
<1>1. CASE vars' = vars
  BY <1>1 DEF vars, Typed, TypeOK, QueuedMayRun, BusyHaveJobs
<1>2. ASSUME NEW j \in Jobs, Submit(j) PROVE Typed'
  <2>1. enqueues + 1 \in Nat
    BY <1>0 DEF TypeOK
  <2>2. row' \in [Jobs -> Rows] /\ QueuedMayRun'
    BY <1>2, <2>1, FreshRowTypes, RowChangeTyped DEF Submit
  <2> QED BY <1>0, <1>2, <2>1, <2>2 DEF Submit, Typed, TypeOK, BusyHaveJobs
<1>3. ASSUME NEW j \in Jobs, Cancel(j) PROVE Typed'
  <2> DEFINE r == [row[j] EXCEPT !.cancel = TRUE,
                     !.state = IF @ = "queued" THEN "cancelled" ELSE @]
  <2>1. TypedRow(r)
    BY <1>0 DEF Rows, TypedRow, States, EndStates
  <2>2. SetRow(j, r)
    BY <1>3 DEF Cancel
  <2> HIDE DEF r
  <2>3. row' \in [Jobs -> Rows] /\ QueuedMayRun'
    BY <2>1, <2>2, RowChangeTyped
  <2> QED BY <1>0, <1>3, <2>3 DEF Cancel, Typed, TypeOK, BusyHaveJobs
<1>4. ASSUME NEW j \in Jobs, Age(j) PROVE Typed'
  BY <1>0, <1>4 DEF Age, Typed, TypeOK, QueuedMayRun, BusyHaveJobs
<1>5. ASSUME NEW w \in Workers, NEW j \in Jobs, Claim(w, j) PROVE Typed'
  <2>1. row' \in [Jobs -> Rows] /\ QueuedMayRun'
    BY <1>0, <1>5, ClaimedRowType, RowChangeTyped DEF Claim, NextToRun, Queued
  <2> DEFINE p == [wk[w] EXCEPT !.pc = "gate", !.job = j]
  <2>2. TypedProcess(p)
    BY <1>0 DEF Processes, TypedProcess, PCs
  <2>3. wk' = [wk EXCEPT ![w] = p]
    BY <1>0, <1>5 DEF Claim, TypeOK
  <2> HIDE DEF p
  <2>4. wk' \in [Workers -> Processes] /\ BusyHaveJobs'
    BY <2>2, <2>3, ProcessChangeTyped
  <2> QED BY <1>0, <1>5, <2>1, <2>4, JobsAssumption DEF Claim, Typed, TypeOK
<1>6. ASSUME NEW w \in Workers, NEW j \in Jobs, Fence(w, j) PROVE Typed'
  <2> DEFINE r == [row[j] EXCEPT !.owner = w, !.fenced = TRUE,
                     !.unproven = IF @ = NoWorker THEN row[j].owner ELSE @]
             p == [wk[w] EXCEPT !.pc = "look", !.job = j,
                     !.publishing = row[j].state = "publishing"]
  <2>1. TypedRow(r)
    BY <1>0 DEF Rows, TypedRow
  <2>2. SetRow(j, r)
    BY <1>6 DEF Fence
  <2>3. TypedProcess(p)
    BY <1>0 DEF Processes, TypedProcess, PCs
  <2>4. wk' = [wk EXCEPT ![w] = p]
    BY <1>0, <1>6 DEF Fence, TypeOK
  <2> HIDE DEF r, p
  <2>5. /\ row' \in [Jobs -> Rows] /\ QueuedMayRun'
        /\ wk' \in [Workers -> Processes] /\ BusyHaveJobs'
    BY <2>1, <2>2, <2>3, <2>4, RowChangeTyped, ProcessChangeTyped
  <2> QED BY <1>0, <1>6, <2>5 DEF Fence, Typed, TypeOK
<1>7. ASSUME NEW w \in Workers, NEW j \in Jobs, PurgeFiles(w, j) PROVE Typed'
  <2> DEFINE p == [wk[w] EXCEPT !.pc = "purge", !.job = j]
  <2>1. TypedProcess(p)
    BY <1>0 DEF Processes, TypedProcess, PCs
  <2>2. wk' = [wk EXCEPT ![w] = p]
    BY <1>0, <1>7 DEF PurgeFiles, TypeOK
  <2> HIDE DEF p
  <2>3. wk' \in [Workers -> Processes] /\ BusyHaveJobs'
    BY <2>1, <2>2, ProcessChangeTyped
  <2> QED BY <1>0, <1>7, <2>3 DEF PurgeFiles, Typed, TypeOK, QueuedMayRun, store
<1>8. ASSUME NEW w \in Workers, Gate(w) PROVE Typed'
  <2>1. wk' \in [Workers -> Processes] /\ BusyHaveJobs'
    BY <1>0, <1>8, MovesTyped DEF Gate, At, TypedProcess, PCs, InGroup
  <2> QED BY <1>0, <1>8, <2>1 DEF Gate, Typed, TypeOK, QueuedMayRun, store
<1>9. ASSUME NEW w \in Workers, Late(w) PROVE Typed'
  <2>1. wk[w].job \in Jobs
    BY <1>0, <1>9 DEF Late, At, TypedProcess
  <2>2. row' \in [Jobs -> Rows] /\ QueuedMayRun'
    BY <1>0, <1>9, <2>1, RowOperatorTypes, RowChangeTyped DEF Late
  <2>3. wk' \in [Workers -> Processes] /\ BusyHaveJobs'
    BY <1>9, <2>1, MovesTyped DEF Late, PCs
  <2> QED BY <1>0, <1>9, <2>2, <2>3 DEF Late, Typed, TypeOK
<1>10. ASSUME NEW w \in Workers, Drop(w) PROVE Typed'
  <2>1. wk[w].job \in Jobs
    BY <1>0, <1>10 DEF Drop, At, TypedProcess
  <2>2. row' \in [Jobs -> Rows] /\ QueuedMayRun'
    BY <1>0, <1>10, <2>1, FailedRowType, RowChangeTyped DEF Drop
  <2>3. wk' \in [Workers -> Processes] /\ BusyHaveJobs'
    BY <1>10, <2>1, MovesTyped DEF Drop, PCs
  <2> QED BY <1>0, <1>10, <2>2, <2>3 DEF Drop, Typed, TypeOK
<1>11. ASSUME NEW w \in Workers, MarkOutstanding(w) PROVE Typed'
  <2>1. wk[w].job \in Jobs
    BY <1>0, <1>11 DEF MarkOutstanding, At, TypedProcess
  <2>2. row' \in [Jobs -> Rows] /\ QueuedMayRun'
    BY <1>0, <1>11, <2>1, RowOperatorTypes, RowChangeTyped DEF MarkOutstanding
  <2>3. wk' \in [Workers -> Processes] /\ BusyHaveJobs'
    BY <1>11, <2>1, MovesTyped DEF MarkOutstanding, PCs
  <2>4. leak' \in [Workers -> [Jobs -> LeakStates]]
    BY <1>0, <1>11, <2>1 DEF MarkOutstanding, TypeOK, LeakStates
  <2> QED BY <1>0, <1>11, <2>2, <2>3, <2>4 DEF MarkOutstanding, Typed, TypeOK
<1>12. ASSUME NEW w \in Workers, Reject(w) PROVE Typed'
  <2>1. wk[w].job \in Jobs
    BY <1>0, <1>12 DEF Reject, At, TypedProcess
  <2>2. row' \in [Jobs -> Rows] /\ QueuedMayRun'
    BY <1>0, <1>12, <2>1, FailedRowType, RowChangeTyped DEF Reject
  <2>3. wk' \in [Workers -> Processes] /\ BusyHaveJobs'
    BY <1>12, <2>1, MovesTyped DEF Reject, PCs
  <2> QED BY <1>0, <1>12, <2>2, <2>3 DEF Reject, Typed, TypeOK
<1>13. ASSUME NEW w \in Workers, Check(w) PROVE Typed'
  <2>1. wk' \in [Workers -> Processes] /\ BusyHaveJobs'
    BY <1>0, <1>13, MovesTyped DEF Check, At, TypedProcess, PCs, InGroup
  <2> QED BY <1>0, <1>13, <2>1 DEF Check, Typed, TypeOK, QueuedMayRun, store
<1>14. ASSUME NEW w \in Workers, Discard(w) PROVE Typed'
  <2>1. wk[w].job \in Jobs
    BY <1>0, <1>14 DEF Discard, At, TypedProcess
  <2>2. row' \in [Jobs -> Rows] /\ QueuedMayRun'
    BY <1>0, <1>14, <2>1, FailedRowType, RowChangeTyped DEF Discard
  <2>3. wk' \in [Workers -> Processes] /\ BusyHaveJobs'
    BY <1>14, <2>1, MovesTyped DEF Discard, PCs
  <2> QED BY <1>0, <1>14, <2>2, <2>3 DEF Discard, Typed, TypeOK
<1>15. ASSUME NEW w \in Workers, Begin(w) PROVE Typed'
  <2>1. wk[w].job \in Jobs
    BY <1>0, <1>15 DEF Begin, At, TypedProcess
  <2>2. row' \in [Jobs -> Rows] /\ QueuedMayRun'
    <3> DEFINE r == IF MayBegin(row[wk[w].job], w)
                    THEN [row[wk[w].job] EXCEPT !.state = "publishing"] ELSE row[wk[w].job]
    <3>1. TypedRow(r)
      BY <1>0, <2>1 DEF TypedRow, Rows, States, LeasedStates
    <3>2. SetRow(wk[w].job, r)
      BY <1>15 DEF Begin
    <3> HIDE DEF r
    <3> QED BY <2>1, <3>1, <3>2, RowChangeTyped
  <2>3. wk' \in [Workers -> Processes] /\ BusyHaveJobs'
    BY <1>15, <2>1, MovesTyped DEF Begin, PCs, InGroup
  <2> QED BY <1>0, <1>15, <2>2, <2>3 DEF Begin, Typed, TypeOK
<1>16. ASSUME NEW w \in Workers, Publish(w) PROVE Typed'
  <2>1. wk[w].job \in Jobs
    BY <1>0, <1>16 DEF Publish, At, TypedProcess
  <2>2. row' \in [Jobs -> Rows] /\ QueuedMayRun'
    BY <1>0, <1>16, <2>1, RowOperatorTypes, RowChangeTyped DEF Publish
  <2>3. wk' \in [Workers -> Processes] /\ BusyHaveJobs'
    BY <1>16, <2>1, MovesTyped DEF Publish, PCs
  <2>4. final' \subseteq Jobs
    BY <1>0, <1>16, <2>1 DEF Publish, TypeOK
  <2> QED BY <1>0, <1>16, <2>2, <2>3, <2>4 DEF Publish, Typed, TypeOK
<1>17. ASSUME NEW w \in Workers, Finally(w) PROVE Typed'
  <2>1. wk[w].job \in Jobs /\ wk[w].lost \in BOOLEAN
    BY <1>0, <1>17 DEF Finally, At, TypedProcess, Processes
  <2>2. row' \in [Jobs -> Rows] /\ QueuedMayRun'
    BY <1>0, <1>17, <2>1, RowOperatorTypes, RowChangeTyped DEF Finally
  <2>3. AfterFinally(wk[w].exc) \in PCs
    BY DEF AfterFinally, PCs
  <2>4. wk' \in [Workers -> Processes] /\ BusyHaveJobs'
    BY <1>17, <2>1, <2>3, MovesTyped DEF Finally
  <2> QED BY <1>0, <1>17, <2>2, <2>4 DEF Finally, Typed, TypeOK
<1>18. ASSUME NEW w \in Workers, Except(w) PROVE Typed'
  <2>1. wk[w].job \in Jobs
    BY <1>0, <1>18 DEF Except, At, TypedProcess
  <2>2. wk' \in [Workers -> Processes] /\ BusyHaveJobs'
    BY <1>18, <2>1, MovesTyped DEF Except, PCs
  <2> QED BY <1>0, <1>18, <2>2 DEF Except, Typed, TypeOK, QueuedMayRun, store
<1>19. ASSUME NEW w \in Workers, Revive(w) PROVE Typed'
  <2>1. wk[w].job \in Jobs
    BY <1>0, <1>19 DEF Revive, At, TypedProcess
  <2>2. row' \in [Jobs -> Rows] /\ QueuedMayRun'
    BY <1>0, <1>19, <2>1, RowOperatorTypes, RowChangeTyped DEF Revive
  <2>3. wk' \in [Workers -> Processes] /\ BusyHaveJobs'
    BY <1>19, <2>1, MovesTyped DEF Revive, PCs
  <2> QED BY <1>0, <1>19, <2>2, <2>3 DEF Revive, Typed, TypeOK
<1>20. ASSUME NEW w \in Workers, Giveup(w) PROVE Typed'
  <2>1. wk[w].job \in Jobs
    BY <1>0, <1>20 DEF Giveup, At, TypedProcess
  <2>2. row' \in [Jobs -> Rows] /\ QueuedMayRun'
    BY <1>0, <1>20, <2>1, FailedRowType, RowChangeTyped DEF Giveup
  <2>3. wk' \in [Workers -> Processes] /\ BusyHaveJobs'
    BY <1>20, <2>1, MovesTyped DEF Giveup, PCs
  <2> QED BY <1>0, <1>20, <2>2, <2>3 DEF Giveup, Typed, TypeOK
<1>21. ASSUME NEW w \in Workers, NEW j \in Jobs, LeakEnds(w, j) PROVE Typed'
  BY <1>0, <1>21 DEF LeakEnds, Typed, TypeOK, QueuedMayRun, BusyHaveJobs, store, LeakStates
<1>22. ASSUME NEW w \in Workers, NEW j \in Jobs, AttestLeak(w, j) PROVE Typed'
  <2>1. row' \in [Jobs -> Rows] /\ QueuedMayRun'
    BY <1>0, <1>22, RowOperatorTypes, RowChangeTyped DEF AttestLeak
  <2>2. leak' \in [Workers -> [Jobs -> LeakStates]]
    BY <1>0, <1>22 DEF AttestLeak, TypeOK, LeakStates
  <2>3. UNCHANGED <<enqueues, claims, lastServed, final, aged, wk, faults>>
    BY <1>22 DEF AttestLeak
  <2> QED BY <1>0, <2>1, <2>2, <2>3 DEF Typed, TypeOK, BusyHaveJobs
<1>23. ASSUME NEW w \in Workers, Look(w) PROVE Typed'
  <2> DEFINE b == wk[w].job \in final
             p == [wk[w] EXCEPT !.pc = "clean", !.found = b]
  <2>1. wk' = [wk EXCEPT ![w] = p]
    BY <1>0, <1>23 DEF Look, TypeOK
  <2>2. b \in BOOLEAN
    OBVIOUS
  <2> HIDE DEF b
  <2>3. TypedProcess(p)
    BY <1>0, <1>23, <2>2 DEF Look, At, Processes, TypedProcess, PCs
  <2> HIDE DEF p
  <2>4. wk' \in [Workers -> Processes] /\ BusyHaveJobs'
    BY <2>1, <2>3, ProcessChangeTyped
  <2> QED BY <1>0, <1>23, <2>4 DEF Look, Typed, TypeOK, QueuedMayRun, store
<1>24. ASSUME NEW w \in Workers, Clean(w) PROVE Typed'
  <2>1. wk' \in [Workers -> Processes] /\ BusyHaveJobs'
    BY <1>0, <1>24, MovesTyped DEF Clean, At, TypedProcess, PCs, InGroup
  <2> QED BY <1>0, <1>24, <2>1 DEF Clean, Typed, TypeOK, QueuedMayRun, store
<1>25. ASSUME NEW w \in Workers, Settle(w) PROVE Typed'
  <2>1. wk[w].job \in Jobs /\ (wk[w].found /\ wk[w].job \in final) \in BOOLEAN
    BY <1>0, <1>25 DEF Settle, At, TypedProcess
  <2>2. row' \in [Jobs -> Rows] /\ QueuedMayRun'
    BY <1>0, <1>25, <2>1, RowOperatorTypes, RowChangeTyped DEF Settle
  <2>3. wk' \in [Workers -> Processes] /\ BusyHaveJobs'
    BY <1>25, MovesTyped DEF Settle
  <2> QED BY <1>0, <1>25, <2>2, <2>3 DEF Settle, Typed, TypeOK
<1>26. ASSUME NEW w \in Workers, PurgeRow(w) PROVE Typed'
  <2>1. wk[w].job \in Jobs
    BY <1>0, <1>26 DEF PurgeRow, At, TypedProcess
  <2>2. row' \in [Jobs -> Rows] /\ QueuedMayRun'
    BY <1>0, <1>26, <2>1, FreshRowTypes, RowChangeTyped DEF PurgeRow
  <2>3. wk' \in [Workers -> Processes] /\ BusyHaveJobs'
    BY <1>26, <2>1, MovesTyped DEF PurgeRow, PCs
  <2> QED BY <1>0, <1>26, <2>2, <2>3 DEF PurgeRow, Typed, TypeOK
<1>27. ASSUME NEW w \in Workers, ExecEnd(w) PROVE Typed'
  <2>1. PICK verdict \in Verdicts, result \in {"check", "reject", "error"} :
           /\ leak' \in {leak, [leak EXCEPT ![w][wk[w].job] = "loose"],
                               [leak EXCEPT ![w][wk[w].job] = "over"]}
           /\ wk' = [wk EXCEPT ![w].verdict = verdict,
                      ![w].exc = IF @ = "none" /\ verdict = "quiescent" /\ result = "error"
                                 THEN "error" ELSE @,
                      ![w].pc = IF wk[w].exc # "none" THEN "finally"
                                ELSE IF verdict # "quiescent" THEN "outstanding"
                                ELSE IF result = "error" THEN "finally" ELSE result]
    BY <1>27, Zenon DEF ExecEnd
  <2>2. wk[w].job \in Jobs
    BY <1>0, <1>27 DEF ExecEnd, At, TypedProcess
  <2>3. leak' \in [Workers -> [Jobs -> LeakStates]]
    BY <1>0, <2>1, <2>2 DEF TypeOK, LeakStates
  <2> DEFINE e == IF wk[w].exc = "none" /\ verdict = "quiescent" /\ result = "error"
                  THEN "error" ELSE wk[w].exc
             c == IF wk[w].exc # "none" THEN "finally"
                  ELSE IF verdict # "quiescent" THEN "outstanding"
                  ELSE IF result = "error" THEN "finally" ELSE result
             p == [wk[w] EXCEPT !.verdict = verdict, !.exc = e, !.pc = c]
  <2>4. wk' = [wk EXCEPT ![w] = p]
    BY <1>0, <2>1 DEF TypeOK
  <2>5. e \in {"none", "error", "stop"} /\ c \in PCs
    BY <1>0 DEF Processes, PCs, InGroup
  <2> HIDE DEF e, c
  <2>6. TypedProcess(p)
    BY <1>0, <2>2, <2>5 DEF Processes, TypedProcess
  <2> HIDE DEF p
  <2>7. wk' \in [Workers -> Processes] /\ BusyHaveJobs'
    BY <2>4, <2>6, ProcessChangeTyped
  <2> QED BY <1>0, <1>27, <2>3, <2>7 DEF ExecEnd, Typed, TypeOK, QueuedMayRun, store
<1>28. ASSUME NEW w \in Workers, LoseLease(w) PROVE Typed'
  <2> DEFINE p == [wk[w] EXCEPT !.lost = TRUE]
  <2>1. TypedProcess(p)
    BY <1>0 DEF Processes, TypedProcess
  <2>2. wk' = [wk EXCEPT ![w] = p]
    BY <1>0, <1>28 DEF LoseLease, TypeOK
  <2> HIDE DEF p
  <2>3. wk' \in [Workers -> Processes] /\ BusyHaveJobs'
    BY <2>1, <2>2, ProcessChangeTyped
  <2> QED BY <1>0, <1>28, <2>3 DEF LoseLease, Typed, TypeOK, QueuedMayRun, store
<1>29. ASSUME NEW w \in Workers, NEW e \in {"error", "stop"}, wk[w].pc \in InGroup,
             Interrupt(w, e), UNCHANGED <<store, final, aged, leak>>, faults' \in 0..MaxFaults
      PROVE  Typed'
  <2>1. wk[w].job \in Jobs
    BY <1>0, <1>29 DEF TypedProcess, InGroup
  <2> DEFINE p == [wk[w] EXCEPT !.exc = e]
  <2>2. TypedProcess(p)
    BY <1>0, <2>1 DEF Processes, TypedProcess
  <2>3. At(w, "exec") => wk' = [wk EXCEPT ![w] = p]
    BY <1>0, <1>29 DEF Interrupt, TypeOK
  <2> HIDE DEF p
  <2>4. wk' \in [Workers -> Processes] /\ BusyHaveJobs'
    BY <1>29, <2>1, <2>2, <2>3, ProcessChangeTyped, MovesTyped DEF Interrupt
  <2> QED BY <1>0, <1>29, <2>4 DEF Typed, TypeOK, QueuedMayRun, store
<1>30. Fault => faults' \in 0..MaxFaults
  BY <1>0, LimitsAssumption DEF Fault, TypeOK
<1>31. ASSUME NEW w \in Workers, HeartbeatFails(w) PROVE Typed'
  BY <1>29, <1>30, <1>31 DEF HeartbeatFails
<1>32. ASSUME NEW w \in Workers, StoreFails(w) PROVE Typed'
  <2>1. wk[w].job \in Jobs
    BY <1>0, <1>32 DEF StoreFails, InGroup, TypedProcess
  <2>2. wk' \in [Workers -> Processes] /\ BusyHaveJobs'
    BY <1>32, <2>1, MovesTyped DEF StoreFails
  <2> QED BY <1>0, <1>30, <1>32, <2>2 DEF StoreFails, Typed, TypeOK, QueuedMayRun, store
<1>33. ASSUME NEW w \in Workers, PublishFails(w) PROVE Typed'
  <2>1. wk[w].job \in Jobs
    BY <1>0, <1>33 DEF PublishFails, At, TypedProcess
  <2>2. wk' \in [Workers -> Processes] /\ BusyHaveJobs'
    BY <1>33, <2>1, MovesTyped DEF PublishFails
  <2> QED BY <1>0, <1>30, <1>33, <2>1, <2>2 DEF PublishFails, Typed, TypeOK, QueuedMayRun, store
<1>34. ASSUME NEW w \in Workers, AttestFails(w) PROVE Typed'
  <2>1. wk[w].job \in Jobs /\ wk[w].lost \in BOOLEAN
    BY <1>0, <1>34 DEF AttestFails, At, TypedProcess, Processes
  <2>2. wk' \in [Workers -> Processes] /\ BusyHaveJobs'
    BY <1>34, <2>1, MovesTyped DEF AttestFails, PCs
  <2> QED BY <1>0, <1>30, <1>34, <2>2 DEF AttestFails, Typed, TypeOK, QueuedMayRun, store
<1>35. ASSUME NEW w \in Workers, NEW j \in Jobs, AttestLeakFails(w, j) PROVE Typed'
  BY <1>0, <1>30, <1>35
     DEF AttestLeakFails, Typed, TypeOK, QueuedMayRun, BusyHaveJobs, store, LeakStates
<1>36. ASSUME NEW w \in Workers, Stop(w) PROVE Typed'
  <2>1. CASE wk[w].pc \in InGroup /\ Interrupt(w, "stop")
    BY <1>0, <1>29, <1>36, <2>1 DEF Stop, TypeOK
  <2>2. CASE Unwind(w, "exiting", FALSE)
    <3>1. wk' \in [Workers -> Processes] /\ BusyHaveJobs'
      BY <2>2, MovesTyped DEF PCs
    <3> QED BY <1>0, <1>36, <3>1 DEF Stop, Typed, TypeOK, QueuedMayRun, store
  <2> QED BY <1>36, <2>1, <2>2 DEF Stop
<1>37. ASSUME NEW w \in Workers, Die(w), UNCHANGED <<store, aged, faults>>,
              final' \subseteq Jobs
       PROVE  Typed'
  <2> DEFINE p == [IdleWorker EXCEPT !.pc = "dead"]
  <2>1. TypedProcess(p)
    BY DEF IdleWorker, Processes, PCs, Verdicts, TypedProcess
  <2>2. wk' = [wk EXCEPT ![w] = p]
    BY <1>37 DEF Die
  <2> HIDE DEF p
  <2>3. wk' \in [Workers -> Processes] /\ BusyHaveJobs'
    BY <2>1, <2>2, ProcessChangeTyped
  <2>4. leak' \in [Workers -> [Jobs -> LeakStates]]
    BY <1>0, <1>37 DEF Die, TypeOK, LeakStates
  <2> QED BY <1>0, <1>37, <2>3, <2>4 DEF Typed, TypeOK, QueuedMayRun, store
<1>38. ASSUME NEW w \in Workers, Exit(w) \/ Crash(w) \/ CrashInPublish(w) PROVE Typed'
  <2>1. CASE Exit(w) \/ Crash(w)
    BY <1>0, <1>37, <2>1 DEF Exit, Crash, TypeOK
  <2>2. CASE CrashInPublish(w)
    <3>1. wk[w].job \in Jobs
      BY <1>0, <2>2 DEF CrashInPublish, At, TypedProcess
    <3> QED BY <1>0, <1>37, <2>2, <3>1 DEF CrashInPublish, TypeOK
  <2> QED BY <1>38, <2>1, <2>2
<1> QED
  BY <1>1, <1>2, <1>3, <1>4, <1>5, <1>6, <1>7, <1>8, <1>9, <1>10, <1>11, <1>12, <1>13, <1>14,
     <1>15, <1>16, <1>17, <1>18, <1>19, <1>20, <1>21, <1>22, <1>23, <1>24, <1>25, <1>26, <1>27,
     <1>28, <1>29, <1>30, <1>31, <1>32, <1>33, <1>34, <1>35, <1>36, <1>37, <1>38
  DEF Next, Client, Pick, Proceed, Leaked, Failure

\* The empty queue and idle workers are well-typed.
LEMMA TypedInit == Init => Typed
<1> SUFFICES ASSUME Init PROVE Typed
  OBVIOUS
<1>1. AbsentRow \in Rows /\ AbsentRow.state # "queued"
  BY LimitsAssumption DEF AbsentRow, Rows, States
<1>2. TypedProcess(IdleWorker)
  BY DEF IdleWorker, Processes, PCs, Verdicts, TypedProcess, Resting
<1>3. /\ row \in [Jobs -> Rows] /\ QueuedMayRun
      /\ wk \in [Workers -> Processes] /\ BusyHaveJobs
  BY <1>1, <1>2 DEF Init, QueuedMayRun, BusyHaveJobs, TypedProcess
<1> QED BY <1>3, LimitsAssumption DEF Init, Typed, TypeOK, LeakStates

\* The strengthened type invariant holds in every reachable state.
THEOREM TypedAlways == Spec => []Typed
BY TypedInit, TypedStep, PTL DEF Spec

\* Rows, counters, processes and leftover work keep their types: in particular no
\* row is claimed more than max_attempts times (claim, fail_attempt).
THEOREM TypeCorrect == Spec => []TypeOK
<1>1. Typed => TypeOK
  BY DEF Typed
<1> QED BY <1>1, TypedAlways, PTL

-----------------------------------------------------------------------------
(* Rows.                                                                    *)

FencedRow(r, w) == [r EXCEPT !.owner = w, !.fenced = TRUE,
                       !.unproven = IF @ = NoWorker THEN r.owner ELSE @]

\* Client: the new row r of job j after a step of a client.
ClientMove(j, r) ==
    \/ /\ row[j].state = "absent" /\ ~KeyTaken(j) /\ RoomToQueue(Owner[j])
       /\ r = [AbsentRow EXCEPT !.state = "queued", !.sequence = enqueues + 1]
    \/ /\ row[j].state \in {"queued", "running"}
       /\ r = [row[j] EXCEPT !.cancel = TRUE,
                     !.state = IF @ = "queued" THEN "cancelled" ELSE @]

\* and after a step of worker w.
WorkerMove(j, w, r) ==
    \/ NextToRun(j) /\ r = ClaimedRow(row[j], w)
    \/ r = AttestedRow(row[j], w)
    \/ \E b \in BOOLEAN : r = FailedRow(j, w, b)
    \/ r = OutstandingRow(row[j], w)
    \/ MayBegin(row[j], w) /\ r = [row[j] EXCEPT !.state = "publishing"]
    \/ r = CompletedRow(row[j], w)
    \/ Leased(row[j]) /\ r = FencedRow(row[j], w)
    \/ \E b \in BOOLEAN : r = RecoveredRow(row[j], w, b)
    \/ Deletable(row[j]) /\ r = [AbsentRow EXCEPT !.state = "deleted"]

RowMove(j, r) == ClientMove(j, r) \/ \E w \in Workers : WorkerMove(j, w, r)

\* Every step leaves the table alone or makes one move of one row.
LEMMA OneRowMoves ==
    ASSUME Typed, [Next]_vars
    PROVE  UNCHANGED row \/ \E j \in Jobs : \E r : RowMove(j, r) /\ SetRow(j, r)
<1> DEFINE Moved == \E j \in Jobs : \E r : RowMove(j, r) /\ SetRow(j, r)
<1>0. /\ \A w \in Workers : wk[w].pc \notin Resting => wk[w].job \in Jobs
      /\ row \in [Jobs -> Rows]
  BY DEF Typed, TypeOK, BusyHaveJobs
<1>1. ASSUME NEW j \in Jobs, Submit(j) PROVE Moved
  BY <1>1 DEF Submit, RowMove, ClientMove
<1>2. ASSUME NEW j \in Jobs, Cancel(j) PROVE Moved
  BY <1>2 DEF Cancel, RowMove, ClientMove
<1>3. ASSUME NEW w \in Workers, NEW j \in Jobs, NEW r, WorkerMove(j, w, r), SetRow(j, r)
      PROVE  Moved
  BY <1>3 DEF RowMove
<1>4. ASSUME NEW w \in Workers, NEW j \in Jobs, Claim(w, j) \/ Fence(w, j) \/ AttestLeak(w, j)
      PROVE  Moved
  <2>1. CASE Claim(w, j)
    BY <1>3, <2>1 DEF Claim, WorkerMove
  <2>2. CASE Fence(w, j)
    <3>1. SetRow(j, FencedRow(row[j], w)) /\ Leased(row[j])
      BY <2>2 DEF Fence, FencedRow
    <3> QED BY <1>3, <3>1 DEF WorkerMove
  <2>3. CASE AttestLeak(w, j)
    BY <1>3, <2>3 DEF AttestLeak, WorkerMove
  <2> QED BY <1>4, <2>1, <2>2, <2>3
<1>5. ASSUME NEW w \in Workers,
             Late(w) \/ Drop(w) \/ MarkOutstanding(w) \/ Reject(w) \/ Discard(w) \/ Begin(w)
             \/ Publish(w) \/ Finally(w) \/ Revive(w) \/ Giveup(w) \/ Settle(w) \/ PurgeRow(w)
      PROVE  UNCHANGED row \/ Moved
  <2> DEFINE j == wk[w].job
  <2>1. j \in Jobs
    BY <1>0, <1>5 DEF Late, Drop, MarkOutstanding, Reject, Discard, Begin, Publish, Finally,
                      Revive, Giveup, Settle, PurgeRow, At, Resting
  <2>2. SetRow(j, row[j]) => UNCHANGED row
    BY <1>0, <2>1 DEF SetRow
  <2> HIDE DEF j
  <2>3. ASSUME NEW r, WorkerMove(j, w, r), SetRow(j, r) PROVE Moved
    BY <1>3, <2>1, <2>3
  <2>4. CASE Late(w) \/ Finally(w)
    <3>1. SetRow(j, AttestedRow(row[j], w)) \/ SetRow(j, row[j])
      BY <2>4, Zenon DEF Late, Finally, j
    <3> QED BY <2>2, <2>3, <3>1 DEF WorkerMove
  <2>5. CASE Drop(w) \/ Reject(w) \/ Discard(w) \/ Giveup(w)
    <3>1. \E b \in BOOLEAN : SetRow(j, FailedRow(j, w, b))
      BY <2>5 DEF Drop, Reject, Discard, Giveup, j
    <3> QED BY <2>3, <3>1 DEF WorkerMove
  <2>6. CASE MarkOutstanding(w)
    <3>1. SetRow(j, OutstandingRow(row[j], w))
      BY <2>6 DEF MarkOutstanding, j
    <3> QED BY <2>3, <3>1 DEF WorkerMove
  <2>7. CASE Begin(w)
    <3>1. CASE MayBegin(row[j], w)
      <4>1. SetRow(j, [row[j] EXCEPT !.state = "publishing"])
        BY <2>7, <3>1 DEF Begin, j
      <4> QED BY <2>3, <3>1, <4>1 DEF WorkerMove
    <3>2. CASE ~MayBegin(row[j], w)
      BY <2>2, <2>7, <3>2 DEF Begin, j
    <3> QED BY <3>1, <3>2
  <2>8. CASE Publish(w) \/ Revive(w)
    <3>1. SetRow(j, CompletedRow(row[j], w))
      BY <2>8 DEF Publish, Revive, j
    <3> QED BY <2>3, <3>1 DEF WorkerMove
  <2>9. CASE Settle(w)
    <3>1. \E b \in BOOLEAN : SetRow(j, RecoveredRow(row[j], w, b))
      BY <2>9 DEF Settle, j
    <3> QED BY <2>3, <3>1 DEF WorkerMove
  <2>10. CASE PurgeRow(w)
    <3>1. \/ SetRow(j, row[j])
          \/ Deletable(row[j]) /\ SetRow(j, [AbsentRow EXCEPT !.state = "deleted"])
      BY <2>10 DEF PurgeRow, j
    <3> QED BY <2>2, <2>3, <3>1 DEF WorkerMove
  <2> QED BY <1>5, <2>4, <2>5, <2>6, <2>7, <2>8, <2>9, <2>10
<1>6. ASSUME NEW w \in Workers,
             \/ Gate(w) \/ Check(w) \/ Except(w) \/ Look(w) \/ Clean(w) \/ Exit(w) \/ ExecEnd(w)
             \/ LoseLease(w) \/ Failure(w)
             \/ \E j \in Jobs : PurgeFiles(w, j) \/ LeakEnds(w, j) \/ AttestLeakFails(w, j)
      PROVE  UNCHANGED row
  BY <1>6 DEF Gate, Check, Except, Look, Clean, Exit, ExecEnd, LoseLease, Failure, PurgeFiles,
     LeakEnds, AttestLeakFails, HeartbeatFails, StoreFails, PublishFails, AttestFails, Stop,
     Crash, CrashInPublish, store
<1>7. CASE Next
  <2>1. CASE Client
    BY <1>1, <1>2, <2>1 DEF Client, Age
  <2>2. CASE \E w \in Workers : Pick(w) \/ Proceed(w) \/ ExecEnd(w) \/ LoseLease(w)
                              \/ Leaked(w) \/ Failure(w)
    BY <1>4, <1>5, <1>6, <2>2, Zenon DEF Pick, Proceed, Leaked
  <2> QED BY <1>7, <2>1, <2>2 DEF Next
<1> QED BY <1>7 DEF vars

\* A row whose cancellation was requested is neither publishing nor completed.
Honoured(r) == r.cancel => r.state \notin {"publishing", "completed"}

\* No repository method starts or completes a publication of a cancelled job.
LEMMA MoveHonours ==
    ASSUME NEW j \in Jobs, row[j] \in Rows, Honoured(row[j]), NEW r, RowMove(j, r)
    PROVE  Honoured(r)
<1> DEFINE q == row[j]
<1>1. CASE ClientMove(j, r)
  BY <1>1 DEF ClientMove, Honoured, AbsentRow, Rows
<1>2. ASSUME NEW w \in Workers, WorkerMove(j, w, r) PROVE Honoured(r)
  <2>1. CASE NextToRun(j) /\ r = ClaimedRow(q, w)
    BY <2>1 DEF ClaimedRow, Honoured, Rows
  <2>2. CASE r = AttestedRow(q, w)
    BY <2>2 DEF AttestedRow, Honoured, Rows
  <2>3. ASSUME NEW b \in BOOLEAN, r = FailedRow(j, w, b) PROVE Honoured(r)
    BY <2>3 DEF FailedRow, Unowned, Honoured, Rows
  <2>4. CASE r = OutstandingRow(q, w)
    BY <2>4 DEF OutstandingRow, Unowned, Honoured, Rows
  <2>5. CASE MayBegin(q, w) /\ r = [q EXCEPT !.state = "publishing"]
    BY <2>5 DEF MayBegin, Honoured, Rows
  <2>6. CASE r = CompletedRow(q, w)
    BY <2>6 DEF CompletedRow, MayComplete, Unowned, Honoured, Rows
  <2>7. CASE r = FencedRow(q, w)
    BY <2>7 DEF FencedRow, Honoured, Rows
  <2>8. ASSUME NEW b \in BOOLEAN, r = RecoveredRow(q, w, b) PROVE Honoured(r)
    BY <2>8 DEF RecoveredRow, Unowned, Honoured, Rows
  <2>9. CASE r = [AbsentRow EXCEPT !.state = "deleted"]
    BY <2>9 DEF AbsentRow, Honoured
  <2> QED BY <1>2, <2>1, <2>2, <2>3, <2>4, <2>5, <2>6, <2>7, <2>8, <2>9 DEF WorkerMove
<1> QED BY <1>1, <1>2 DEF RowMove

\* A cancellation that request_cancellation accepted or recorded is never followed by a
\* publication of that job: begin_publication and complete both refuse it.
THEOREM CancellationHonoured == Spec => []CancelledNeverPublished
<1>1. Init => CancelledNeverPublished
  BY DEF Init, AbsentRow, CancelledNeverPublished
<1>2. ASSUME Typed, CancelledNeverPublished, [Next]_vars PROVE CancelledNeverPublished'
  <2>0. row \in [Jobs -> Rows] /\ \A i \in Jobs : Honoured(row[i])
    BY <1>2 DEF Typed, TypeOK, CancelledNeverPublished, Honoured
  <2>1. CASE UNCHANGED row
    BY <1>2, <2>1 DEF CancelledNeverPublished
  <2>2. ASSUME NEW j \in Jobs, NEW r, RowMove(j, r), SetRow(j, r)
        PROVE  CancelledNeverPublished'
    <3>1. Honoured(r)
      BY <2>0, <2>2, MoveHonours
    <3>2. \A i \in Jobs : Honoured(row'[i])
      BY <2>0, <2>2, <3>1 DEF SetRow
    <3> QED BY <3>2 DEF CancelledNeverPublished, Honoured
  <2> QED BY <1>2, <2>1, <2>2, OneRowMoves
<1> QED BY <1>1, <1>2, TypedAlways, PTL DEF Spec

-----------------------------------------------------------------------------
(* Limits.                                                                  *)

\* A finite set that gains at most one element, and none when it is full, stays
\* within its bound.
LEMMA BoundKept ==
    ASSUME NEW S, IsFiniteSet(S), NEW T, NEW x, T \subseteq S \cup {x},
           NEW n \in Nat, Cardinality(S) <= n,
           x \in T /\ x \notin S => Cardinality(S) < n
    PROVE  Cardinality(T) <= n
<1>1. /\ IsFiniteSet(S \cup {x}) /\ Cardinality(S) \in Nat
      /\ Cardinality(S \cup {x}) = IF x \in S THEN Cardinality(S) ELSE Cardinality(S) + 1
  BY FS_AddElement, FS_CardinalityType
<1>2. CASE x \in T
  <2>1. Cardinality(T) <= Cardinality(S \cup {x}) /\ Cardinality(T) \in Nat
    BY <1>1, FS_Subset, FS_CardinalityType
  <2> QED BY <1>1, <1>2, <2>1
<1>3. CASE x \notin T
  <2>1. T \in SUBSET S
    BY <1>3
  <2>2. Cardinality(T) <= Cardinality(S) /\ Cardinality(T) \in Nat
    BY <2>1, FS_Subset, FS_CardinalityType
  <2> QED BY <1>1, <2>2
<1> QED BY <1>2, <1>3

\* The sets the limits count are finite.
LEMMA FiniteParts ==
    /\ IsFiniteSet(Queued) /\ IsFiniteSet(Holding)
    /\ \A p : IsFiniteSet(QueuedOf(p)) /\ IsFiniteSet(HoldingOf(p))
<1>1. /\ Queued \subseteq Jobs /\ Holding \subseteq Jobs
      /\ \A p : QueuedOf(p) \subseteq Jobs /\ HoldingOf(p) \subseteq Jobs
  BY DEF Queued, Holding, QueuedOf, HoldingOf
<1> QED BY <1>1, FS_Subset, JobsAssumption

\* Only submissions and retries add to the queue, and only into a free place.
LEMMA QueueGrows ==
    ASSUME NEW j \in Jobs, row[j] \in Rows, NEW r, RowMove(j, r),
           r.state = "queued", row[j].state # "queued"
    PROVE  RoomToQueue(Owner[j])
<1> DEFINE q == row[j]
<1>1. CASE ClientMove(j, r)
  BY <1>1 DEF ClientMove, Rows
<1>2. ASSUME NEW w \in Workers, WorkerMove(j, w, r) PROVE RoomToQueue(Owner[j])
  <2>1. ASSUME NEW b \in BOOLEAN, r = FailedRow(j, w, b) PROVE RoomToQueue(Owner[j])
    BY <2>1 DEF FailedRow, Unowned, Rows
  <2>2. r # ClaimedRow(q, w) /\ r # AttestedRow(q, w) /\ r # FencedRow(q, w)
    BY DEF ClaimedRow, AttestedRow, FencedRow, Rows
  <2>3. r # OutstandingRow(q, w) /\ r # CompletedRow(q, w)
    BY DEF OutstandingRow, CompletedRow, Unowned, Rows
  <2>4. \A b \in BOOLEAN : r # RecoveredRow(q, w, b)
    BY DEF RecoveredRow, Unowned, Rows
  <2>5. r # [q EXCEPT !.state = "publishing"] /\ r # [AbsentRow EXCEPT !.state = "deleted"]
    BY DEF Rows, AbsentRow
  <2> QED BY <1>2, <2>1, <2>2, <2>3, <2>4, <2>5 DEF WorkerMove
<1> QED BY <1>1, <1>2 DEF RowMove

\* Only a claim takes a running slot.
LEMMA SlotTaken ==
    ASSUME NEW j \in Jobs, row[j] \in Rows, NEW r, RowMove(j, r),
           Outstanding(r), ~Outstanding(row[j])
    PROVE  NextToRun(j)
<1> DEFINE q == row[j]
<1> USE DEF Outstanding, Leased, LeasedStates, Quarantined
<1>1. ~ClientMove(j, r)
  BY DEF ClientMove, AbsentRow, Rows
<1>2. ASSUME NEW w \in Workers, WorkerMove(j, w, r) PROVE NextToRun(j)
  <2>1. \A b \in BOOLEAN : r # FailedRow(j, w, b) /\ r # RecoveredRow(q, w, b)
    BY DEF FailedRow, RecoveredRow, Unowned, Rows, HeldBy, FencedBy
  <2>2. r # AttestedRow(q, w) /\ r # OutstandingRow(q, w) /\ r # CompletedRow(q, w)
    BY DEF AttestedRow, OutstandingRow, CompletedRow, MayComplete, Unowned, Rows, HeldBy
  <2>3. ~MayBegin(q, w) /\ r # [AbsentRow EXCEPT !.state = "deleted"]
    BY DEF MayBegin, HeldBy, AbsentRow
  <2> QED BY <1>2, <2>1, <2>2, <2>3 DEF WorkerMove
<1> QED BY <1>1, <1>2 DEF RowMove

\* Submissions and retries together never exceed the queue limit of the table or of a
\* tenant (submit and fail_attempt count before they insert or requeue).
THEOREM QueueLimitsHold == Spec => []QueueBounded
<1>1. Init => QueueBounded
  <2> SUFFICES ASSUME Init PROVE QueueBounded
    OBVIOUS
  <2>1. Queued = {} /\ \A p : QueuedOf(p) = {}
    BY DEF Init, AbsentRow, Queued, QueuedOf
  <2> QED BY <2>1, FS_EmptySet, LimitsAssumption DEF QueueBounded
<1>2. ASSUME Typed, QueueBounded, [Next]_vars PROVE QueueBounded'
  <2>0. row \in [Jobs -> Rows]
    BY <1>2 DEF Typed, TypeOK
  <2>1. CASE UNCHANGED row
    BY <1>2, <2>1 DEF QueueBounded, Queued, QueuedOf
  <2>2. ASSUME NEW j \in Jobs, NEW r, RowMove(j, r), SetRow(j, r) PROVE QueueBounded'
    <3>1. Queued' \subseteq Queued \cup {j} /\ \A p : QueuedOf(p)' \subseteq QueuedOf(p) \cup {j}
      BY <2>0, <2>2 DEF SetRow, Queued, QueuedOf
    <3>2. j \in Queued' /\ j \notin Queued => RoomToQueue(Owner[j])
      BY <2>0, <2>2, QueueGrows DEF SetRow, Queued, QueuedOf
    <3>3. Cardinality(Queued') <= QueueLimit
      <4>1. j \in Queued' /\ j \notin Queued => Cardinality(Queued) < QueueLimit
        BY <3>2 DEF RoomToQueue
      <4>2. Cardinality(Queued) <= QueueLimit /\ QueueLimit \in Nat
        BY <1>2, LimitsAssumption DEF QueueBounded
      <4> QED BY <3>1, <4>1, <4>2, BoundKept, FiniteParts
    <3>4. ASSUME NEW p \in Principals PROVE Cardinality(QueuedOf(p)') <= MaxQueuedPerPrincipal
      <4>1. j \in QueuedOf(p)' /\ j \notin QueuedOf(p)
               => Cardinality(QueuedOf(p)) < MaxQueuedPerPrincipal
        <5>1. j \in QueuedOf(p)' /\ j \notin QueuedOf(p) => Owner[j] = p /\ RoomToQueue(Owner[j])
          BY <3>2 DEF QueuedOf
        <5> QED BY <5>1 DEF RoomToQueue
      <4>2. Cardinality(QueuedOf(p)) <= MaxQueuedPerPrincipal /\ MaxQueuedPerPrincipal \in Nat
        BY <1>2, LimitsAssumption DEF QueueBounded
      <4> QED BY <3>1, <4>1, <4>2, BoundKept, FiniteParts
    <3> QED BY <3>3, <3>4 DEF QueueBounded
  <2> QED BY <1>2, <2>1, <2>2, OneRowMoves
<1> QED BY <1>1, <1>2, TypedAlways, PTL DEF Spec

\* The jobs that hold a running slot stay within the running limits.
SlotsBounded ==
    /\ Cardinality(Holding) <= MaxRunning
    /\ \A p \in Principals : Cardinality(HoldingOf(p)) <= MaxRunningPerPrincipal

\* The rows that hold a running slot, quarantined ones included, never exceed the
\* running limit of the table or of a tenant (claim counts before it takes a slot).
THEOREM SlotLimitsHold == Spec => []SlotsBounded
<1>1. Init => SlotsBounded
  <2> SUFFICES ASSUME Init PROVE SlotsBounded
    OBVIOUS
  <2>1. Holding = {} /\ \A p : HoldingOf(p) = {}
    BY DEF Init, AbsentRow, Holding, HoldingOf, Outstanding, Leased, LeasedStates, Quarantined
  <2> QED BY <2>1, FS_EmptySet, LimitsAssumption DEF SlotsBounded
<1>2. ASSUME Typed, SlotsBounded, [Next]_vars PROVE SlotsBounded'
  <2>0. row \in [Jobs -> Rows]
    BY <1>2 DEF Typed, TypeOK
  <2>1. CASE UNCHANGED row
    BY <1>2, <2>1 DEF SlotsBounded, Holding, HoldingOf
  <2>2. ASSUME NEW j \in Jobs, NEW r, RowMove(j, r), SetRow(j, r) PROVE SlotsBounded'
    <3>1. /\ Holding' \subseteq Holding \cup {j}
          /\ \A p : HoldingOf(p)' \subseteq HoldingOf(p) \cup {j}
      BY <2>0, <2>2 DEF SetRow, Holding, HoldingOf
    <3>2. j \in Holding' /\ j \notin Holding => NextToRun(j)
      BY <2>0, <2>2, SlotTaken DEF SetRow, Holding, HoldingOf
    <3>3. Cardinality(Holding') <= MaxRunning
      <4>1. j \in Holding' /\ j \notin Holding => Cardinality(Holding) < MaxRunning
        BY <3>2 DEF NextToRun, CanRun
      <4>2. Cardinality(Holding) <= MaxRunning /\ MaxRunning \in Nat
        BY <1>2, LimitsAssumption DEF SlotsBounded
      <4> QED BY <3>1, <4>1, <4>2, BoundKept, FiniteParts
    <3>4. ASSUME NEW p \in Principals PROVE Cardinality(HoldingOf(p)') <= MaxRunningPerPrincipal
      <4>1. j \in HoldingOf(p)' /\ j \notin HoldingOf(p)
               => Cardinality(HoldingOf(p)) < MaxRunningPerPrincipal
        <5>1. j \in HoldingOf(p)' /\ j \notin HoldingOf(p) => Owner[j] = p /\ NextToRun(j)
          BY <3>2 DEF HoldingOf
        <5> QED BY <5>1 DEF NextToRun, CanRun
      <4>2. Cardinality(HoldingOf(p)) <= MaxRunningPerPrincipal /\ MaxRunningPerPrincipal \in Nat
        BY <1>2, LimitsAssumption DEF SlotsBounded
      <4> QED BY <3>1, <4>1, <4>2, BoundKept, FiniteParts
    <3> QED BY <3>3, <3>4 DEF SlotsBounded
  <2> QED BY <1>2, <2>1, <2>2, OneRowMoves
<1> QED BY <1>1, <1>2, TypedAlways, PTL DEF Spec
=============================================================================
