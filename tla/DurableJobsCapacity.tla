------------------------ MODULE DurableJobsCapacity ------------------------
(***************************************************************************)
(* Running work stays within the running limits: proofs about DurableJobs. *)
(* As long as no store operation fails, every thread that executes a job   *)
(* or was left behind by it is accounted to that job's row: the row is     *)
(* running or unknown, is not attested, and names the thread's worker as   *)
(* its holder or as the owner whose work is unproven.  A row has one       *)
(* account, so a job has one thread, and its row holds a slot, so the      *)
(* limits claim enforces on rows bound the threads.  The fact is not       *)
(* inductive alone: a worker must not attest or retry a job it left work   *)
(* of (Tidy), and a row such a worker no longer holds must never be queued *)
(* again (Doomed).                                                         *)
(***************************************************************************)
EXTENDS DurableJobsProofs

\* A leased row has an owner; if fenced it says whose work is unproven, and if not only
\* the owner's can be.
OwnerKnown(r) ==
    Leased(r) => /\ r.owner \in Workers
                 /\ IF r.fenced THEN r.unproven \in Workers
                    ELSE r.unproven \in {NoWorker, r.owner}

\* The row r answers for work of w that may still be running.
Accounted(r, w) ==
    /\ r.state \in {"running", "unknown"} /\ ~r.quiesced
    /\ r.unproven = w \/ HeldBy(r, w)

\* A row in this condition never returns to the queue.
Doomed(r) == r.state \in EndStates \cup {"deleted"} \/ (Leased(r) /\ r.fenced)

\* Where a worker has left no work of its job behind.
Tidy == {"gate", "late", "drop", "exec", "reject", "check", "discard", "begin", "publish",
         "except", "revive", "giveup"}

\* What an attempt's exception and verdict say at each point.
Consistent(p) ==
    /\ p.pc = "outstanding" => p.verdict # "quiescent"
    /\ p.pc \notin {"exec", "finally"} => p.exc = "none"
    /\ p.pc = "exec" => p.exc # "error"
    /\ p.pc = "finally" /\ p.exc = "error" => p.verdict = "quiescent"

\* On the way to being marked unknown, or out of the process.
Leaving(p) == \/ p.pc \in {"outstanding", "exiting"}
              \/ p.pc = "finally" /\ p.exc = "stop" /\ p.verdict # "quiescent"

\* What relates the process p and leftover work l of worker w to the row r of job j.
Guarded(p, l, r, w, j) ==
    /\ p.job = j /\ p.pc = "gate" /\ HeldBy(r, w) => ~r.quiesced
    /\ p.job = j /\ p.pc = "exec" => Accounted(r, w)
    /\ l \in {"loose", "watched"} => Accounted(r, w)
    /\ p.job = j /\ (p.pc \in Tidy \/ (p.pc = "finally" /\ p.verdict = "quiescent")) => l = "none"
    /\ p.job = j /\ p.pc = "outstanding" => l \in {"loose", "over"}
    /\ l # "none" => Doomed(r) \/ (HeldBy(r, w) /\ p.job = j /\ Leaving(p))

\* Every worker and every job.
AllGuarded ==
    /\ \A w \in Workers : Consistent(wk[w])
    /\ \A w \in Workers, j \in Jobs : Guarded(wk[w], leak[w][j], row[j], w, j)

\* Every row.
OwnersKnown == \A j \in Jobs : OwnerKnown(row[j])

-----------------------------------------------------------------------------

\* Every repository method keeps the lease's owner columns in order.
LEMMA MoveKnowsOwner ==
    ASSUME NEW j \in Jobs, row[j] \in Rows, OwnerKnown(row[j]), NEW r, RowMove(j, r)
    PROVE  OwnerKnown(r)
<1> DEFINE q == row[j]
<1> USE DEF OwnerKnown, Leased, LeasedStates
<1>1. CASE ClientMove(j, r)
  BY <1>1 DEF ClientMove, AbsentRow, Rows
<1>2. ASSUME NEW w \in Workers, WorkerMove(j, w, r) PROVE OwnerKnown(r)
  <2>1. CASE r = ClaimedRow(q, w)
    BY <2>1 DEF ClaimedRow, Rows
  <2>2. CASE r = AttestedRow(q, w)
    BY <2>2 DEF AttestedRow, MayAttest, HeldBy, Rows
  <2>3. ASSUME NEW b \in BOOLEAN, r = FailedRow(j, w, b) PROVE OwnerKnown(r)
    BY <2>3 DEF FailedRow, Unowned, Rows
  <2>4. CASE r = OutstandingRow(q, w)
    BY <2>4 DEF OutstandingRow, Unowned, Rows
  <2>5. CASE MayBegin(q, w) /\ r = [q EXCEPT !.state = "publishing"]
    BY <2>5 DEF MayBegin, HeldBy, Rows
  <2>6. CASE r = CompletedRow(q, w)
    BY <2>6 DEF CompletedRow, MayComplete, Unowned, Rows
  <2>7. CASE Leased(q) /\ r = FencedRow(q, w)
    BY <2>7, JobsAssumption DEF FencedRow, Rows
  <2>8. ASSUME NEW b \in BOOLEAN, r = RecoveredRow(q, w, b) PROVE OwnerKnown(r)
    BY <2>8 DEF RecoveredRow, Unowned, Rows
  <2>9. CASE r = [AbsentRow EXCEPT !.state = "deleted"]
    BY <2>9 DEF AbsentRow
  <2> QED BY <1>2, <2>1, <2>2, <2>3, <2>4, <2>5, <2>6, <2>7, <2>8, <2>9 DEF WorkerMove
<1> QED BY <1>1, <1>2 DEF RowMove

\* A leased row has an owner; fence_expired always records whose work is unproven, and
\* without a fence only the owner's can be (claim, fence_expired, attest_quiescence).
THEOREM OwnersAlwaysKnown == Spec => []OwnersKnown
<1>1. Init => OwnersKnown
  BY DEF Init, AbsentRow, OwnersKnown, OwnerKnown, Leased, LeasedStates
<1>2. ASSUME Typed, OwnersKnown, [Next]_vars PROVE OwnersKnown'
  <2>0. row \in [Jobs -> Rows] /\ \A i \in Jobs : OwnerKnown(row[i])
    BY <1>2 DEF Typed, TypeOK, OwnersKnown
  <2>1. CASE UNCHANGED row
    BY <1>2, <2>1 DEF OwnersKnown, OwnerKnown, Leased
  <2>2. ASSUME NEW j \in Jobs, NEW r, RowMove(j, r), SetRow(j, r) PROVE OwnersKnown'
    <3>1. OwnerKnown(r)
      BY <2>0, <2>2, MoveKnowsOwner
    <3>2. \A i \in Jobs : OwnerKnown(row'[i])
      BY <2>0, <2>2, <3>1 DEF SetRow
    <3> QED BY <3>2 DEF OwnersKnown, OwnerKnown, Leased
  <2> QED BY <1>2, <2>1, <2>2, OneRowMoves
<1> QED BY <1>1, <1>2, TypedAlways, PTL DEF Spec

\* At most one worker's work is accounted to a row, and nobody else may change it.
LEMMA OneAccount ==
    ASSUME NEW r, OwnerKnown(r), NEW w \in Workers, NEW v \in Workers,
           Accounted(r, w),
           Accounted(r, v) \/ HeldBy(r, v) \/ MayAttest(r, v)
    PROVE  v = w
BY JobsAssumption DEF OwnerKnown, Accounted, HeldBy, MayAttest, Leased, LeasedStates

\* What a move of a row by v leaves true for another worker w.
LEMMA MoveByOther ==
    ASSUME NEW j \in Jobs, row[j] \in Rows, OwnerKnown(row[j]), NEW r,
           NEW w \in Workers, NEW v \in Workers, v # w,
           ClientMove(j, r) \/ WorkerMove(j, v, r)
    PROVE  /\ Accounted(row[j], w) => Accounted(r, w)
           /\ Doomed(row[j]) => Doomed(r)
           /\ HeldBy(row[j], w) => Doomed(r) \/ HeldBy(r, w)
           /\ HeldBy(r, w) => HeldBy(row[j], w) /\ (~row[j].quiesced => ~r.quiesced)
<1> DEFINE q == row[j]
           Goal == /\ Accounted(q, w) => Accounted(r, w)
                   /\ Doomed(q) => Doomed(r)
                   /\ HeldBy(q, w) => Doomed(r) \/ HeldBy(r, w)
                   /\ HeldBy(r, w) => HeldBy(q, w) /\ (~q.quiesced => ~r.quiesced)
<1> USE DEF OwnerKnown, Accounted, Doomed, HeldBy, Leased, LeasedStates, EndStates
<1>1. CASE ClientMove(j, r)
  BY <1>1 DEF ClientMove, AbsentRow, Rows
<1>2. CASE NextToRun(j) /\ r = ClaimedRow(q, v)
  BY <1>2 DEF NextToRun, Queued, ClaimedRow, Rows
<1>3. CASE r = AttestedRow(q, v)
  BY <1>3, JobsAssumption DEF AttestedRow, MayAttest, Rows
<1>4. ASSUME NEW b \in BOOLEAN, r = FailedRow(j, v, b) PROVE Goal
  BY <1>4, JobsAssumption DEF FailedRow, Unowned, Rows
<1>5. CASE r = OutstandingRow(q, v)
  BY <1>5, JobsAssumption DEF OutstandingRow, Unowned, Rows
<1>6. CASE MayBegin(q, v) /\ r = [q EXCEPT !.state = "publishing"]
  BY <1>6, JobsAssumption DEF MayBegin, Rows
<1>7. CASE r = CompletedRow(q, v)
  BY <1>7 DEF CompletedRow, MayComplete, Unowned, Rows
<1>8. CASE Leased(q) /\ r = FencedRow(q, v)
  BY <1>8, JobsAssumption DEF FencedRow, Rows
<1>9. ASSUME NEW b \in BOOLEAN, r = RecoveredRow(q, v, b) PROVE Goal
  BY <1>9 DEF RecoveredRow, Unowned, Rows, FencedBy
<1>10. CASE Deletable(q) /\ r = [AbsentRow EXCEPT !.state = "deleted"]
  BY <1>10 DEF Deletable, AbsentRow, Rows
<1> HIDE DEF OwnerKnown, Accounted, Doomed, HeldBy, Leased, LeasedStates, EndStates
<1> QED BY <1>1, <1>2, <1>3, <1>4, <1>5, <1>6, <1>7, <1>8, <1>9, <1>10 DEF WorkerMove

\* A worker's guard survives what another worker does to the row.
LEMMA GuardedFromOthers ==
    ASSUME NEW j \in Jobs, row[j] \in Rows, OwnerKnown(row[j]), NEW r,
           NEW w \in Workers, NEW v \in Workers, v # w,
           ClientMove(j, r) \/ WorkerMove(j, v, r),
           NEW p, NEW l, Guarded(p, l, row[j], w, j)
    PROVE  Guarded(p, l, r, w, j)
<1>1. /\ Accounted(row[j], w) => Accounted(r, w)
      /\ Doomed(row[j]) => Doomed(r)
      /\ HeldBy(row[j], w) => Doomed(r) \/ HeldBy(r, w)
      /\ HeldBy(r, w) => HeldBy(row[j], w) /\ (~row[j].quiesced => ~r.quiesced)
  BY MoveByOther
<1> QED BY <1>1 DEF Guarded

\* A worker's guard survives submissions and cancellations.
LEMMA GuardedFromClients ==
    ASSUME NEW j \in Jobs, row[j] \in Rows, NEW r, ClientMove(j, r),
           NEW w \in Workers, NEW p, NEW l, Guarded(p, l, row[j], w, j)
    PROVE  Guarded(p, l, r, w, j)
<1>1. /\ Accounted(row[j], w) => Accounted(r, w)
      /\ Doomed(row[j]) => Doomed(r)
      /\ HeldBy(row[j], w) => HeldBy(r, w)
      /\ HeldBy(r, w) => HeldBy(row[j], w) /\ (~row[j].quiesced => ~r.quiesced)
  BY DEF ClientMove, AbsentRow, Rows, Accounted, Doomed, HeldBy, Leased, LeasedStates, EndStates
<1> QED BY <1>1 DEF Guarded

\* A worker with nothing left behind and nothing running is guarded, whatever the row.
LEMMA GuardedClear ==
    ASSUME NEW p, p.pc \notin {"gate", "exec", "outstanding"}, NEW r, NEW w, NEW j
    PROVE  Guarded(p, "none", r, w, j)
BY DEF Guarded

\* A worker that is neither starting, running nor leaving an attempt of j stays guarded
\* as long as the row stays accounted or doomed.
LEMMA GuardedIdle ==
    ASSUME NEW p, NEW q, NEW l, NEW m, NEW r, NEW s, NEW w, NEW j,
           Guarded(p, l, r, w, j), m \in {l, "none"},
           Accounted(r, w) => Accounted(s, w),
           Doomed(r) => Doomed(s),
           p.job # j \/ ~Leaving(p),
           q.job # j \/ q.pc \notin Tidy \cup {"finally", "outstanding"}
    PROVE  Guarded(q, m, s, w, j)
BY DEF Guarded, Tidy

\* A step of w preserves the invariant if it does for w itself.
LEMMA OwnStep ==
    ASSUME Typed, OwnersKnown, AllGuarded, NEW w \in Workers,
           \A v \in Workers \ {w} : wk'[v] = wk[v] /\ leak'[v] = leak[v],
           UNCHANGED row \/ \E j \in Jobs : \E r : WorkerMove(j, w, r) /\ SetRow(j, r),
           Consistent(wk'[w]),
           \A j \in Jobs : Guarded(wk'[w], leak'[w][j], row'[j], w, j)
    PROVE  AllGuarded'
<1>0. /\ row \in [Jobs -> Rows]
      /\ \A j \in Jobs : OwnerKnown(row[j])
      /\ \A v \in Workers : Consistent(wk[v])
      /\ \A v \in Workers, j \in Jobs : Guarded(wk[v], leak[v][j], row[j], v, j)
  BY DEF Typed, TypeOK, OwnersKnown, AllGuarded
<1>1. \A v \in Workers : Consistent(wk'[v])
  BY <1>0
<1>2. ASSUME NEW v \in Workers, NEW j \in Jobs, v # w
      PROVE  Guarded(wk'[v], leak'[v][j], row'[j], v, j)
  <2>1. Guarded(wk[v], leak[v][j], row[j], v, j)
    BY <1>0
  <2>2. CASE row'[j] = row[j]
    BY <1>2, <2>1, <2>2
  <2>3. ASSUME NEW r, WorkerMove(j, w, r), row'[j] = r
        PROVE  Guarded(wk'[v], leak'[v][j], row'[j], v, j)
    <3>1. Guarded(wk[v], leak[v][j], r, v, j)
      BY <1>0, <1>2, <2>1, <2>3, GuardedFromOthers
    <3> QED BY <1>2, <2>3, <3>1
  <2>4. row'[j] = row[j] \/ \E r : WorkerMove(j, w, r) /\ row'[j] = r
    BY <1>0 DEF SetRow
  <2> QED BY <2>2, <2>3, <2>4
<1>3. \A v \in Workers, j \in Jobs : Guarded(wk'[v], leak'[v][j], row'[j], v, j)
  BY <1>2
<1> QED BY <1>1, <1>3
        DEF AllGuarded, Consistent, Guarded, Accounted, Doomed, HeldBy, Leased, Leaving

\* Steps of an attempt that leaves nothing behind, up to its end.
LEMMA OwnClear ==
    ASSUME Typed, OwnersKnown, AllGuarded, NEW w \in Workers, wk[w].job \in Jobs,
           \/ wk[w].pc \in Tidy
           \/ wk[w].pc = "finally" /\ wk[w].verdict = "quiescent",
           NEW q, wk' = [wk EXCEPT ![w] = q], q.job \in {wk[w].job, NoJob},
           q.pc \notin {"gate", "exec", "outstanding"}, Consistent(q), UNCHANGED leak,
           UNCHANGED row \/ \E r : WorkerMove(wk[w].job, w, r) /\ SetRow(wk[w].job, r)
    PROVE  AllGuarded'
<1> DEFINE j == wk[w].job
<1>0. /\ wk \in [Workers -> Processes] /\ row \in [Jobs -> Rows]
      /\ \A i \in Jobs : Guarded(wk[w], leak[w][i], row[i], w, i)
  BY DEF Typed, TypeOK, AllGuarded
<1>1. wk'[w] = q /\ \A v \in Workers \ {w} : wk'[v] = wk[v] /\ leak'[v] = leak[v]
  BY <1>0
<1>2. Guarded(wk'[w], leak'[w][j], row'[j], w, j)
  <2>1. leak'[w][j] = "none"
    BY <1>0 DEF Guarded
  <2> QED BY <1>1, <2>1, GuardedClear
<1>3. ASSUME NEW i \in Jobs, i # j PROVE Guarded(wk'[w], leak'[w][i], row'[i], w, i)
  <2>1. row'[i] = row[i] /\ leak'[w][i] = leak[w][i] /\ wk[w].job # i /\ q.job # i
    BY <1>0, <1>3, JobsAssumption DEF SetRow
  <2> QED BY <1>0, <1>1, <2>1, GuardedIdle
<1> QED BY <1>1, <1>2, <1>3, OwnStep

\* Steps outside an attempt.
LEMMA OwnIdle ==
    ASSUME Typed, OwnersKnown, AllGuarded, NEW w \in Workers, ~Leaving(wk[w]),
           NEW q, wk' = [wk EXCEPT ![w] = q],
           q.pc \notin Tidy \cup {"finally", "outstanding"}, Consistent(q), UNCHANGED leak,
           \/ UNCHANGED row
           \/ \E j \in Jobs : \E r : /\ WorkerMove(j, w, r) /\ SetRow(j, r)
                                     /\ Accounted(row[j], w) => Accounted(r, w)
                                     /\ Doomed(row[j]) => Doomed(r)
    PROVE  AllGuarded'
<1>0. /\ wk \in [Workers -> Processes] /\ row \in [Jobs -> Rows]
      /\ \A i \in Jobs : Guarded(wk[w], leak[w][i], row[i], w, i)
  BY DEF Typed, TypeOK, AllGuarded
<1>1. wk'[w] = q /\ \A v \in Workers \ {w} : wk'[v] = wk[v] /\ leak'[v] = leak[v]
  BY <1>0
<1>2. ASSUME NEW i \in Jobs PROVE Guarded(wk'[w], leak'[w][i], row'[i], w, i)
  <2>1. /\ leak'[w][i] = leak[w][i]
        /\ Accounted(row[i], w) => Accounted(row'[i], w)
        /\ Doomed(row[i]) => Doomed(row'[i])
    <3>1. CASE UNCHANGED row
      BY <3>1
    <3>2. ASSUME NEW j \in Jobs, NEW r, SetRow(j, r),
                 Accounted(row[j], w) => Accounted(r, w), Doomed(row[j]) => Doomed(r)
          PROVE  /\ Accounted(row[i], w) => Accounted(row'[i], w)
                 /\ Doomed(row[i]) => Doomed(row'[i])
      <4>1. row'[i] = IF i = j THEN r ELSE row[i]
        BY <1>0, <3>2 DEF SetRow
      <4> QED BY <3>2, <4>1
    <3> QED BY <3>1, <3>2
  <2> QED BY <1>0, <1>1, <2>1, GuardedIdle
<1>3. UNCHANGED row \/ \E j \in Jobs : \E r : WorkerMove(j, w, r) /\ SetRow(j, r)
  OBVIOUS
<1> QED BY <1>1, <1>2, <1>3, OwnStep

\* Fencing, recovery and retention neither lose an account nor revive a doomed row.
LEMMA MoveWhenIdle ==
    ASSUME NEW j \in Jobs, row[j] \in Rows, OwnerKnown(row[j]), NEW w \in Workers, NEW r,
           \/ Leased(row[j]) /\ r = FencedRow(row[j], w)
           \/ \E b \in BOOLEAN : r = RecoveredRow(row[j], w, b)
           \/ Deletable(row[j]) /\ r = [AbsentRow EXCEPT !.state = "deleted"]
    PROVE  /\ Accounted(row[j], w) => Accounted(r, w)
           /\ Doomed(row[j]) => Doomed(r)
<1> USE DEF OwnerKnown, Accounted, Doomed, HeldBy, Leased, LeasedStates, EndStates
<1>1. CASE Leased(row[j]) /\ r = FencedRow(row[j], w)
  BY <1>1, JobsAssumption DEF FencedRow, Rows
<1>2. ASSUME NEW b \in BOOLEAN, r = RecoveredRow(row[j], w, b)
      PROVE  (Accounted(row[j], w) => Accounted(r, w)) /\ (Doomed(row[j]) => Doomed(r))
  BY <1>2 DEF RecoveredRow, Unowned, Rows, FencedBy
<1>3. CASE Deletable(row[j]) /\ r = [AbsentRow EXCEPT !.state = "deleted"]
  BY <1>3 DEF Deletable, AbsentRow, Rows
<1> QED BY <1>1, <1>2, <1>3

\* Steps of an attempt that was cancelled, and may leave work behind.
LEMMA OwnLeaving ==
    ASSUME Typed, OwnersKnown, AllGuarded, NEW w \in Workers,
           NEW q, wk' = [wk EXCEPT ![w] = q], q.job = wk[w].job, UNCHANGED <<row, leak>>,
           \/ q.pc = "exec" /\ wk[w].pc = "exec"
           \/ q.pc \notin Tidy \cup {"outstanding"} /\ Leaving(q),
           Consistent(q)
    PROVE  AllGuarded'
<1>0. /\ wk \in [Workers -> Processes]
      /\ \A i \in Jobs : Guarded(wk[w], leak[w][i], row[i], w, i)
  BY DEF Typed, TypeOK, AllGuarded
<1>1. wk'[w] = q /\ \A v \in Workers \ {w} : wk'[v] = wk[v] /\ leak'[v] = leak[v]
  BY <1>0
<1>2. ASSUME NEW i \in Jobs PROVE Guarded(wk'[w], leak'[w][i], row'[i], w, i)
  <2>1. Guarded(wk[w], leak[w][i], row[i], w, i)
    BY <1>0
  <2>2. Guarded(q, leak[w][i], row[i], w, i)
    BY <2>1 DEF Guarded, Leaving, Tidy
  <2> QED BY <1>1, <2>2
<1> QED BY <1>1, <1>2, OwnStep

\* Every step without a failing operation preserves the invariant: one case per action.
LEMMA GuardedStep ==
    ASSUME Typed, OwnersKnown, AllGuarded, [Next]_vars, faults' = 0
    PROVE  AllGuarded'
<1>0. /\ row \in [Jobs -> Rows] /\ wk \in [Workers -> Processes]
      /\ leak \in [Workers -> [Jobs -> LeakStates]]
      /\ \A j \in Jobs : OwnerKnown(row[j])
      /\ \A w \in Workers : wk[w].pc \notin Resting => wk[w].job \in Jobs
      /\ \A w \in Workers : Consistent(wk[w])
      /\ \A w \in Workers, j \in Jobs : Guarded(wk[w], leak[w][j], row[j], w, j)
  BY DEF Typed, TypeOK, BusyHaveJobs, OwnersKnown, AllGuarded
<1>1. CASE UNCHANGED <<row, wk, leak>>
  BY <1>1 DEF AllGuarded, Consistent, Guarded, Accounted, Doomed, HeldBy, Leased, Leaving
<1>2. ASSUME NEW j \in Jobs, Submit(j) \/ Cancel(j) PROVE AllGuarded'
  <2>1. UNCHANGED <<wk, leak>>
    BY <1>2 DEF Submit, Cancel
  <2>2. PICK r : ClientMove(j, r) /\ SetRow(j, r)
    BY <1>2 DEF Submit, Cancel, ClientMove
  <2>3. row' = [row EXCEPT ![j] = r]
    BY <2>2 DEF SetRow
  <2>4. ASSUME NEW w \in Workers, NEW i \in Jobs
        PROVE  Guarded(wk'[w], leak'[w][i], row'[i], w, i)
    <3>1. Guarded(wk[w], leak[w][i], row[i], w, i)
      BY <1>0
    <3>2. CASE i = j
      <4>1. Guarded(wk[w], leak[w][j], r, w, j)
        BY <1>0, <2>2, <3>1, <3>2, GuardedFromClients
      <4> QED BY <1>0, <2>1, <2>3, <3>2, <4>1
    <3>3. CASE i # j
      BY <1>0, <2>1, <2>3, <3>1, <3>3
    <3> QED BY <3>2, <3>3
  <2>5. \A w \in Workers : Consistent(wk'[w])
    BY <1>0, <2>1
  <2> QED BY <2>4, <2>5
      DEF AllGuarded, Consistent, Guarded, Accounted, Doomed, HeldBy, Leased, Leaving
<1>3. ASSUME NEW w \in Workers,
             Late(w) \/ Drop(w) \/ Reject(w) \/ Check(w) \/ Discard(w) \/ Begin(w) \/ Publish(w)
             \/ Except(w) \/ Revive(w) \/ Giveup(w)
      PROVE  AllGuarded'
  <2>1. wk[w].pc \in Tidy /\ wk[w].pc \notin {"exec", "finally"} /\ wk[w].job \in Jobs
    BY <1>0, <1>3 DEF Late, Drop, Reject, Check, Discard, Begin, Publish, Except, Revive, Giveup,
                      At, Tidy, Resting
  <2>2. UNCHANGED leak
    BY <1>3 DEF Late, Drop, Reject, Check, Discard, Begin, Publish, Except, Revive, Giveup
  <2>3. \/ Return(w)
        \/ \E c \in {"finally", "discard", "begin", "publish"} : Goto(w, c)
        \/ \E c \in {"revive", "giveup"} : Unwind(w, c, FALSE)
    BY <1>3 DEF Late, Drop, Reject, Check, Discard, Begin, Publish, Except, Revive, Giveup
  <2>4. UNCHANGED row \/ \E r : WorkerMove(wk[w].job, w, r) /\ SetRow(wk[w].job, r)
    <3>1. SetRow(wk[w].job, row[wk[w].job]) => UNCHANGED row
      BY <1>0, <2>1 DEF SetRow
    <3>2. CASE Late(w)
      BY <3>2 DEF Late, WorkerMove
    <3>3. CASE Drop(w) \/ Reject(w) \/ Discard(w) \/ Giveup(w)
      <4>1. \E b \in BOOLEAN : SetRow(wk[w].job, FailedRow(wk[w].job, w, b))
        BY <3>3 DEF Drop, Reject, Discard, Giveup
      <4> QED BY <4>1 DEF WorkerMove
    <3>4. CASE Begin(w)
      <4>1. \/ SetRow(wk[w].job, row[wk[w].job])
            \/ /\ MayBegin(row[wk[w].job], w)
               /\ SetRow(wk[w].job, [row[wk[w].job] EXCEPT !.state = "publishing"])
        BY <3>4 DEF Begin
      <4> QED BY <3>1, <4>1 DEF WorkerMove
    <3>5. CASE Publish(w) \/ Revive(w)
      BY <3>5 DEF Publish, Revive, WorkerMove
    <3>6. CASE Check(w) \/ Except(w)
      BY <3>6 DEF Check, Except, store
    <3> QED BY <1>3, <3>2, <3>3, <3>4, <3>5, <3>6
  <2>5. wk[w].exc = "none"
    BY <1>0, <2>1 DEF Consistent
  <2>6. PICK q : /\ wk' = [wk EXCEPT ![w] = q] /\ q.job \in {wk[w].job, NoJob}
                 /\ q.pc \in {"loop", "finally", "discard", "begin", "publish", "revive", "giveup"}
                 /\ q.exc = "none"
    <3>1. CASE Return(w)
      <4>1. wk' = [wk EXCEPT ![w] = IdleWorker]
        BY <3>1 DEF Return
      <4>2. IdleWorker.job = NoJob /\ IdleWorker.pc = "loop" /\ IdleWorker.exc = "none"
        BY DEF IdleWorker
      <4> QED BY <4>1, <4>2
    <3>2. ASSUME NEW c \in {"finally", "discard", "begin", "publish"}, Goto(w, c)
          PROVE  \E q : /\ wk' = [wk EXCEPT ![w] = q] /\ q.job = wk[w].job
                        /\ q.pc = c /\ q.exc = "none"
      <4> DEFINE q == [wk[w] EXCEPT !.pc = c]
      <4>1. wk' = [wk EXCEPT ![w] = q]
        BY <1>0, <3>2 DEF Goto
      <4>2. q.job = wk[w].job /\ q.pc = c /\ q.exc = "none"
        BY <1>0, <2>5 DEF Processes
      <4> HIDE DEF q
      <4> QED BY <4>1, <4>2
    <3>3. ASSUME NEW c \in {"revive", "giveup"}, Unwind(w, c, FALSE)
          PROVE  \E q : /\ wk' = [wk EXCEPT ![w] = q] /\ q.job = wk[w].job
                        /\ q.pc = c /\ q.exc = "none"
      <4> DEFINE q == [IdleWorker EXCEPT !.pc = c, !.job = wk[w].job, !.lost = FALSE]
      <4>1. wk' = [wk EXCEPT ![w] = q]
        BY <3>3 DEF Unwind
      <4>2. q.job = wk[w].job /\ q.pc = c /\ q.exc = "none"
        BY DEF IdleWorker
      <4> HIDE DEF q
      <4> QED BY <4>1, <4>2
    <3>4. CASE \E c \in {"finally", "discard", "begin", "publish"} : Goto(w, c)
      BY <3>2, <3>4
    <3>5. CASE \E c \in {"revive", "giveup"} : Unwind(w, c, FALSE)
      BY <3>3, <3>5
    <3> QED BY <2>3, <3>1, <3>4, <3>5
  <2>7. Consistent(q)
    BY <2>6 DEF Consistent
  <2> QED BY <2>1, <2>2, <2>4, <2>6, <2>7, OwnClear
<1>4. ASSUME NEW w \in Workers, Finally(w) PROVE AllGuarded'
  <2> DEFINE p == wk[w]
             q == IF AfterFinally(p.exc) = "loop" THEN IdleWorker
                  ELSE [IdleWorker EXCEPT !.pc = AfterFinally(p.exc), !.job = p.job,
                                          !.lost = p.lost]
  <2>1. p.pc = "finally" /\ p.job \in Jobs /\ p \in Processes
    BY <1>0, <1>4 DEF Finally, At, Resting
  <2>2. wk' = [wk EXCEPT ![w] = q] /\ UNCHANGED leak
    BY <1>4 DEF Finally, Return, Unwind
  <2>3. /\ p.exc = "none" => q.pc = "loop" /\ q.job = NoJob
        /\ p.exc = "error" => q.pc = "except" /\ q.job = p.job
        /\ p.exc = "stop" => q.pc = "exiting" /\ q.job = p.job
        /\ q.exc = "none" /\ p.exc \in {"none", "error", "stop"}
    BY <2>1 DEF AfterFinally, IdleWorker, Processes
  <2>4. Consistent(q)
    BY <2>3 DEF Consistent
  <2>5. CASE p.verdict = "quiescent"
    <3>1. \E r : WorkerMove(p.job, w, r) /\ SetRow(p.job, r)
      BY <1>4, <2>5 DEF Finally, WorkerMove
    <3> HIDE DEF q
    <3> QED BY <2>1, <2>2, <2>3, <2>4, <2>5, <3>1, OwnClear
  <2>6. CASE p.verdict # "quiescent"
    <3>1. UNCHANGED row
      BY <1>0, <1>4, <2>1, <2>6 DEF Finally, SetRow
    <3>2. p.exc # "error"
      BY <1>0, <2>1, <2>6 DEF Consistent
    <3> HIDE DEF q
    <3>3. CASE p.exc = "none"
      <4>1. ~Leaving(p)
        BY <2>1, <3>3 DEF Leaving
      <4> QED BY <2>2, <2>3, <2>4, <3>1, <3>3, <4>1, OwnIdle DEF Tidy
    <3>4. CASE p.exc = "stop"
      BY <2>2, <2>3, <2>4, <3>1, <3>4, OwnLeaving DEF Leaving, Tidy
    <3> QED BY <2>3, <3>2, <3>3, <3>4
  <2> QED BY <2>5, <2>6
<1>5. ASSUME NEW w \in Workers, LoseLease(w) PROVE AllGuarded'
  <2> DEFINE q == [wk[w] EXCEPT !.lost = TRUE]
  <2>1. /\ wk' = [wk EXCEPT ![w] = q] /\ UNCHANGED <<row, leak>>
        /\ q.pc = wk[w].pc /\ q.job = wk[w].job /\ q.verdict = wk[w].verdict /\ q.exc = wk[w].exc
    BY <1>0, <1>5 DEF LoseLease, store, Processes
  <2> HIDE DEF q
  <2>2. Consistent(q)
    BY <1>0, <2>1 DEF Consistent
  <2>3. ASSUME NEW i \in Jobs PROVE Guarded(wk'[w], leak'[w][i], row'[i], w, i)
    <3>1. Guarded(wk[w], leak[w][i], row[i], w, i)
      BY <1>0
    <3>2. Guarded(q, leak[w][i], row[i], w, i)
      BY <2>1, <3>1 DEF Guarded, Leaving
    <3> QED BY <1>0, <2>1, <3>2
  <2> QED BY <1>0, <2>1, <2>2, <2>3, OwnStep
<1>6. ASSUME NEW w \in Workers, Stop(w) PROVE AllGuarded'
  <2>0. UNCHANGED <<row, leak>> /\ wk[w] \in Processes
    BY <1>0, <1>6 DEF Stop, store
  <2>1. CASE At(w, "exec") /\ wk' = [wk EXCEPT ![w].exc = "stop"]
    <3> DEFINE q == [wk[w] EXCEPT !.exc = "stop"]
    <3>1. /\ wk' = [wk EXCEPT ![w] = q] /\ q.job = wk[w].job
          /\ q.pc = "exec" /\ wk[w].pc = "exec" /\ q.exc = "stop"
      BY <1>0, <2>0, <2>1 DEF At, Processes
    <3> HIDE DEF q
    <3> QED BY <2>0, <3>1, OwnLeaving DEF Consistent
  <2>2. CASE wk[w].pc \in InGroup \ {"exec"} /\ Leave(w, "stop")
    <3> DEFINE q == [wk[w] EXCEPT !.pc = "finally", !.exc = "stop"]
    <3>1. /\ wk' = [wk EXCEPT ![w] = q] /\ q.job = wk[w].job /\ q.verdict = wk[w].verdict
          /\ q.pc = "finally" /\ q.exc = "stop"
      BY <1>0, <2>0, <2>2 DEF Leave, Processes
    <3>2. Consistent(q)
      BY <3>1 DEF Consistent
    <3> HIDE DEF q
    <3>3. CASE wk[w].pc = "outstanding"
      <4>1. Leaving(q)
        BY <1>0, <3>1, <3>3 DEF Consistent, Leaving
      <4> QED BY <2>0, <3>1, <3>2, <4>1, OwnLeaving DEF Tidy
    <3>4. CASE wk[w].pc # "outstanding"
      <4>1. wk[w].pc \in Tidy /\ wk[w].job \in Jobs
        BY <1>0, <2>2, <3>4 DEF InGroup, Tidy, Resting
      <4> QED BY <2>0, <3>1, <3>2, <4>1, OwnClear
    <3> QED BY <3>3, <3>4
  <2>3. CASE /\ wk[w].pc \in {"loop", "gate", "late", "drop", "except", "revive", "giveup"}
             /\ Unwind(w, "exiting", FALSE)
    <3> DEFINE q == [IdleWorker EXCEPT !.pc = "exiting", !.job = wk[w].job, !.lost = FALSE]
    <3>1. wk' = [wk EXCEPT ![w] = q]
      BY <2>3 DEF Unwind
    <3>2. q.pc = "exiting" /\ q.exc = "none"
      BY DEF IdleWorker
    <3> HIDE DEF q
    <3>3. ~Leaving(wk[w]) /\ Consistent(q) /\ q.pc \notin Tidy \cup {"finally", "outstanding"}
      BY <2>3, <3>2 DEF Leaving, Consistent, Tidy
    <3> QED BY <2>0, <3>1, <3>3, OwnIdle
  <2> QED BY <1>6, <2>1, <2>2, <2>3 DEF Stop, Interrupt, At
<1>7. ASSUME NEW w \in Workers, NEW j \in Jobs, Claim(w, j) PROVE AllGuarded'
  <2> DEFINE q == [wk[w] EXCEPT !.pc = "gate", !.job = j]
             r == ClaimedRow(row[j], w)
  <2>1. /\ wk[w].pc = "loop" /\ row[j].state = "queued" /\ UNCHANGED leak
        /\ wk[w] \in Processes /\ row[j] \in Rows /\ wk[w].exc = "none"
    BY <1>0, <1>7 DEF Claim, At, NextToRun, Queued, Consistent
  <2>2. wk' = [wk EXCEPT ![w] = q] /\ row' = [row EXCEPT ![j] = r]
    BY <1>0, <1>7 DEF Claim, SetRow
  <2>3. q.pc = "gate" /\ q.job = j /\ q.exc = "none"
    BY <2>1 DEF Processes
  <2>4. ~r.quiesced
    BY <2>1 DEF ClaimedRow, Rows
  <2>5. WorkerMove(j, w, r) /\ SetRow(j, r)
    BY <1>7 DEF Claim, WorkerMove
  <2> HIDE DEF q, r
  <2>6. Consistent(q) /\ ~Leaving(wk[w])
    BY <2>1, <2>3 DEF Consistent, Leaving
  <2>7. Guarded(q, leak[w][j], r, w, j)
    <3>1. ~Doomed(row[j])
      BY <2>1 DEF Doomed, EndStates, Leased, LeasedStates
    <3>2. leak[w][j] = "none"
      BY <1>0, <2>6, <3>1 DEF Guarded
    <3> QED BY <2>3, <2>4, <3>2 DEF Guarded
  <2>8. ASSUME NEW i \in Jobs, i # j PROVE Guarded(q, leak[w][i], row[i], w, i)
    BY <1>0, <2>3, <2>6, <2>8, GuardedIdle
  <2>9. ASSUME NEW i \in Jobs PROVE Guarded(wk'[w], leak'[w][i], row'[i], w, i)
    <3>1. CASE i = j
      BY <1>0, <2>1, <2>2, <2>7, <3>1
    <3>2. CASE i # j
      BY <1>0, <2>1, <2>2, <2>8, <3>2
    <3> QED BY <3>1, <3>2
  <2> QED BY <1>0, <2>1, <2>2, <2>5, <2>6, <2>9, OwnStep
<1>8. ASSUME NEW w \in Workers, Gate(w) PROVE AllGuarded'
  <2> DEFINE j == wk[w].job
             c == IF ~HeldBy(row[j], w) \/ row[j].state # "running" THEN "late"
                  ELSE IF row[j].cancel THEN "drop" ELSE "exec"
             q == [wk[w] EXCEPT !.pc = c]
  <2>1. /\ wk[w].pc = "gate" /\ j \in Jobs /\ UNCHANGED <<row, leak>>
        /\ wk[w] \in Processes /\ wk[w].exc = "none"
    BY <1>0, <1>8 DEF Gate, At, Resting, Consistent, store
  <2>2. wk' = [wk EXCEPT ![w] = q]
    BY <1>0, <1>8 DEF Gate, Goto
  <2>3. /\ c \in {"late", "drop", "exec"}
        /\ c = "exec" => HeldBy(row[j], w) /\ row[j].state = "running"
    OBVIOUS
  <2>4. q.pc = c /\ q.job = j /\ q.exc = "none"
    BY <2>1 DEF Processes
  <2> HIDE DEF c, q
  <2>5. Consistent(q)
    BY <2>3, <2>4 DEF Consistent
  <2>6. Guarded(q, leak[w][j], row[j], w, j)
    <3>1. leak[w][j] = "none" /\ (HeldBy(row[j], w) => ~row[j].quiesced)
      BY <1>0, <2>1 DEF Guarded, Tidy
    <3> QED BY <2>3, <2>4, <3>1 DEF Guarded, Accounted
  <2>7. ASSUME NEW i \in Jobs, i # j PROVE Guarded(q, leak[w][i], row[i], w, i)
    BY <1>0, <2>4, <2>7, GuardedIdle
  <2>8. \A i \in Jobs : Guarded(q, leak[w][i], row[i], w, i)
    BY <2>6, <2>7
  <2> QED BY <1>0, <2>1, <2>2, <2>5, <2>8, OwnStep
<1>9. ASSUME NEW w \in Workers, ExecEnd(w) PROVE AllGuarded'
  <2> DEFINE j == wk[w].job
  <2>1. /\ wk[w].pc = "exec" /\ j \in Jobs /\ UNCHANGED row
        /\ wk[w] \in Processes /\ wk[w].exc # "error"
    BY <1>0, <1>9 DEF ExecEnd, At, Resting, Consistent, store
  <2>2. PICK verdict \in Verdicts, result \in {"check", "reject", "error"} :
           /\ \/ verdict = "quiescent" /\ UNCHANGED leak
              \/ verdict # "quiescent" /\ leak' = [leak EXCEPT ![w][j] = "loose"]
              \/ verdict = "unobserved" /\ leak' = [leak EXCEPT ![w][j] = "over"]
           /\ wk' = [wk EXCEPT ![w].verdict = verdict,
                      ![w].exc = IF @ = "none" /\ verdict = "quiescent" /\ result = "error"
                                 THEN "error" ELSE @,
                      ![w].pc = IF wk[w].exc # "none" THEN "finally"
                                ELSE IF verdict # "quiescent" THEN "outstanding"
                                ELSE IF result = "error" THEN "finally" ELSE result]
    BY <1>9, Zenon DEF ExecEnd
  <2> DEFINE e == IF wk[w].exc = "none" /\ verdict = "quiescent" /\ result = "error"
                  THEN "error" ELSE wk[w].exc
             c == IF wk[w].exc # "none" THEN "finally"
                  ELSE IF verdict # "quiescent" THEN "outstanding"
                  ELSE IF result = "error" THEN "finally" ELSE result
             q == [wk[w] EXCEPT !.verdict = verdict, !.exc = e, !.pc = c]
  <2>3. wk' = [wk EXCEPT ![w] = q]
    BY <1>0, <2>2
  <2>4. q.verdict = verdict /\ q.exc = e /\ q.pc = c /\ q.job = j
    BY <2>1 DEF Processes
  <2>5. /\ c \notin {"exec", "gate"}
        /\ e = "none" \/ c = "finally"
        /\ e = "error" => verdict = "quiescent"
        /\ c = "outstanding" => verdict # "quiescent"
        /\ verdict # "quiescent" => c = "outstanding" \/ (c = "finally" /\ e = "stop")
    BY <2>1 DEF Processes
  <2> HIDE DEF e, c, q
  <2>6. Consistent(q)
    BY <2>4, <2>5 DEF Consistent
  <2>7. leak[w][j] = "none" /\ Accounted(row[j], w)
    BY <1>0, <2>1 DEF Guarded, Tidy
  <2>8. Guarded(q, leak'[w][j], row[j], w, j)
    <3>1. CASE verdict = "quiescent"
      <4>1. leak'[w][j] = "none" /\ q.pc \notin {"gate", "exec", "outstanding"}
        BY <2>2, <2>4, <2>5, <2>7, <3>1
      <4> QED BY <4>1, GuardedClear
    <3>2. CASE verdict # "quiescent"
      <4>1. leak'[w][j] \in {"loose", "over"}
        <5>1. CASE leak' = [leak EXCEPT ![w][j] = "loose"]
          BY <1>0, <2>1, <5>1
        <5>2. CASE leak' = [leak EXCEPT ![w][j] = "over"]
          BY <1>0, <2>1, <5>2
        <5> QED BY <2>2, <3>2, <5>1, <5>2
      <4>2. Doomed(row[j]) \/ HeldBy(row[j], w)
        <5>1. row[j] \in Rows /\ OwnerKnown(row[j])
          BY <1>0, <2>1
        <5> QED BY <2>7, <5>1, JobsAssumption
            DEF Accounted, Doomed, OwnerKnown, HeldBy, Leased, LeasedStates, EndStates, Rows
      <4>3. Leaving(q) /\ q.pc \in {"outstanding", "finally"} /\ q.verdict # "quiescent"
        BY <2>4, <2>5, <3>2 DEF Leaving
      <4> QED BY <2>4, <2>7, <4>1, <4>2, <4>3 DEF Guarded, Tidy
    <3> QED BY <3>1, <3>2
  <2>9. ASSUME NEW i \in Jobs, i # j PROVE Guarded(q, leak'[w][i], row[i], w, i)
    <3>1. leak'[w][i] = leak[w][i]
      BY <1>0, <2>1, <2>2, <2>9
    <3> QED BY <1>0, <2>4, <2>9, <3>1, GuardedIdle
  <2>10. \A i \in Jobs : Guarded(q, leak'[w][i], row[i], w, i)
    BY <2>8, <2>9
  <2>11. wk'[w] = q /\ \A v \in Workers \ {w} : wk'[v] = wk[v] /\ leak'[v] = leak[v]
    BY <1>0, <2>2, <2>3
  <2> QED BY <1>0, <2>1, <2>6, <2>10, <2>11, OwnStep
<1>10. ASSUME NEW w \in Workers, MarkOutstanding(w) PROVE AllGuarded'
  <2> DEFINE j == wk[w].job
             q == [wk[w] EXCEPT !.pc = "finally"]
             r == OutstandingRow(row[j], w)
  <2>1. /\ wk[w].pc = "outstanding" /\ j \in Jobs /\ wk[w] \in Processes /\ row[j] \in Rows
        /\ wk[w].exc = "none" /\ wk[w].verdict # "quiescent"
    BY <1>0, <1>10 DEF MarkOutstanding, At, Resting, Consistent
  <2>2. /\ wk' = [wk EXCEPT ![w] = q] /\ row' = [row EXCEPT ![j] = r]
        /\ UNCHANGED leak \/ leak' = [leak EXCEPT ![w][j] =
                                        IF @ = "loose" THEN "watched" ELSE "ended"]
    BY <1>0, <1>10 DEF MarkOutstanding, Goto, SetRow
  <2>3. q.pc = "finally" /\ q.job = j /\ q.exc = "none" /\ q.verdict # "quiescent"
    BY <2>1 DEF Processes
  <2>4. WorkerMove(j, w, r) /\ SetRow(j, r)
    BY <1>10 DEF MarkOutstanding, WorkerMove
  <2>5. Accounted(row[j], w) => Accounted(r, w)
    BY <2>1 DEF OutstandingRow, Unowned, Accounted, HeldBy, Leased, LeasedStates, Rows
  <2>6. HeldBy(row[j], w) \/ Doomed(row[j]) => Doomed(r)
    BY <2>1 DEF OutstandingRow, Unowned, Doomed, HeldBy, Leased, EndStates, Rows
  <2> HIDE DEF q, r
  <2>7. Consistent(q)
    BY <2>3 DEF Consistent
  <2>8. Guarded(q, leak'[w][j], r, w, j)
    <3>1. /\ leak[w][j] \in {"loose", "over"} /\ Doomed(r)
          /\ leak[w][j] = "loose" => Accounted(r, w)
      BY <1>0, <2>1, <2>5, <2>6 DEF Guarded
    <3>2. leak'[w][j] \in {"loose", "watched"} => leak[w][j] = "loose"
      BY <1>0, <2>1, <2>2, <3>1
    <3> QED BY <2>3, <3>1, <3>2 DEF Guarded, Tidy
  <2>9. ASSUME NEW i \in Jobs, i # j PROVE Guarded(q, leak'[w][i], row[i], w, i)
    <3>1. leak'[w][i] = leak[w][i]
      BY <1>0, <2>1, <2>2, <2>9
    <3> QED BY <1>0, <2>3, <2>9, <3>1, GuardedIdle
  <2>10. ASSUME NEW i \in Jobs PROVE Guarded(wk'[w], leak'[w][i], row'[i], w, i)
    <3>1. CASE i = j
      BY <1>0, <2>2, <2>8, <3>1
    <3>2. CASE i # j
      BY <1>0, <2>2, <2>9, <3>2
    <3> QED BY <3>1, <3>2
  <2>11. wk'[w] = q /\ \A v \in Workers \ {w} : wk'[v] = wk[v] /\ leak'[v] = leak[v]
    BY <1>0, <2>2
  <2> QED BY <1>0, <2>1, <2>4, <2>7, <2>10, <2>11, OwnStep
<1>11. ASSUME NEW w \in Workers,
              \/ \E j \in Jobs : Fence(w, j) \/ PurgeFiles(w, j)
              \/ Look(w) \/ Clean(w) \/ Settle(w) \/ PurgeRow(w)
       PROVE  AllGuarded'
  <2>1. /\ wk[w].pc \in {"loop", "look", "clean", "settle", "purge"}
        /\ UNCHANGED leak /\ wk[w] \in Processes
        /\ Look(w) \/ Clean(w) \/ Settle(w) \/ PurgeRow(w) => wk[w].job \in Jobs
    BY <1>0, <1>11 DEF Fence, PurgeFiles, Look, Clean, Settle, PurgeRow, At, Resting
  <2>2. ~Leaving(wk[w]) /\ wk[w].exc = "none"
    BY <1>0, <2>1 DEF Leaving, Consistent
  <2>3. \E q : /\ wk' = [wk EXCEPT ![w] = q] /\ q.exc = "none"
               /\ q.pc \in {"loop", "look", "clean", "settle", "purge"}
    <3>1. ASSUME NEW j \in Jobs, Fence(w, j)
          PROVE  \E q : wk' = [wk EXCEPT ![w] = q] /\ q.exc = "none" /\ q.pc = "look"
      <4> DEFINE q == [wk[w] EXCEPT !.pc = "look", !.job = j,
                                    !.publishing = row[j].state = "publishing"]
      <4>1. wk' = [wk EXCEPT ![w] = q]
        BY <1>0, <3>1 DEF Fence
      <4>2. q.exc = "none" /\ q.pc = "look"
        BY <2>1, <2>2 DEF Processes
      <4> HIDE DEF q
      <4> QED BY <4>1, <4>2
    <3>2. ASSUME NEW j \in Jobs, PurgeFiles(w, j)
          PROVE  \E q : wk' = [wk EXCEPT ![w] = q] /\ q.exc = "none" /\ q.pc = "purge"
      <4> DEFINE q == [wk[w] EXCEPT !.pc = "purge", !.job = j]
      <4>1. wk' = [wk EXCEPT ![w] = q]
        BY <1>0, <3>2 DEF PurgeFiles
      <4>2. q.exc = "none" /\ q.pc = "purge"
        BY <2>1, <2>2 DEF Processes
      <4> HIDE DEF q
      <4> QED BY <4>1, <4>2
    <3>3. CASE Look(w)
      <4> DEFINE q == [wk[w] EXCEPT !.pc = "clean", !.found = wk[w].job \in final]
      <4>1. wk' = [wk EXCEPT ![w] = q]
        BY <1>0, <3>3 DEF Look
      <4>2. q.exc = "none" /\ q.pc = "clean"
        BY <2>1, <2>2 DEF Processes
      <4> HIDE DEF q
      <4> QED BY <4>1, <4>2
    <3>4. CASE Clean(w)
      <4> DEFINE q == [wk[w] EXCEPT !.pc = "settle"]
      <4>1. wk' = [wk EXCEPT ![w] = q]
        BY <1>0, <3>4 DEF Clean, Goto
      <4>2. q.exc = "none" /\ q.pc = "settle"
        BY <2>1, <2>2 DEF Processes
      <4> HIDE DEF q
      <4> QED BY <4>1, <4>2
    <3>5. CASE Settle(w) \/ PurgeRow(w)
      <4>1. wk' = [wk EXCEPT ![w] = IdleWorker]
        BY <3>5 DEF Settle, PurgeRow, Return
      <4>2. IdleWorker.exc = "none" /\ IdleWorker.pc = "loop"
        BY DEF IdleWorker
      <4> QED BY <4>1, <4>2
    <3>6. CASE \E j \in Jobs : Fence(w, j) \/ PurgeFiles(w, j)
      BY <3>1, <3>2, <3>6
    <3> QED BY <1>11, <3>3, <3>4, <3>5, <3>6
  <2>4. PICK q : /\ wk' = [wk EXCEPT ![w] = q] /\ q.exc = "none"
                 /\ q.pc \in {"loop", "look", "clean", "settle", "purge"}
    BY <2>3
  <2>5. Consistent(q) /\ q.pc \notin Tidy \cup {"finally", "outstanding"}
    BY <2>4 DEF Consistent, Tidy
  <2> DEFINE Moved == \E j \in Jobs : \E r :
                         /\ WorkerMove(j, w, r) /\ SetRow(j, r)
                         /\ Accounted(row[j], w) => Accounted(r, w)
                         /\ Doomed(row[j]) => Doomed(r)
  <2>6. UNCHANGED row \/ Moved
    <3>1. ASSUME NEW j \in Jobs, NEW r, SetRow(j, r),
                 \/ Leased(row[j]) /\ r = FencedRow(row[j], w)
                 \/ \E b \in BOOLEAN : r = RecoveredRow(row[j], w, b)
                 \/ Deletable(row[j]) /\ r = [AbsentRow EXCEPT !.state = "deleted"]
          PROVE  Moved
      <4>1. WorkerMove(j, w, r)
        BY <3>1 DEF WorkerMove
      <4>2. /\ Accounted(row[j], w) => Accounted(r, w)
            /\ Doomed(row[j]) => Doomed(r)
        BY <1>0, <3>1, MoveWhenIdle
      <4> QED BY <3>1, <4>1, <4>2
    <3> HIDE DEF Moved
    <3>2. ASSUME NEW j \in Jobs, Fence(w, j) PROVE Moved
      <4>1. SetRow(j, FencedRow(row[j], w)) /\ Leased(row[j])
        BY <3>2 DEF Fence, FencedRow
      <4> QED BY <3>1, <4>1
    <3>3. CASE Settle(w)
      <4>1. \E b \in BOOLEAN : SetRow(wk[w].job, RecoveredRow(row[wk[w].job], w, b))
        BY <3>3 DEF Settle
      <4> QED BY <2>1, <3>1, <3>3, <4>1
    <3>4. CASE PurgeRow(w)
      <4>1. \/ SetRow(wk[w].job, row[wk[w].job])
            \/ /\ Deletable(row[wk[w].job])
               /\ SetRow(wk[w].job, [AbsentRow EXCEPT !.state = "deleted"])
        BY <3>4 DEF PurgeRow
      <4>2. SetRow(wk[w].job, row[wk[w].job]) => UNCHANGED row
        BY <1>0, <2>1, <3>4 DEF SetRow
      <4> QED BY <2>1, <3>1, <3>4, <4>1, <4>2
    <3>5. CASE Look(w) \/ Clean(w) \/ \E j \in Jobs : PurgeFiles(w, j)
      BY <3>5 DEF Look, Clean, PurgeFiles, store
    <3> QED BY <1>11, <3>2, <3>3, <3>4, <3>5
  <2> QED BY <2>1, <2>2, <2>4, <2>5, <2>6, OwnIdle
<1>12. ASSUME NEW w \in Workers, NEW j \in Jobs, LeakEnds(w, j) PROVE AllGuarded'
  <2>1. /\ leak[w][j] \in {"loose", "watched"} /\ UNCHANGED <<row, wk>>
        /\ leak' = [leak EXCEPT ![w][j] = IF @ = "loose" THEN "over" ELSE "ended"]
    BY <1>12 DEF LeakEnds, store
  <2>2. ASSUME NEW i \in Jobs PROVE Guarded(wk[w], leak'[w][i], row[i], w, i)
    <3>1. Guarded(wk[w], leak[w][i], row[i], w, i)
      BY <1>0
    <3>2. CASE i # j
      BY <1>0, <2>1, <3>1, <3>2
    <3>3. CASE i = j
      <4>1. /\ leak[w][i] = "loose" => leak'[w][i] = "over"
            /\ leak[w][i] = "watched" => leak'[w][i] = "ended"
        BY <1>0, <2>1, <3>3
      <4> QED BY <2>1, <3>1, <3>3, <4>1 DEF Guarded
    <3> QED BY <3>2, <3>3
  <2>3. \A v \in Workers \ {w} : wk'[v] = wk[v] /\ leak'[v] = leak[v]
    BY <1>0, <2>1
  <2> QED BY <1>0, <2>1, <2>2, <2>3, OwnStep
<1>13. ASSUME NEW w \in Workers, NEW j \in Jobs, AttestLeak(w, j) PROVE AllGuarded'
  <2> DEFINE r == AttestedRow(row[j], w)
  <2>1. /\ leak[w][j] = "ended" /\ UNCHANGED wk /\ leak' = [leak EXCEPT ![w][j] = "none"]
        /\ SetRow(j, r) /\ WorkerMove(j, w, r)
    BY <1>13 DEF AttestLeak, WorkerMove
  <2> HIDE DEF r
  <2>2. ASSUME NEW i \in Jobs PROVE Guarded(wk[w], leak'[w][i], row'[i], w, i)
    <3>1. Guarded(wk[w], leak[w][i], row[i], w, i)
      BY <1>0
    <3>2. CASE i # j
      BY <1>0, <2>1, <3>1, <3>2 DEF SetRow
    <3>3. CASE i = j
      <4>1. leak'[w][i] = "none"
        BY <1>0, <2>1, <3>3
      <4> QED BY <2>1, <3>1, <3>3, <4>1 DEF Guarded, Tidy
    <3> QED BY <3>2, <3>3
  <2>3. \A v \in Workers \ {w} : wk'[v] = wk[v] /\ leak'[v] = leak[v]
    BY <1>0, <2>1
  <2> QED BY <1>0, <2>1, <2>2, <2>3, OwnStep
<1>14. ASSUME NEW w \in Workers, Exit(w) \/ Crash(w) \/ CrashInPublish(w) PROVE AllGuarded'
  <2> DEFINE q == [IdleWorker EXCEPT !.pc = "dead"]
             empty == [j \in Jobs |-> "none"]
  <2>1. /\ wk' = [wk EXCEPT ![w] = q] /\ leak' = [leak EXCEPT ![w] = empty]
        /\ UNCHANGED row
    BY <1>14 DEF Exit, Crash, CrashInPublish, Die, store
  <2>2. q.pc = "dead" /\ q.exc = "none"
    BY DEF IdleWorker
  <2>3. \A j \in Jobs : empty[j] = "none"
    OBVIOUS
  <2> HIDE DEF q, empty
  <2>4. Consistent(q)
    BY <2>2 DEF Consistent
  <2>5. \A j \in Jobs : Guarded(q, empty[j], row[j], w, j)
    BY <2>2, <2>3, GuardedClear
  <2>6. /\ wk'[w] = q /\ leak'[w] = empty
        /\ \A v \in Workers \ {w} : wk'[v] = wk[v] /\ leak'[v] = leak[v]
    BY <1>0, <2>1
  <2> QED BY <1>0, <2>1, <2>4, <2>5, <2>6, OwnStep
<1>15. ASSUME NEW w \in Workers,
              \/ HeartbeatFails(w) \/ StoreFails(w) \/ PublishFails(w) \/ AttestFails(w)
              \/ \E j \in Jobs : AttestLeakFails(w, j)
       PROVE  FALSE
  <2>1. Fault
    BY <1>15 DEF HeartbeatFails, StoreFails, PublishFails, AttestFails, AttestLeakFails
  <2>2. faults \in Nat
    BY LimitsAssumption DEF Typed, TypeOK
  <2> QED BY <2>1, <2>2 DEF Fault
<1>16. CASE Client
  <2>1. \A j \in Jobs : Age(j) => UNCHANGED <<row, wk, leak>>
    BY DEF Age
  <2> QED BY <1>1, <1>2, <1>16, <2>1 DEF Client
<1>17. ASSUME NEW w \in Workers,
              Pick(w) \/ Proceed(w) \/ ExecEnd(w) \/ LoseLease(w) \/ Leaked(w) \/ Failure(w)
       PROVE  AllGuarded'
  <2>1. CASE Pick(w)
    BY <1>7, <1>11, <2>1 DEF Pick
  <2>2. CASE Proceed(w)
    BY <1>3, <1>4, <1>8, <1>10, <1>11, <1>14, <2>2 DEF Proceed
  <2>3. CASE Leaked(w)
    BY <1>12, <1>13, <1>15, <2>3 DEF Leaked
  <2>4. CASE Failure(w)
    BY <1>6, <1>14, <1>15, <2>4 DEF Failure
  <2> QED BY <1>5, <1>9, <1>17, <2>1, <2>2, <2>3, <2>4
<1> QED BY <1>1, <1>16, <1>17 DEF Next, vars

\* Failures are counted one by one and never forgotten.
LEMMA FaultsCount ==
    ASSUME [Next]_vars
    PROVE  faults' = faults \/ faults' = faults + 1
<1> DEFINE Goal == faults' = faults \/ faults' = faults + 1
<1>1. CASE Client
  BY <1>1 DEF Client, Submit, Cancel, Age
<1>2. ASSUME NEW w \in Workers, Pick(w) \/ Leaked(w) PROVE Goal
  BY <1>2 DEF Pick, Claim, Fence, PurgeFiles, Leaked, LeakEnds, AttestLeak, AttestLeakFails, Fault
<1>3. ASSUME NEW w \in Workers, Proceed(w) PROVE Goal
  <2>1. CASE Gate(w) \/ Late(w) \/ Drop(w) \/ MarkOutstanding(w) \/ Reject(w) \/ Check(w)
    BY <2>1 DEF Gate, Late, Drop, MarkOutstanding, Reject, Check
  <2>2. CASE Discard(w) \/ Begin(w) \/ Publish(w) \/ Finally(w) \/ Except(w) \/ Revive(w)
    BY <2>2 DEF Discard, Begin, Publish, Finally, Except, Revive
  <2>3. CASE Giveup(w) \/ Look(w) \/ Clean(w) \/ Settle(w) \/ PurgeRow(w) \/ Exit(w)
    BY <2>3 DEF Giveup, Look, Clean, Settle, PurgeRow, Exit
  <2> QED BY <1>3, <2>1, <2>2, <2>3 DEF Proceed
<1>4. ASSUME NEW w \in Workers, Failure(w) \/ ExecEnd(w) \/ LoseLease(w) PROVE Goal
  <2>1. CASE HeartbeatFails(w) \/ StoreFails(w) \/ PublishFails(w) \/ AttestFails(w)
    BY <2>1 DEF HeartbeatFails, StoreFails, PublishFails, AttestFails, Fault
  <2>2. CASE Stop(w) \/ Crash(w) \/ CrashInPublish(w) \/ ExecEnd(w) \/ LoseLease(w)
    BY <2>2 DEF Stop, Crash, CrashInPublish, ExecEnd, LoseLease
  <2> QED BY <1>4, <2>1, <2>2 DEF Failure
<1> QED BY <1>1, <1>2, <1>3, <1>4 DEF Next, vars

\* The invariant holds while nothing has failed.
WorkGuarded == faults = 0 => AllGuarded

\* While nothing has failed, every thread is accounted to the row of its job: the
\* inductive invariant behind the theorems below.
THEOREM WorkAlwaysGuarded == Spec => []WorkGuarded
<1>1. Init => WorkGuarded
  <2> SUFFICES ASSUME Init PROVE AllGuarded
    BY DEF WorkGuarded
  <2>1. /\ \A w \in Workers : wk[w] = IdleWorker
        /\ \A w \in Workers, j \in Jobs : leak[w][j] = "none"
    BY DEF Init
  <2>2. Consistent(IdleWorker) /\ \A r, w, j : Guarded(IdleWorker, "none", r, w, j)
    BY GuardedClear DEF IdleWorker, Consistent
  <2> QED BY <2>1, <2>2 DEF AllGuarded
<1>2. ASSUME Typed, OwnersKnown, WorkGuarded, [Next]_vars PROVE WorkGuarded'
  <2> SUFFICES ASSUME faults' = 0 PROVE AllGuarded'
    BY DEF WorkGuarded
  <2>1. faults = 0
    <3>1. faults \in Nat
      <4>1. faults \in 0..MaxFaults
        BY <1>2 DEF Typed, TypeOK
      <4> QED BY <4>1, LimitsAssumption
    <3>2. faults' = faults \/ faults' = faults + 1
      BY <1>2, FaultsCount
    <3> QED BY <3>1, <3>2
  <2> QED BY <1>2, <2>1, GuardedStep DEF WorkGuarded
<1> QED BY <1>1, <1>2, TypedAlways, OwnersAlwaysKnown, PTL DEF Spec

-----------------------------------------------------------------------------
(* What follows for running work.                                           *)

\* A running thread is accounted to the row of its job.
LEMMA LiveIsAccounted ==
    ASSUME Typed, AllGuarded, NEW j \in Jobs, NEW w \in Running(j) \cup LeftBehind(j)
    PROVE  Accounted(row[j], w)
BY DEF AllGuarded, Guarded, Running, LeftBehind, At

\* So the row of running work holds a slot.
LEMMA LiveHoldsSlot ==
    ASSUME Typed, AllGuarded
    PROVE  LiveJobs \subseteq Holding
<1> SUFFICES ASSUME NEW j \in LiveJobs PROVE Outstanding(row[j])
  BY DEF LiveJobs, Holding
<1>1. PICK w \in Workers : Accounted(row[j], w)
  BY LiveIsAccounted DEF LiveJobs, Live, Running, LeftBehind
<1> QED BY <1>1 DEF Accounted, Outstanding, Leased, LeasedStates, Quarantined

\* Work that is physically running, displaced and leaked work included, never exceeds
\* max_running or max_running_per_principal: fence_expired, recover and
\* mark_unknown_outstanding keep the slot of work that was not proven to have ended.
THEOREM CapacityNeverExceeded == Spec => []CapacityHolds
<1>1. ASSUME Typed, WorkGuarded, SlotsBounded PROVE CapacityHolds
  <2> SUFFICES ASSUME faults = 0
               PROVE  /\ Cardinality(LiveJobs) <= MaxRunning
                      /\ \A p \in Principals :
                            Cardinality({j \in LiveJobs : Owner[j] = p}) <= MaxRunningPerPrincipal
    BY DEF CapacityHolds
  <2>1. LiveJobs \subseteq Holding
    BY <1>1, LiveHoldsSlot DEF WorkGuarded
  <2>2. Cardinality(LiveJobs) <= MaxRunning
    <3>1. /\ Cardinality(LiveJobs) <= Cardinality(Holding)
          /\ Cardinality(LiveJobs) \in Nat /\ Cardinality(Holding) \in Nat
      BY <2>1, FiniteParts, FS_Subset, FS_CardinalityType
    <3> QED BY <1>1, <3>1, LimitsAssumption DEF SlotsBounded
  <2>3. ASSUME NEW p \in Principals
        PROVE  Cardinality({j \in LiveJobs : Owner[j] = p}) <= MaxRunningPerPrincipal
    <3> DEFINE S == {j \in LiveJobs : Owner[j] = p}
    <3>1. S \in SUBSET HoldingOf(p)
      BY <2>1 DEF HoldingOf
    <3> HIDE DEF S
    <3>2. /\ Cardinality(S) <= Cardinality(HoldingOf(p))
          /\ Cardinality(S) \in Nat /\ Cardinality(HoldingOf(p)) \in Nat
      BY <3>1, FiniteParts, FS_Subset, FS_CardinalityType
    <3>3. Cardinality(S) <= MaxRunningPerPrincipal
      BY <1>1, <3>2, LimitsAssumption DEF SlotsBounded
    <3> QED BY <3>3 DEF S
  <2> QED BY <2>2, <2>3
<1> QED BY <1>1, TypedAlways, WorkAlwaysGuarded, SlotLimitsHold, PTL

\* Two sets of at most the same one element, one of them empty, have one element between them.
LEMMA AtMostOne ==
    ASSUME NEW S, NEW T, NEW x, S \subseteq {x}, T \subseteq {x}, S = {} \/ T = {}
    PROVE  Cardinality(S) + Cardinality(T) <= 1
<1>1. Cardinality({}) = 0 /\ Cardinality({x}) = 1
  BY FS_EmptySet, FS_Singleton
<1>2. S \in {{}, {x}} /\ T \in {{}, {x}}
  OBVIOUS
<1> QED BY <1>1, <1>2

\* Two attempts of a job never execute at once, and a job in the queue has nothing
\* executing (fail_attempt requeues only for the holder of the lease, whose executor has returned).
THEOREM ExecutionIsExclusive == Spec => []ExclusiveExecution
<1>1. ASSUME Typed, OwnersKnown, WorkGuarded PROVE ExclusiveExecution
  <2> SUFFICES ASSUME faults = 0, NEW j \in Jobs
               PROVE  /\ Cardinality(Running(j)) + Cardinality(LeftBehind(j)) <= 1
                      /\ row[j].state = "queued" => ~Live(j)
    BY DEF ExclusiveExecution
  <2>1. \A w \in Running(j) \cup LeftBehind(j) : w \in Workers /\ Accounted(row[j], w)
    BY <1>1, LiveIsAccounted DEF WorkGuarded, Running, LeftBehind
  <2>2. \A w \in Running(j) : w \notin LeftBehind(j)
    BY <1>1 DEF WorkGuarded, AllGuarded, Guarded, Tidy, Running, LeftBehind, At
  <2>3. \A v, w \in Running(j) \cup LeftBehind(j) : v = w
    BY <1>1, <2>1, OneAccount DEF OwnersKnown
  <2>4. Cardinality(Running(j)) + Cardinality(LeftBehind(j)) <= 1
    <3>1. CASE Running(j) \cup LeftBehind(j) = {}
      <4>1. Running(j) \subseteq {j} /\ LeftBehind(j) \subseteq {j} /\ Running(j) = {}
        BY <3>1
      <4> QED BY <4>1, AtMostOne
    <3>2. ASSUME NEW w \in Running(j) \cup LeftBehind(j)
          PROVE  Cardinality(Running(j)) + Cardinality(LeftBehind(j)) <= 1
      <4>1. /\ Running(j) \subseteq {w} /\ LeftBehind(j) \subseteq {w}
            /\ Running(j) = {} \/ LeftBehind(j) = {}
        BY <2>2, <2>3, <3>2
      <4> QED BY <4>1, AtMostOne
    <3> QED BY <3>1, <3>2
  <2>5. row[j].state = "queued" => ~Live(j)
    BY <2>1 DEF Live, Accounted
  <2> QED BY <2>4, <2>5
<1> QED BY <1>1, TypedAlways, OwnersAlwaysKnown, WorkAlwaysGuarded, PTL

-----------------------------------------------------------------------------
(* Keys.                                                                    *)

\* One live row per tenant and idempotency key: the table's UNIQUE constraint.
KeysUnique ==
    \A i, j \in Jobs :
        i # j /\ Present(i) /\ Present(j) /\ Owner[i] = Owner[j] /\ Key[i] = Key[j]
            => Key[i] = NoKey

\* A move makes a row present only by submitting it, under a key nobody has.
LEMMA OnlySubmitAdds ==
    ASSUME NEW j \in Jobs, row[j] \in Rows, NEW r, RowMove(j, r),
           r.state \notin {"absent", "deleted"}, ~Present(j)
    PROVE  ~KeyTaken(j)
<1> DEFINE q == row[j]
<1> USE DEF Present
<1>1. CASE ClientMove(j, r)
  BY <1>1 DEF ClientMove
<1>2. ASSUME NEW w \in Workers, WorkerMove(j, w, r) PROVE FALSE
  <2>1. \A b \in BOOLEAN : r # FailedRow(j, w, b) /\ r # RecoveredRow(q, w, b)
    BY DEF FailedRow, RecoveredRow, HeldBy, FencedBy, Leased, LeasedStates
  <2>2. r # AttestedRow(q, w) /\ r # OutstandingRow(q, w) /\ r # CompletedRow(q, w)
    BY DEF AttestedRow, OutstandingRow, CompletedRow, MayAttest, MayComplete, HeldBy, Leased,
           LeasedStates
  <2>3. ~MayBegin(q, w) /\ ~Leased(q) /\ r # [AbsentRow EXCEPT !.state = "deleted"]
    BY DEF MayBegin, HeldBy, Leased, LeasedStates, AbsentRow
  <2>4. ~NextToRun(j)
    BY DEF NextToRun, Queued
  <2> QED BY <1>2, <2>1, <2>2, <2>3, <2>4 DEF WorkerMove
<1> QED BY <1>1, <1>2 DEF RowMove

\* submit answers a key in use with the existing row, and no other method adds a row.
THEOREM KeysStayUnique == Spec => []KeysUnique
<1>1. Init => KeysUnique
  BY DEF Init, AbsentRow, KeysUnique, Present
<1>2. ASSUME Typed, KeysUnique, [Next]_vars PROVE KeysUnique'
  <2>0. row \in [Jobs -> Rows]
    BY <1>2 DEF Typed, TypeOK
  <2>1. CASE UNCHANGED row
    BY <1>2, <2>1 DEF KeysUnique, Present
  <2>2. ASSUME NEW j \in Jobs, NEW r, RowMove(j, r), SetRow(j, r) PROVE KeysUnique'
    <3>1. \A i \in Jobs \ {j} : row'[i] = row[i]
      BY <2>0, <2>2 DEF SetRow
    <3>2. Present(j)' /\ ~Present(j) => ~KeyTaken(j)
      BY <2>0, <2>2, OnlySubmitAdds DEF SetRow, Present
    <3>3. \A i \in Jobs \ {j} : Present(i)' <=> Present(i)
      BY <3>1 DEF Present
    <3>4. ASSUME NEW i \in Jobs \ {j}, Present(i), Present(j)', Owner[i] = Owner[j],
                 Key[i] = Key[j]
          PROVE  Key[i] = NoKey
      <4>1. CASE Present(j)
        BY <1>2, <3>4, <4>1 DEF KeysUnique
      <4>2. CASE ~Present(j)
        BY <3>2, <3>4, <4>2 DEF KeyTaken
      <4> QED BY <4>1, <4>2
    <3>5. ASSUME NEW i \in Jobs, NEW k \in Jobs, i # k, Present(i)', Present(k)',
                 Owner[i] = Owner[k], Key[i] = Key[k]
          PROVE  Key[i] = NoKey
      <4>1. CASE i # j /\ k # j
        BY <1>2, <3>3, <3>5, <4>1 DEF KeysUnique
      <4>2. CASE k = j
        BY <3>3, <3>4, <3>5, <4>2
      <4>3. CASE i = j
        <5>1. Key[k] = NoKey
          BY <3>3, <3>4, <3>5, <4>3
        <5> QED BY <3>5, <5>1
      <4> QED BY <4>1, <4>2, <4>3
    <3> QED BY <3>5 DEF KeysUnique
  <2> QED BY <1>2, <2>1, <2>2, OneRowMoves
<1> QED BY <1>1, <1>2, TypedAlways, PTL DEF Spec

\* Work submitted twice under one idempotency key is never running twice at once: the
\* first row stays, and answers, for as long as its work may be running.
THEOREM KeyedWorkIsExclusive == Spec => []KeyedWorkRunsOnce
<1>1. ASSUME Typed, WorkGuarded, KeysUnique PROVE KeyedWorkRunsOnce
  <2> SUFFICES ASSUME faults = 0, NEW i \in LiveJobs, NEW j \in LiveJobs, i # j,
                      Owner[i] = Owner[j], Key[i] = Key[j]
               PROVE  Key[i] = NoKey
    BY DEF KeyedWorkRunsOnce
  <2>1. i \in Holding /\ j \in Holding
    BY <1>1, LiveHoldsSlot DEF WorkGuarded
  <2>2. i \in Jobs /\ j \in Jobs /\ Present(i) /\ Present(j)
    BY <2>1 DEF Holding, Present, Outstanding, Leased, LeasedStates, Quarantined
  <2> QED BY <1>1, <2>2 DEF KeysUnique
<1> QED BY <1>1, TypedAlways, WorkAlwaysGuarded, KeysStayUnique, PTL

-----------------------------------------------------------------------------
(* Outcomes.                                                                *)

\* An ended row stays as it is, or delete_terminal deletes it.
LEMMA EndedRowStays ==
    ASSUME NEW j \in Jobs, row[j] \in Rows, row[j].state \in EndStates, NEW r, RowMove(j, r)
    PROVE  \/ r.state = row[j].state /\ r.attempts = row[j].attempts
           \/ r.state = "deleted" /\ Deletable(row[j])
<1> DEFINE q == row[j]
           Goal == \/ r.state = q.state /\ r.attempts = q.attempts
                   \/ r.state = "deleted" /\ Deletable(q)
<1> USE DEF EndStates, Leased, LeasedStates
<1>1. ~ClientMove(j, r)
  BY DEF ClientMove
<1>2. ASSUME NEW w \in Workers, WorkerMove(j, w, r) PROVE Goal
  <2>1. \A b \in BOOLEAN : FailedRow(j, w, b) = q /\ RecoveredRow(q, w, b) = q
    BY DEF FailedRow, RecoveredRow, HeldBy, FencedBy
  <2>2. OutstandingRow(q, w) = q /\ CompletedRow(q, w) = q
    BY DEF OutstandingRow, CompletedRow, MayComplete, HeldBy
  <2>3. CASE r = AttestedRow(q, w)
    BY <2>3 DEF AttestedRow, Rows
  <2>4. ~MayBegin(q, w) /\ ~Leased(q) /\ ~NextToRun(j)
    BY DEF MayBegin, HeldBy, NextToRun, Queued
  <2>5. CASE Deletable(q) /\ r = [AbsentRow EXCEPT !.state = "deleted"]
    BY <2>5 DEF AbsentRow
  <2> QED BY <1>2, <2>1, <2>2, <2>3, <2>4, <2>5 DEF WorkerMove
<1> QED BY <1>1, <1>2 DEF RowMove

\* An outcome never changes: no method moves a row out of an end state, and retention
\* deletes it only when no work of it is running.
THEOREM OutcomesStayFinal == Spec => OutcomesAreFinal
<1> DEFINE Kept(j) == \/ row'[j].state = row[j].state /\ row'[j].attempts = row[j].attempts
                      \/ row'[j].state = "deleted" /\ (faults = 0 => ~Live(j))
<1>1. ASSUME Typed, WorkGuarded, [Next]_vars
      PROVE  \A j \in Jobs : row[j].state \in EndStates => Kept(j)
  <2> SUFFICES ASSUME NEW j \in Jobs, row[j].state \in EndStates PROVE Kept(j)
    OBVIOUS
  <2>0. row \in [Jobs -> Rows]
    BY <1>1 DEF Typed, TypeOK
  <2>1. CASE row'[j] = row[j]
    BY <2>1
  <2>2. ASSUME NEW r, RowMove(j, r), row'[j] = r PROVE Kept(j)
    <3>1. \/ r.state = row[j].state /\ r.attempts = row[j].attempts
          \/ r.state = "deleted" /\ Deletable(row[j])
      BY <2>0, <2>2, EndedRowStays
    <3>2. Deletable(row[j]) /\ faults = 0 => ~Live(j)
      <4>1. Deletable(row[j]) => \A w : ~Accounted(row[j], w)
        BY DEF Deletable, Accounted
      <4> QED BY <1>1, <4>1, LiveIsAccounted DEF WorkGuarded, Live
    <3> QED BY <2>2, <3>1, <3>2
  <2>3. row'[j] = row[j] \/ \E r : RowMove(j, r) /\ row'[j] = r
    BY <1>1, <2>0, OneRowMoves DEF SetRow
  <2> QED BY <2>1, <2>2, <2>3
<1> QED BY <1>1, TypedAlways, WorkAlwaysGuarded, PTL DEF Spec, OutcomesAreFinal
=============================================================================
