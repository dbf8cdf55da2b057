---------------------- MODULE ThroughputStreamsProofs ----------------------
(***************************************************************************)
(* Proofs about ThroughputStreams, for any number of streams, threads and  *)
(* failures, with or without a deadline.                                   *)
(***************************************************************************)
EXTENDS ThroughputStreams, FiniteSetTheorems, TLAPS

-----------------------------------------------------------------------------
(* Types.                                                                   *)

\* The set of threads that may be created is finite, and so are its subsets.
LEMMA ThreadsAreCounted ==
    ASSUME NEW S, S \subseteq Workers
    PROVE  IsFiniteSet(S) /\ Cardinality(S) \in Nat
BY StreamsAssumption, FS_Subset, FS_CardinalityType

\* The variables have their types when execute begins.
LEMMA TypesHoldInitially == Init => TypeOK
<1> SUFFICES ASSUME Init PROVE TypeOK
  OBVIOUS
<1>1. Cardinality(Workers) \in Nat
  BY ThreadsAreCounted
<1>2. runner \in Runners
  BY StreamsAssumption DEF Init, Runners, RunnerPCs, Streams
<1>3. future \in [Streams -> FutureStates] /\ worker \in [Workers -> Threads]
  BY DEF Init, FutureStates, Threads, ThreadPCs
<1> QED BY <1>1, <1>2, <1>3, StreamsAssumption DEF Init, TypeOK, Streams

\* How the future of a stream and a thread may change.
LEMMA FutureMoves ==
    ASSUME NEW f \in [Streams -> FutureStates], NEW s, NEW x \in FutureStates
    PROVE  [f EXCEPT ![s] = x] \in [Streams -> FutureStates]
OBVIOUS

\* How the record of one thread may change.
LEMMA ThreadMoves ==
    ASSUME NEW t \in [Workers -> Threads], NEW w \in Workers, NEW p \in ThreadPCs,
           NEW i \in Streams \cup {NoStream}
    PROVE  /\ [t EXCEPT ![w].pc = p] \in [Workers -> Threads]
           /\ [t EXCEPT ![w] = [pc |-> p, item |-> i]] \in [Workers -> Threads]
BY DEF Threads

\* The stop marks of shutdown are items of the queue.
LEMMA StopsAreQueued ==
    ASSUME NEW n \in Nat
    PROVE  [i \in 1..n |-> Stop] \in Seq(Streams \cup {Stop})
OBVIOUS

\* Creating the future of the next stream and queueing it keeps the types.
LEMMA SubmittedKeepsTypes ==
    TypeOK /\ Submitted /\ permits' \in Nat /\ worker' \in [Workers -> Threads] => TypeOK'
<1> SUFFICES ASSUME TypeOK, Submitted, permits' \in Nat, worker' \in [Workers -> Threads]
             PROVE  TypeOK'
  OBVIOUS
<1>1. runner.at \in Streams
  BY DEF TypeOK, Runners
<1>2. runner.at # NumStreams => runner.at + 1 \in Streams
  BY <1>1, StreamsAssumption DEF Streams
<1>3. runner' \in Runners
  BY <1>1, <1>2 DEF TypeOK, Submitted, Runners, RunnerPCs
<1> QED BY <1>1, <1>3 DEF TypeOK, Submitted, result

\* An action that counts a raise keeps within the bound.
LEMMA RaisesAreBounded ==
    ASSUME TypeOK, raises < MaxRaises, raises' = raises + 1
    PROVE  raises' \in 0..MaxRaises
BY StreamsAssumption DEF TypeOK

\* Every step keeps the types.
LEMMA TypesAreKept == TypeOK /\ [Next]_vars => TypeOK'
<1> SUFFICES ASSUME TypeOK, [Next]_vars PROVE TypeOK'
  OBVIOUS
<1> USE DEF TypeOK, pool, result
<1>1. CASE Submit
  <2>1. runner.at \in Streams
    BY DEF Runners
  <2>2. runner' \in Runners
    BY <1>1 DEF Submit, Runners, RunnerPCs
  <2>3. future' \in [Streams -> FutureStates]
    BY <1>1, FutureMoves DEF Submit, FutureStates
  <2> QED BY <1>1, <2>1, <2>2, <2>3 DEF Submit
<1>2. CASE UsePermit
  BY <1>2, SubmittedKeepsTypes DEF UsePermit
<1>3. CASE AllStarted
  BY <1>3, SubmittedKeepsTypes DEF AllStarted
<1>4. CASE StartWorker
  <2>1. worker' \in [Workers -> Threads]
    BY <1>4 DEF StartWorker, Absent, ThreadPCs, Threads
  <2> QED BY <1>4, <2>1, SubmittedKeepsTypes DEF StartWorker
<1>5. CASE StartFails
  <2>1. runner' \in Runners
    BY <1>5 DEF StartFails, Runners, RunnerPCs
  <2> QED BY <1>5, <2>1, RaisesAreBounded DEF StartFails
<1>6. ASSUME NEW s \in Streams, Collect(s) PROVE TypeOK'
  BY <1>6 DEF Collect
<1>7. ASSUME NEW s \in Streams, CollectRaises(s) PROVE TypeOK'
  BY <1>7 DEF CollectRaises, Runners, RunnerPCs
<1>8. ASSUME NEW s \in Streams, SettleCancel(s) PROVE TypeOK'
  BY <1>8, FutureMoves DEF SettleCancel, FutureStates
<1>9. ASSUME NEW s \in Streams, SettleStarted(s) PROVE TypeOK'
  BY <1>9 DEF SettleStarted, Runners, RunnerPCs
<1>10. CASE AllCollected
  BY <1>10 DEF AllCollected, Runners, RunnerPCs
<1>11. CASE Timeout
  BY <1>11 DEF Timeout, Runners, RunnerPCs
<1>12. CASE Interrupt
  <2>1. runner' \in Runners
    BY <1>12 DEF Interrupt, Runners, RunnerPCs
  <2> QED BY <1>12, <2>1, RaisesAreBounded DEF Interrupt
<1>13. CASE SettleDone
  BY <1>13 DEF SettleDone, Runners, RunnerPCs
<1>14. CASE SettleOutstanding
  BY <1>14 DEF SettleOutstanding, Runners, RunnerPCs
<1>15. CASE SettleRaises
  BY <1>15 DEF SettleRaises, Runners, RunnerPCs
<1>16. CASE Settled
  BY <1>16 DEF Settled, Runners, RunnerPCs
<1>17. CASE Drain
  <2>1. future' \in [Streams -> FutureStates]
    BY <1>17 DEF Drain, FutureStates
  <2> QED BY <1>17, <2>1 DEF Drain
<1>18. CASE Finish
  <2>1. Cardinality(Workers \ Absent) \in Nat
    BY ThreadsAreCounted
  <2>2. runner' \in Runners
    BY <1>18 DEF Finish, Runners, RunnerPCs
  <2>3. workQueue' \in Seq(Streams \cup {Stop})
    BY <1>18, <2>1, StopsAreQueued DEF Finish
  <2> QED BY <1>18, <2>2, <2>3 DEF Finish
<1>19. ASSUME NEW w \in Workers, Take(w) PROVE TypeOK'
  <2>1. Head(workQueue) \in Streams \cup {Stop}
    BY <1>19 DEF Take
  <2>2. worker' \in [Workers -> Threads]
    BY <1>19, <2>1, ThreadMoves DEF Take, ThreadPCs, NoStream, Stop
  <2> QED BY <1>19, <2>2 DEF Take
<1>20. ASSUME NEW w \in Workers, Begin(w) PROVE TypeOK'
  <2>1. future' \in [Streams -> FutureStates]
    BY <1>20, FutureMoves DEF Begin, FutureStates
  <2>2. worker' \in [Workers -> Threads]
    BY <1>20, ThreadMoves DEF Begin, ThreadPCs
  <2> QED BY <1>20, <2>1, <2>2 DEF Begin
<1>21. ASSUME NEW w \in Workers, End(w) PROVE TypeOK'
  <2>1. future' \in [Streams -> FutureStates]
    BY <1>21, FutureMoves DEF End, FutureStates
  <2>2. worker' \in [Workers -> Threads]
    BY <1>21, ThreadMoves DEF End, ThreadPCs
  <2> QED BY <1>21, <2>1, <2>2 DEF End
<1>22. ASSUME NEW w \in Workers, Die(w) PROVE TypeOK'
  <2>1. future' \in [Streams -> FutureStates]
    BY <1>22, FutureMoves DEF Die, FutureStates
  <2>2. worker' \in [Workers -> Threads]
    BY <1>22, ThreadMoves DEF Die, ThreadPCs
  <2> QED BY <1>22, <2>1, <2>2, RaisesAreBounded DEF Die
<1>23. ASSUME NEW w \in Workers, Release(w) PROVE TypeOK'
  BY <1>23 DEF Release, ThreadPCs, Threads, NoStream
<1>24. CASE UNCHANGED vars
  BY <1>24 DEF vars
<1> QED
  BY <1>1, <1>2, <1>3, <1>4, <1>5, <1>6, <1>7, <1>8, <1>9, <1>10, <1>11, <1>12, <1>13,
     <1>14, <1>15, <1>16, <1>17, <1>18, <1>19, <1>20, <1>21, <1>22, <1>23, <1>24
  DEF Next, Execute, Thread

\* Every variable of a throughput phase keeps its type.
THEOREM StreamsTypeCorrect == Spec => []TypeOK
BY TypesHoldInitially, TypesAreKept, PTL DEF Spec
-----------------------------------------------------------------------------
(* Submission: streams are submitted in the order of their ids, and only a   *)
(* submission that raised leaves a future that the runner does not know.     *)

Submitting == {"submit", "spawn"}
Created(s) == future[s] # "none"

Numbered ==
    /\ \A s \in known : Created(s)
    /\ runner.pc \in Submitting => \A s \in known : s < runner.at
    /\ runner.pc = "submit" => \A s \in Streams : Created(s) => s \in known
    /\ runner.pc = "spawn" => \A s \in Streams : Created(s) <=> s \in known \/ s = runner.at

\* No future is created before the first submit.
LEMMA NumberedHoldsInitially == Init => Numbered
BY DEF Init, Numbered, Created, Submitting

\* A step that submits nothing.
LEMMA NumberedWithoutSubmission ==
    ASSUME TypeOK, Numbered, known' = known, runner'.pc \notin Submitting \/ runner' = runner,
           \A s \in Streams : Created(s)' <=> Created(s)
    PROVE  Numbered'
BY DEF Numbered, TypeOK, Submitting

-----------------------------------------------------------------------------
(* Items: a stream is in one place, the queue or the hands of a thread, and  *)
(* its future says how far it is.                                            *)

Waiting == {"pending", "cancelled"}
InHand(w) == worker[w].pc \in {"got", "run"}
Item(w) == worker[w].item

QueuedOnce ==
    \A i, j \in 1..Len(workQueue) :
        workQueue[i] = workQueue[j] /\ workQueue[i] \in Streams => i = j
QueuedWait ==
    \A i \in 1..Len(workQueue) : workQueue[i] \in Streams => future[workQueue[i]] \in Waiting
TakenGo ==
    \A w \in Workers :
        /\ InHand(w) => Item(w) \in Streams
        /\ worker[w].pc = "got" => future[Item(w)] \in Waiting
        /\ worker[w].pc = "run" => future[Item(w)] = "running"
TakenOnce ==
    \A w \in Workers : InHand(w) =>
        /\ \A i \in 1..Len(workQueue) : workQueue[i] # Item(w)
        /\ \A v \in Workers : InHand(v) /\ Item(v) = Item(w) => v = w
Placed == QueuedOnce /\ QueuedWait /\ TakenGo /\ TakenOnce

\* Nothing is queued and no thread holds an item before the first submit.
LEMMA PlacedHoldsInitially == Init => Placed
BY DEF Init, Placed, QueuedOnce, QueuedWait, TakenGo, TakenOnce, InHand

\* What the queue still holds after a thread took its head.
LEMMA TailElements ==
    ASSUME NEW S, NEW q \in Seq(S), q # <<>>
    PROVE  /\ Head(q) = q[1] /\ 1 \in 1..Len(q)
           /\ Len(Tail(q)) = Len(q) - 1
           /\ \A i \in 1..Len(Tail(q)) : i + 1 \in 1..Len(q) /\ Tail(q)[i] = q[i + 1]
OBVIOUS

\* A stream is queued at most once, and in the hand of at most one thread, after every step.
LEMMA PlacedIsKept == TypeOK /\ Numbered /\ Placed /\ [Next]_vars => Placed'
<1> SUFFICES ASSUME TypeOK, Numbered, Placed, [Next]_vars PROVE Placed'
  OBVIOUS
<1> USE DEF pool, result, Placed, QueuedOnce, QueuedWait, TakenGo, TakenOnce, InHand, Item,
            Waiting
<1>a. workQueue \in Seq(Streams \cup {Stop}) /\ Len(workQueue) \in Nat
  BY DEF TypeOK
<1>b. future \in [Streams -> FutureStates] /\ worker \in [Workers -> Threads]
  BY DEF TypeOK
<1>1. CASE Submit
  <2>1. runner.at \in Streams /\ future[runner.at] = "none"
    BY <1>1 DEF Submit, Numbered, Created, Submitting, TypeOK, Runners, Streams
  <2>2. /\ Len(workQueue') = Len(workQueue) + 1
        /\ workQueue'[Len(workQueue) + 1] = runner.at
        /\ \A i \in 1..Len(workQueue) : workQueue'[i] = workQueue[i]
    BY <1>1, <1>a, <2>1 DEF Submit
  <2>3. \A s \in Streams : s # runner.at => future'[s] = future[s]
    BY <1>1, <1>b DEF Submit
  <2>4. future'[runner.at] = "pending"
    BY <1>1, <1>b, <2>1 DEF Submit
  <2>5. worker' = worker
    BY <1>1 DEF Submit
  <2>6. \A i \in 1..Len(workQueue) : workQueue[i] # runner.at
    BY <2>1
  <2>7. \A w \in Workers : InHand(w) => Item(w) # runner.at
    BY <2>1
  <2>8. QueuedOnce'
    BY <1>a, <2>2, <2>6
  <2>9. QueuedWait'
    BY <1>a, <2>2, <2>3, <2>4, <2>6
  <2>10. TakenGo' /\ TakenOnce'
    BY <1>a, <2>2, <2>3, <2>5, <2>7
  <2> QED BY <2>8, <2>9, <2>10
<1>2. ASSUME NEW w \in Workers, Take(w) PROVE Placed'
  <2>1. /\ workQueue' = Tail(workQueue) /\ workQueue # <<>>
        /\ future' = future /\ worker[w].pc = "get"
        /\ \A v \in Workers : v # w => worker'[v] = worker[v]
        /\ worker'[w] = IF Head(workQueue) = Stop THEN [pc |-> "exited", item |-> NoStream]
                        ELSE [pc |-> "got", item |-> Head(workQueue)]
    BY <1>2, <1>b DEF Take
  <2>2. /\ Head(workQueue) = workQueue[1] /\ 1 \in 1..Len(workQueue)
        /\ Len(workQueue') = Len(workQueue) - 1
        /\ \A i \in 1..Len(workQueue') :
              i + 1 \in 1..Len(workQueue) /\ workQueue'[i] = workQueue[i + 1]
    BY <1>a, <2>1, TailElements
  <2>3. workQueue[1] \in Streams \/ workQueue[1] = Stop
    BY <1>a, <2>2
  <2>4. QueuedOnce' /\ QueuedWait'
    BY <1>a, <2>1, <2>2
  <2>5. TakenGo'
    BY <2>1, <2>2, <2>3
  <2>6. \A i \in 1..Len(workQueue') : workQueue[1] \in Streams => workQueue'[i] # workQueue[1]
    BY <1>a, <2>2
  <2>7. TakenOnce'
    BY <2>1, <2>2, <2>3, <2>6
  <2> QED BY <2>4, <2>5, <2>7
<1>3. ASSUME NEW w \in Workers, Begin(w) PROVE Placed'
  BY <1>3, <1>b DEF Begin
<1>4. ASSUME NEW w \in Workers, End(w) \/ Die(w) PROVE Placed'
  <2>1. /\ worker[w].pc = "run" /\ workQueue' = workQueue
        /\ worker' = [worker EXCEPT ![w].pc = "release"]
        /\ \A s \in Streams : s # Item(w) => future'[s] = future[s]
    BY <1>4, <1>b DEF End, Die
  <2>2. \A v \in Workers : InHand(v)' => v # w /\ worker'[v] = worker[v]
    BY <2>1, <1>b
  <2>3. \A v \in Workers : InHand(v)' => Item(v) # Item(w)
    BY <2>1, <2>2
  <2>4. QueuedOnce' /\ QueuedWait'
    BY <2>1
  <2>5. TakenGo' /\ TakenOnce'
    BY <2>1, <2>2, <2>3
  <2> QED BY <2>4, <2>5
<1>5. ASSUME NEW w \in Workers, Release(w) PROVE Placed'
  BY <1>5, <1>b DEF Release
<1>6. ASSUME NEW s \in Streams, SettleCancel(s) PROVE Placed'
  BY <1>6, <1>b DEF SettleCancel
<1>7. CASE Drain
  <2>1. workQueue' = Tail(workQueue) /\ workQueue # <<>> /\ worker' = worker
    BY <1>7 DEF Drain
  <2>2. \A s \in Streams : future'[s] = future[s] \/ (future[s] = "pending" /\ future'[s] = "cancelled")
    BY <1>7, <1>b DEF Drain
  <2>3. /\ Len(workQueue') = Len(workQueue) - 1
        /\ \A i \in 1..Len(workQueue') :
              i + 1 \in 1..Len(workQueue) /\ workQueue'[i] = workQueue[i + 1]
    BY <1>a, <2>1, TailElements
  <2>4. QueuedOnce' /\ QueuedWait'
    BY <1>a, <2>2, <2>3
  <2>5. TakenGo' /\ TakenOnce'
    BY <1>a, <2>1, <2>2, <2>3
  <2> QED BY <2>4, <2>5
<1>8. CASE Finish
  <2>1. Cardinality(Workers \ Absent) \in Nat
    BY ThreadsAreCounted
  <2>2. \A i \in 1..Len(workQueue') : workQueue'[i] \notin Streams
    BY <1>8, <2>1 DEF Finish, Stop, Streams
  <2> QED BY <1>8, <2>2 DEF Finish
<1>9. CASE StartWorker
  BY <1>9, <1>b DEF StartWorker, Submitted, Absent
<1>10. CASE UsePermit \/ AllStarted \/ StartFails
  BY <1>10 DEF UsePermit, AllStarted, StartFails, Submitted
<1>11. ASSUME NEW s \in Streams, Collect(s) \/ CollectRaises(s) \/ SettleStarted(s)
       PROVE Placed'
  BY <1>11 DEF Collect, CollectRaises, SettleStarted
<1>12. CASE AllCollected \/ Timeout \/ Interrupt \/ Settled
  BY <1>12 DEF AllCollected, Timeout, Interrupt, Settled
<1>13. CASE SettleDone \/ SettleOutstanding \/ SettleRaises
  BY <1>13 DEF SettleDone, SettleOutstanding, SettleRaises
<1>14. CASE UNCHANGED vars
  BY <1>14 DEF vars
<1> QED
  BY <1>1, <1>2, <1>3, <1>4, <1>5, <1>6, <1>7, <1>8, <1>9, <1>10, <1>11, <1>12, <1>13,
     <1>14
  DEF Next, Execute, Thread

\* The streams are created in the order of their numbers, after every step.
LEMMA NumberedIsKept == TypeOK /\ Numbered /\ Placed /\ [Next]_vars => Numbered'
<1> SUFFICES ASSUME TypeOK, Numbered, Placed, [Next]_vars PROVE Numbered'
  OBVIOUS
<1> USE DEF pool, result
<1>1. CASE Submit
  <2>1. runner.at \in Streams
    BY DEF TypeOK, Runners
  <2> QED BY <1>1, <2>1 DEF Submit, Numbered, Created, Submitting, TypeOK
<1>2. CASE UsePermit \/ AllStarted \/ StartWorker
  <2>1. Submitted /\ runner.pc = "spawn"
    BY <1>2 DEF UsePermit, AllStarted, StartWorker
  <2>2. runner.at \in Nat
    BY DEF TypeOK, Runners, Streams
  <2> QED BY <2>1, <2>2 DEF Submitted, Numbered, Created, Submitting, TypeOK, Streams, Runners
<1>3. CASE StartFails
  BY <1>3, NumberedWithoutSubmission DEF StartFails, Submitting, Created, TypeOK, Runners
<1>4. ASSUME NEW s \in Streams, Collect(s) \/ CollectRaises(s) \/ SettleStarted(s)
      PROVE Numbered'
  BY <1>4, NumberedWithoutSubmission
  DEF Collect, CollectRaises, SettleStarted, Submitting, Created, TypeOK, Runners
<1>5. ASSUME NEW s \in Streams, SettleCancel(s) PROVE Numbered'
  BY <1>5, NumberedWithoutSubmission DEF SettleCancel, Created, TypeOK
<1>6. CASE AllCollected \/ Timeout \/ Interrupt \/ Settled
  BY <1>6, NumberedWithoutSubmission
  DEF AllCollected, Timeout, Interrupt, Settled, Submitting, Created, TypeOK, Runners
<1>7. CASE SettleDone \/ SettleOutstanding \/ SettleRaises
  BY <1>7, NumberedWithoutSubmission
  DEF SettleDone, SettleOutstanding, SettleRaises, Submitting, Created, TypeOK, Runners
<1>8. CASE Drain
  BY <1>8, NumberedWithoutSubmission DEF Drain, Created, TypeOK
<1>9. CASE Finish
  BY <1>9, NumberedWithoutSubmission DEF Finish, Submitting, Created, TypeOK, Runners
<1>10. ASSUME NEW w \in Workers, Take(w) \/ Release(w) PROVE Numbered'
  BY <1>10, NumberedWithoutSubmission DEF Take, Release, Created
<1>11. ASSUME NEW w \in Workers, Begin(w) PROVE Numbered'
  BY <1>11, NumberedWithoutSubmission 
  DEF Begin, Created, TypeOK, Placed, TakenGo, InHand, Item, Waiting
<1>12. ASSUME NEW w \in Workers, End(w) \/ Die(w) PROVE Numbered'
  BY <1>12, NumberedWithoutSubmission 
  DEF End, Die, Created, TypeOK, Placed, TakenGo, InHand, Item
<1>13. CASE UNCHANGED vars
  BY <1>13, NumberedWithoutSubmission DEF vars, Created
<1> QED
  BY <1>1, <1>2, <1>3, <1>4, <1>5, <1>6, <1>7, <1>8, <1>9, <1>10, <1>11, <1>12, <1>13
  DEF Next, Execute, Thread

-----------------------------------------------------------------------------
(* Permits: while streams are submitted and awaited, the queued streams and  *)
(* the permits together are the threads that wait for an item, but for the   *)
(* stream whose submission is under way.                                     *)

Awaiting == {"submit", "spawn", "wait", "settle", "asked"}

Balanced ==
    runner.pc \in Awaiting /\ Refused = {} /\ Room =>
        Len(workQueue) + permits
            = Cardinality(Getting) + (IF runner.pc = "spawn" THEN 1 ELSE 0)

\* The queue, the permits and the threads balance when nothing is submitted.
LEMMA BalancedInitially == Init => Balanced
<1> SUFFICES ASSUME Init PROVE Len(workQueue) + permits = Cardinality(Getting)
  BY DEF Init, Balanced
<1>1. Getting = {}
  BY DEF Init, Getting
<1> QED BY <1>1, FS_EmptySet DEF Init

\* What the steps other than those of a submission do to the runner.
OtherStep ==
    /\ known' = known
    /\ \/ runner' = runner
       \/ /\ runner.pc \in {"wait", "settle", "asked", "drain"}
          /\ runner'.pc \in {"settle", "asked", "drain", "returned"}
          /\ runner.pc = "drain" => runner'.pc = "returned"

\* The steps of the runner that touch neither the queue nor the threads.
LEMMA OtherSteps ==
    ASSUME TypeOK, Placed, [Next]_vars,
           ~Submit, ~UsePermit, ~AllStarted, ~StartWorker, ~StartFails
    PROVE  OtherStep /\ \A s \in Streams : Created(s) => Created(s)'
<1> USE DEF OtherStep, Created
<1>a. runner.pc \in RunnerPCs /\ runner = [pc |-> runner.pc, at |-> runner.at, exc |-> runner.exc]
  BY DEF TypeOK, Runners
<1>b. future \in [Streams -> FutureStates]
  BY DEF TypeOK
<1>1. ASSUME NEW s \in Streams, Collect(s) \/ CollectRaises(s) \/ SettleStarted(s)
      PROVE OtherStep /\ \A t \in Streams : Created(t) => Created(t)'
  BY <1>1, <1>a DEF Collect, CollectRaises, SettleStarted, pool
<1>2. ASSUME NEW s \in Streams, SettleCancel(s)
      PROVE OtherStep /\ \A t \in Streams : Created(t) => Created(t)'
  BY <1>2, <1>b DEF SettleCancel
<1>3. CASE AllCollected \/ Timeout \/ Interrupt \/ Settled
  BY <1>3, <1>a DEF AllCollected, Timeout, Interrupt, Settled, pool
<1>4. CASE SettleDone \/ SettleOutstanding \/ SettleRaises
  BY <1>4, <1>a DEF SettleDone, SettleOutstanding, SettleRaises, pool
<1>5. CASE Drain
  BY <1>5, <1>b DEF Drain
<1>6. CASE Finish
  BY <1>6, <1>a DEF Finish
<1>7. ASSUME NEW w \in Workers, Thread(w)
      PROVE OtherStep /\ \A t \in Streams : Created(t) => Created(t)'
  <2>1. known' = known /\ runner' = runner
    BY <1>7 DEF Thread, Take, Begin, End, Die, Release
  <2>2. \A t \in Streams : Created(t) => Created(t)'
    BY <1>7, <1>b DEF Thread, Take, Begin, End, Die, Release
  <2> QED BY <2>1, <2>2
<1>8. CASE UNCHANGED vars
  BY <1>8 DEF vars, pool
<1> QED BY <1>1, <1>2, <1>3, <1>4, <1>5, <1>6, <1>7, <1>8 DEF Next, Execute

\* A stream that was refused stays so: no later step makes its future known.
LEMMA RefusalIsFinal ==
    ASSUME TypeOK, Numbered, Placed, [Next]_vars, Refused' = {}, runner'.pc \in Awaiting
    PROVE  runner.pc \in Awaiting /\ Refused = {}
<1> USE DEF pool, result
<1>1. CASE Submit
  BY <1>1 DEF Submit, Awaiting, Refused, Numbered, Created
<1>2. CASE UsePermit \/ AllStarted \/ StartWorker
  BY <1>2 DEF UsePermit, AllStarted, StartWorker, Awaiting, Refused
<1>3. CASE StartFails
  <2>1. runner.at \in Streams /\ runner.at \notin known /\ Created(runner.at)
    BY <1>3 DEF StartFails, Numbered, Submitting, TypeOK, Runners, Streams
  <2> QED BY <1>3, <2>1 DEF StartFails, Refused, Created, TypeOK, Runners
<1>4. ASSUME ~Submit, ~UsePermit, ~AllStarted, ~StartWorker, ~StartFails
      PROVE  runner.pc \in Awaiting /\ Refused = {}
  <2>1. OtherStep /\ \A s \in Streams : Created(s) => Created(s)'
    BY <1>4, OtherSteps
  <2>2. runner.pc \in Awaiting /\ (runner'.pc = "spawn" => runner' = runner)
    BY <2>1 DEF OtherStep, Awaiting
  <2> QED BY <2>1, <2>2 DEF OtherStep, Refused, Created
<1> QED BY <1>1, <1>2, <1>3, <1>4

\* A thread that begins or stops to wait for an item is one more or one less.
LEMMA OneMoreGetting ==
    ASSUME NEW w \in Workers \ Getting, Getting' = Getting \cup {w}
    PROVE  Cardinality(Getting') = Cardinality(Getting) + 1
BY ThreadsAreCounted, FS_AddElement DEF Getting

LEMMA OneLessGetting ==
    ASSUME NEW w \in Getting, Getting' = Getting \ {w}
    PROVE  Cardinality(Getting') = Cardinality(Getting) - 1
BY ThreadsAreCounted, FS_RemoveElement DEF Getting

\* Queued items and idle permits equal the threads about to take an item, after every step.
LEMMA BalancedIsKept == TypeOK /\ Numbered /\ Placed /\ Balanced /\ [Next]_vars => Balanced'
<1> SUFFICES ASSUME TypeOK, Numbered, Placed, Balanced, [Next]_vars,
                    runner'.pc \in Awaiting, Refused' = {}, Room'
             PROVE  Len(workQueue') + permits'
                      = Cardinality(Getting') + (IF runner'.pc = "spawn" THEN 1 ELSE 0)
  BY DEF Balanced
<1> USE DEF pool, result
<1>a. runner.pc \in Awaiting /\ Refused = {}
  BY RefusalIsFinal
<1>b. /\ Len(workQueue) \in Nat /\ permits \in Nat /\ Cardinality(Getting) \in Nat
      /\ worker \in [Workers -> Threads] /\ workQueue \in Seq(Streams \cup {Stop})
      /\ runner \in Runners
  BY ThreadsAreCounted DEF TypeOK, Getting
<1>c. Room => Len(workQueue) + permits
                = Cardinality(Getting) + (IF runner.pc = "spawn" THEN 1 ELSE 0)
  BY <1>a DEF Balanced
<1>1. CASE Submit
  <2>1. Getting' = Getting /\ Room /\ runner.pc = "submit" /\ runner'.pc = "spawn"
    BY <1>1, <1>b DEF Submit, Getting, Room, Absent, Runners
  <2>2. runner.at \in Streams \cup {Stop}
    BY <1>b DEF Runners
  <2>3. Len(workQueue') = Len(workQueue) + 1 /\ permits' = permits
    BY <1>1, <1>b, <2>2 DEF Submit
  <2> QED BY <1>b, <1>c, <2>1, <2>3
<1>2. CASE UsePermit
  <2>1. Getting' = Getting /\ Room
    BY <1>2 DEF UsePermit, Submitted, Getting, Room, Absent
  <2>2. runner.pc = "spawn" /\ runner'.pc # "spawn"
    BY <1>2, <1>b DEF UsePermit, Submitted, Runners
  <2>3. workQueue' = workQueue /\ permits' = permits - 1
    BY <1>2 DEF UsePermit, Submitted
  <2> QED BY <1>b, <1>c, <2>1, <2>2, <2>3
<1>3. CASE AllStarted
  BY <1>3 DEF AllStarted, Submitted, Room, Absent
<1>4. CASE StartWorker
  <2>1. PICK w \in Absent : worker' = [worker EXCEPT ![w].pc = "get"]
    BY <1>4 DEF StartWorker
  <2>2. w \in Workers \ Getting /\ Getting' = Getting \cup {w}
    BY <1>b, <2>1 DEF Absent, Getting, Threads
  <2>3. runner.pc = "spawn" /\ runner'.pc # "spawn" /\ Room
    BY <1>4, <1>b DEF StartWorker, Submitted, Runners
  <2>4. workQueue' = workQueue /\ permits' = permits
    BY <1>4 DEF StartWorker, Submitted
  <2>5. Cardinality(Getting') = Cardinality(Getting) + 1
    BY <2>2, OneMoreGetting
  <2> QED BY <1>b, <1>c, <2>3, <2>4, <2>5
<1>5. CASE StartFails
  <2>1. runner.at \in Streams /\ runner.at \notin known /\ Created(runner.at)
    BY <1>5 DEF StartFails, Numbered, Submitting, TypeOK, Runners, Streams
  <2>2. runner.at \in Refused'
    BY <1>5, <1>b, <2>1 DEF StartFails, Refused, Created, Runners
  <2> QED BY <2>2
<1>6. ASSUME NEW w \in Workers, Take(w)
      PROVE  Len(workQueue') + permits'
               = Cardinality(Getting') + (IF runner'.pc = "spawn" THEN 1 ELSE 0)
  <2>1. worker[w].pc = "get" /\ worker'[w].pc \in {"got", "exited"}
        /\ \A v \in Workers : v # w => worker'[v] = worker[v]
    BY <1>6, <1>b DEF Take
  <2>2. w \in Getting /\ Getting' = Getting \ {w}
    BY <2>1 DEF Getting
  <2>3. Absent' = Absent
    BY <2>1 DEF Absent
  <2>4. Room
    BY <1>6, <2>3 DEF Take, Room
  <2>5. Len(workQueue') = Len(workQueue) - 1 /\ permits' = permits /\ runner' = runner
    BY <1>6, <1>b DEF Take
  <2>6. Cardinality(Getting') = Cardinality(Getting) - 1
    BY <2>2, OneLessGetting
  <2> QED BY <1>b, <1>c, <2>4, <2>5, <2>6
<1>7. ASSUME NEW w \in Workers, Release(w)
      PROVE  Len(workQueue') + permits'
               = Cardinality(Getting') + (IF runner'.pc = "spawn" THEN 1 ELSE 0)
  <2>1. worker[w].pc = "release" /\ worker'[w].pc = "get"
        /\ \A v \in Workers : v # w => worker'[v] = worker[v]
    BY <1>7, <1>b DEF Release
  <2>2. w \in Workers \ Getting /\ Getting' = Getting \cup {w}
    BY <2>1 DEF Getting
  <2>3. Absent' = Absent
    BY <2>1 DEF Absent
  <2>4. Room
    BY <1>7, <2>3 DEF Release, Room
  <2>5. workQueue' = workQueue /\ permits' = permits + 1 /\ runner' = runner
    BY <1>7 DEF Release
  <2>6. Cardinality(Getting') = Cardinality(Getting) + 1
    BY <2>2, OneMoreGetting
  <2> QED BY <1>b, <1>c, <2>4, <2>5, <2>6
<1>8. ASSUME NEW w \in Workers, Begin(w) \/ End(w) \/ Die(w)
      PROVE  Len(workQueue') + permits'
               = Cardinality(Getting') + (IF runner'.pc = "spawn" THEN 1 ELSE 0)
  <2>1. worker[w].pc \in {"got", "run"} /\ worker'[w].pc \in {"run", "release"}
        /\ \A v \in Workers : v # w => worker'[v] = worker[v]
    BY <1>8, <1>b DEF Begin, End, Die, Threads
  <2>2. Getting' = Getting /\ Absent' = Absent
    BY <2>1 DEF Getting, Absent
  <2>3. workQueue' = workQueue /\ permits' = permits /\ runner' = runner
        /\ maxWorkers' = maxWorkers
    BY <1>8 DEF Begin, End, Die
  <2> QED BY <1>c, <2>2, <2>3 DEF Room
<1>9. CASE Drain \/ Finish
  BY <1>9, <1>a DEF Drain, Finish, Awaiting
<1>10. ASSUME UNCHANGED <<workQueue, permits, worker, maxWorkers>>,
              runner'.pc = "spawn" <=> runner.pc = "spawn"
       PROVE  Len(workQueue') + permits'
               = Cardinality(Getting') + (IF runner'.pc = "spawn" THEN 1 ELSE 0)
  BY <1>c, <1>10 DEF Getting, Room, Absent
<1>11. ASSUME NEW s \in Streams,
              Collect(s) \/ CollectRaises(s) \/ SettleCancel(s) \/ SettleStarted(s)
       PROVE  Len(workQueue') + permits'
               = Cardinality(Getting') + (IF runner'.pc = "spawn" THEN 1 ELSE 0)
  BY <1>11, <1>10, <1>b DEF Collect, CollectRaises, SettleCancel, SettleStarted, Runners
<1>12. CASE AllCollected \/ Timeout \/ Interrupt \/ Settled
  BY <1>12, <1>10, <1>b DEF AllCollected, Timeout, Interrupt, Settled, Runners
<1>13. CASE SettleDone \/ SettleOutstanding \/ SettleRaises
  BY <1>13, <1>10, <1>b DEF SettleDone, SettleOutstanding, SettleRaises, Runners
<1>14. CASE UNCHANGED vars
  BY <1>14, <1>10 DEF vars
<1> QED
  BY <1>1, <1>2, <1>3, <1>4, <1>5, <1>6, <1>7, <1>8, <1>9, <1>11, <1>12, <1>13, <1>14
  DEF Next, Execute, Thread

ItemsKept == TypeOK /\ Numbered /\ Placed /\ Balanced

\* Types, numbering, places and the balance hold throughout a phase.
LEMMA ItemsAlwaysKept == Spec => []ItemsKept
<1>1. Init => ItemsKept
  BY TypesHoldInitially, NumberedHoldsInitially, PlacedHoldsInitially, BalancedInitially
  DEF ItemsKept
<1>2. ItemsKept /\ [Next]_vars => ItemsKept'
  BY TypesAreKept, NumberedIsKept, PlacedIsKept, BalancedIsKept DEF ItemsKept
<1> QED BY <1>1, <1>2, PTL DEF Spec

\* A queued stream has a thread about to take it, for any number of streams and threads.
THEOREM QueuedStreamsHaveWorkers == Spec => []QueuedStreamHasWorker
<1>1. ItemsKept => QueuedStreamHasWorker
  <2> SUFFICES ASSUME ItemsKept, Refused = {}, Room,
                      runner.pc \in {"submit", "wait", "settle", "asked"}
               PROVE  Len(workQueue) <= Cardinality(Getting)
    BY DEF QueuedStreamHasWorker
  <2>1. Len(workQueue) \in Nat /\ permits \in Nat /\ Cardinality(Getting) \in Nat
    BY ThreadsAreCounted DEF ItemsKept, TypeOK, Getting
  <2>2. runner.pc # "spawn" /\ runner.pc \in Awaiting
    BY DEF Awaiting
  <2>3. Len(workQueue) + permits = Cardinality(Getting)
    BY <2>1, <2>2 DEF ItemsKept, Balanced
  <2> QED BY <2>1, <2>3
<1> QED BY <1>1, ItemsAlwaysKept, PTL

-----------------------------------------------------------------------------
(* What becomes of each stream: until a second failure ends a settlement    *)
(* early, a stream the runner knows of is at any moment in exactly one of   *)
(* five places (Fate).                                                      *)

\* Streams still to be collected or settled, the one in hand included.
Unsettled == pending \cup (IF runner.pc = "asked" THEN {runner.at} ELSE {})

Begun == {"pending", "running", "done", "dead"}

\* To be settled, recorded, cancelled before it ran, outstanding, or dead (its exception is
\* what execute raises): exactly one of these.
Fate(s) ==
    \/ /\ s \in Unsettled /\ future[s] \in Begun
       /\ s \notin completed /\ s \notin cancelled /\ s \notin outstanding
    \/ /\ s \in completed /\ future[s] = "done"
       /\ s \notin Unsettled /\ s \notin cancelled /\ s \notin outstanding
    \/ /\ s \in cancelled /\ future[s] \in {"cancelled", "notified"}
       /\ s \notin Unsettled /\ s \notin completed /\ s \notin outstanding
    \/ /\ s \in outstanding /\ future[s] \in {"running", "done", "dead"}
       /\ s \notin Unsettled /\ s \notin completed /\ s \notin cancelled
    \/ /\ future[s] = "dead"
       /\ s \notin Unsettled /\ s \notin completed /\ s \notin cancelled /\ s \notin outstanding

Unlisted(s) ==
    s \notin Unsettled /\ s \notin completed /\ s \notin cancelled /\ s \notin outstanding

\* No failure, or a single one, of which the stream that died is no longer to be settled.
OneRaise ==
    /\ runner.pc \in Submitting => runner.exc = "none"
    /\ raises = 0 => runner.exc = "none" /\ \A s \in Streams : future[s] # "dead"
    /\ raises < 2 => \A s, t \in Streams : future[s] = "dead" /\ future[t] = "dead" => s = t
    /\ raises < 2 /\ runner.exc # "none" => \A s \in Unsettled : future[s] # "dead"

\* Where the settlement stands in each of its steps.
InOrder ==
    /\ runner.pc = "asked" => runner.at \notin pending /\ future[runner.at] # "pending"
    /\ runner.pc = "spawn" => future[runner.at] \in Begun
    /\ runner.pc \in {"drain", "returned"} => pending = {}

\* Every stream execute knows of is in its place, the others are on no list.
Accounted ==
    SettlesAll =>
        /\ InOrder
        /\ \A s \in known : Fate(s)
        /\ \A s \in Streams \ known : Unlisted(s)

Reported ==
    runner.pc = "returned" => handles = outstanding /\ (cleanup = "complete" => outstanding = {})

-----------------------------------------------------------------------------
(* Failures.                                                                *)

\* Only three actions and a dying stream are failures, and what execute is about to raise
\* is never forgotten.
LEMMA FailuresStay ==
    ASSUME TypeOK, OneRaise, [Next]_vars, SettlesAll'
    PROVE  SettlesAll
<1> DEFINE Stays == /\ raises' = raises \/ raises' = raises + 1
                    /\ runner.exc = "base" => runner'.exc = "base"
<1> USE DEF pool, result
<1>a. runner \in Runners /\ raises \in Nat
  BY StreamsAssumption DEF TypeOK
<1>1. Stays
  <2>1. CASE Submit \/ UsePermit \/ AllStarted \/ StartWorker
    BY <2>1, <1>a DEF Submit, UsePermit, AllStarted, StartWorker, Submitted, Runners
  <2>2. CASE StartFails
    BY <2>2, <1>a DEF StartFails, OneRaise, Submitting
  <2>3. ASSUME NEW s \in Streams,
               Collect(s) \/ CollectRaises(s) \/ SettleCancel(s) \/ SettleStarted(s)
        PROVE  Stays
    BY <2>3, <1>a DEF Collect, CollectRaises, SettleCancel, SettleStarted, Runners
  <2>4. CASE AllCollected \/ Timeout \/ Interrupt \/ Settled
    BY <2>4, <1>a DEF AllCollected, Timeout, Interrupt, Settled, Runners
  <2>5. CASE SettleDone \/ SettleOutstanding \/ SettleRaises
    BY <2>5, <1>a DEF SettleDone, SettleOutstanding, SettleRaises, Runners
  <2>6. CASE Drain \/ Finish
    BY <2>6, <1>a DEF Drain, Finish, Runners
  <2>7. ASSUME NEW w \in Workers, Thread(w)
        PROVE  Stays
    BY <2>7, <1>a DEF Thread, Take, Begin, End, Die, Release
  <2>8. CASE UNCHANGED vars
    BY <2>8, <1>a DEF vars
  <2> QED BY <2>1, <2>2, <2>3, <2>4, <2>5, <2>6, <2>7, <2>8 DEF Next, Execute
<1>2. raises' < 2 => raises < 2
  BY <1>a, <1>1
<1> QED BY <1>1, <1>2 DEF SettlesAll

\* No failure has happened when execute begins.
LEMMA OneRaiseInitially == Init => OneRaise
BY DEF Init, OneRaise

\* A step that is no failure: no stream dies and none that died comes up again.
LEMMA OneRaiseWithoutFailure ==
    ASSUME TypeOK, OneRaise, raises' = raises, runner'.exc = runner.exc,
           runner'.pc \in Submitting => runner.pc \in Submitting,
           \A s \in Streams : future'[s] = "dead" => future[s] = "dead",
           runner.exc # "none" => \A s \in Unsettled' : s \in Unsettled
    PROVE  OneRaise'
<1>1. \A s \in Unsettled' : s \in Unsettled => s \in Streams
  BY DEF TypeOK, Unsettled, Runners
<1> QED BY <1>1 DEF OneRaise

\* At most one failure, or one that is no Exception, cuts a settlement short.
LEMMA OneRaiseIsKept == ItemsKept /\ OneRaise /\ Accounted /\ [Next]_vars => OneRaise'
<1> SUFFICES ASSUME ItemsKept, OneRaise, Accounted, [Next]_vars PROVE OneRaise'
  OBVIOUS
<1> USE DEF pool, result
<1>a. /\ TypeOK /\ Placed /\ runner \in Runners /\ raises \in Nat
      /\ future \in [Streams -> FutureStates]
  BY StreamsAssumption DEF ItemsKept, TypeOK
<1>b. \A s \in Unsettled : s \in Streams
  BY <1>a DEF TypeOK, Unsettled, Runners
<1>1. CASE Submit
  BY <1>1, <1>a, OneRaiseWithoutFailure DEF Submit, Unsettled, Submitting, Runners
<1>2. CASE UsePermit \/ AllStarted \/ StartWorker
  <2>1. Submitted /\ runner.pc = "spawn" /\ runner.exc = "none"
    BY <1>2 DEF UsePermit, AllStarted, StartWorker, OneRaise, Submitting
  <2>2. future' = future /\ raises' = raises /\ runner'.exc = "none"
    BY <1>a, <2>1 DEF Submitted, Runners
  <2> QED BY <1>a, <2>1, <2>2, OneRaiseWithoutFailure DEF Submitting
<1>3. CASE StartFails \/ Interrupt
  <2>1. raises' = raises + 1 /\ future' = future /\ runner'.pc = "settle"
    BY <1>3, <1>a DEF StartFails, Interrupt, Runners
  <2>2. \A s \in Unsettled' : s \in Streams
    BY <1>3, <1>a, <2>1 DEF StartFails, Interrupt, Unsettled, TypeOK
  <2> QED BY <1>a, <2>1, <2>2 DEF OneRaise, Submitting
<1>4. ASSUME NEW s \in Streams, Collect(s) PROVE OneRaise'
  BY <1>4, <1>a, OneRaiseWithoutFailure DEF Collect, Unsettled, Submitting
<1>5. ASSUME NEW s \in Streams, CollectRaises(s) PROVE OneRaise'
  <2>1. /\ raises' = raises /\ future' = future /\ runner'.pc = "settle"
        /\ future[s] = "dead" /\ pending' = pending \ {s} /\ runner'.exc = "base"
    BY <1>5, <1>a DEF CollectRaises, Runners
  <2>2. \A t \in Unsettled' : t \in Streams /\ t # s
    BY <1>a, <2>1 DEF Unsettled, TypeOK
  <2> QED BY <1>a, <2>1, <2>2 DEF OneRaise, Submitting
<1>6. ASSUME NEW s \in Streams, SettleCancel(s) PROVE OneRaise'
  BY <1>6, <1>a, OneRaiseWithoutFailure DEF SettleCancel, Unsettled, Submitting
<1>7. ASSUME NEW s \in Streams, SettleStarted(s) PROVE OneRaise'
  BY <1>7, <1>a, OneRaiseWithoutFailure
  DEF SettleStarted, First, Unsettled, Submitting, Runners
<1>8. CASE AllCollected \/ Timeout \/ Settled
  BY <1>8, <1>a, OneRaiseWithoutFailure
  DEF AllCollected, Timeout, Settled, Unsettled, Submitting, Runners
<1>9. CASE SettleDone \/ SettleOutstanding
  BY <1>9, <1>a, OneRaiseWithoutFailure
  DEF SettleDone, SettleOutstanding, Unsettled, Submitting, Runners
<1>10. CASE SettleRaises
  <2>1. /\ raises' = raises /\ future' = future /\ runner'.pc \in {"settle", "drain"}
        /\ runner.pc = "asked" /\ future[runner.at] = "dead" /\ pending' = pending
        /\ runner'.exc = "base"
    BY <1>10, <1>a DEF SettleRaises, Runners
  <2>2. runner.at \in Streams /\ \A t \in Unsettled' : t \in pending /\ t \in Streams
    BY <1>a, <2>1 DEF Unsettled, TypeOK, Runners
  <2>3. raises < 2 => runner.at \notin pending
    BY <2>1 DEF Accounted, SettlesAll, InOrder
  <2> QED BY <1>a, <2>1, <2>2, <2>3 DEF OneRaise, Submitting
<1>11. CASE Drain
  BY <1>11, <1>a, OneRaiseWithoutFailure DEF Drain, Unsettled, Submitting
<1>12. CASE Finish
  BY <1>12, <1>a, OneRaiseWithoutFailure DEF Finish, Unsettled, Submitting, Runners
<1>13. ASSUME NEW w \in Workers, Take(w) \/ Release(w) PROVE OneRaise'
  BY <1>13, <1>a, OneRaiseWithoutFailure DEF Take, Release, Unsettled
<1>14. ASSUME NEW w \in Workers, Begin(w) \/ End(w) PROVE OneRaise'
  BY <1>14, <1>a, OneRaiseWithoutFailure DEF Begin, End, Unsettled
<1>15. ASSUME NEW w \in Workers, Die(w) PROVE OneRaise'
  <2>1. /\ raises' = raises + 1 /\ runner' = runner /\ Unsettled' = Unsettled
        /\ \A s \in Streams : s # worker[w].item => future'[s] = future[s]
    BY <1>15, <1>a DEF Die, Unsettled
  <2> QED BY <1>a, <1>b, <2>1 DEF OneRaise
<1>16. CASE UNCHANGED vars
  BY <1>16, <1>a, OneRaiseWithoutFailure DEF vars, Unsettled
<1> QED
  BY <1>1, <1>2, <1>3, <1>4, <1>5, <1>6, <1>7, <1>8, <1>9, <1>10, <1>11, <1>12, <1>13,
     <1>14, <1>15, <1>16
  DEF Next, Execute, Thread

-----------------------------------------------------------------------------
(* The places of a stream.                                                  *)

\* Every stream is still to submit when execute begins.
LEMMA AccountedInitially == Init => Accounted
BY DEF Init, Accounted, InOrder, Unlisted, Unsettled, Submitting

\* A future goes on in its thread: it starts to run, ends, or notes its cancellation.
GoesOn(s) ==
    \/ future'[s] = future[s]
    \/ future[s] = "pending" /\ future'[s] = "running"
    \/ future[s] = "running" /\ future'[s] \in {"done", "dead"}
    \/ future[s] = "cancelled" /\ future'[s] = "notified"

\* A stream whose lists do not change stays in its place while its future goes on.
LEMMA FateGoesOn ==
    ASSUME NEW s, Fate(s), GoesOn(s), s \in Unsettled' <=> s \in Unsettled,
           s \in completed' <=> s \in completed, s \in cancelled' <=> s \in cancelled,
           s \in outstanding' <=> s \in outstanding
    PROVE  Fate(s)'
BY DEF Fate, GoesOn, Begun

\* So do all streams when a step changes no list.
LEMMA AccountedGoesOn ==
    ASSUME Accounted, SettlesAll' => SettlesAll, SettlesAll' => InOrder',
           known' = known, Unsettled' = Unsettled,
           UNCHANGED <<completed, cancelled, outstanding>>,
           SettlesAll' => \A s \in known : GoesOn(s)
    PROVE  Accounted'
BY FateGoesOn DEF Accounted, Unlisted

\* Every stream execute knows of is in exactly one place, after every step.
LEMMA AccountedIsKept == ItemsKept /\ OneRaise /\ Accounted /\ [Next]_vars => Accounted'
<1> SUFFICES ASSUME ItemsKept, OneRaise, Accounted, [Next]_vars PROVE Accounted'
  OBVIOUS
<1> USE DEF pool, result
<1>a. /\ TypeOK /\ Placed /\ Numbered /\ runner \in Runners
      /\ future \in [Streams -> FutureStates]
      /\ known \subseteq Streams
  BY DEF ItemsKept, TypeOK
<1>b. SettlesAll' => SettlesAll
  BY <1>a, FailuresStay
<1>c. runner.at \in Streams
  BY <1>a DEF Runners
<1>d. SettlesAll => InOrder /\ (\A s \in known : Fate(s))
  BY DEF Accounted
<1>1. CASE Submit
  <2>1. runner.at \in Streams /\ runner.at \notin known
    BY <1>1, <1>a DEF Submit, Numbered, Submitting, Runners, Streams
  <2>2. \A s \in Streams : s # runner.at => GoesOn(s)
    BY <1>1, <1>a DEF Submit, GoesOn
  <2>3. Unsettled' = Unsettled /\ InOrder'
    BY <1>1, <1>a, <2>1 DEF Submit, Unsettled, InOrder, Begun, Runners
  <2>4. known' = known /\ UNCHANGED <<completed, cancelled, outstanding>>
    BY <1>1 DEF Submit
  <2> QED BY <1>a, <1>b, <2>1, <2>2, <2>3, <2>4, AccountedGoesOn
<1>2. ASSUME NEW s \in Streams, s = runner.at, UsePermit \/ AllStarted \/ StartWorker
      PROVE  Accounted'
  <2>1. Submitted /\ runner.pc = "spawn"
    BY <1>2 DEF UsePermit, AllStarted, StartWorker
  <2>2. s \notin known
    BY <1>a, <1>2, <2>1 DEF Numbered, Submitting, Streams
  <2>3. /\ known' = known \cup {s} /\ future' = future
        /\ Unsettled' = Unsettled \cup {s}
        /\ UNCHANGED <<completed, cancelled, outstanding>>
        /\ runner'.pc \in {"submit", "wait"}
    BY <1>a, <1>2, <2>1 DEF Submitted, Unsettled, Runners
  <2>4. InOrder'
    BY <2>3 DEF InOrder
  <2>5. SettlesAll => Fate(s)'
    BY <1>d, <1>2, <2>1, <2>2, <2>3 DEF Accounted, InOrder, Fate, Unlisted
  <2>6. ASSUME SettlesAll, NEW t \in known PROVE Fate(t)'
    <3>1. t # s /\ Fate(t) /\ GoesOn(t)
      BY <1>d, <2>2, <2>3, <2>6 DEF GoesOn
    <3> QED BY <2>3, <3>1, FateGoesOn
  <2>7. ASSUME SettlesAll, NEW t \in Streams \ known' PROVE Unlisted(t)'
    BY <2>3, <2>7 DEF Accounted, Unlisted
  <2> QED BY <1>b, <2>3, <2>4, <2>5, <2>6, <2>7 DEF Accounted
<1>3. CASE StartFails \/ Timeout \/ Interrupt
  <2>1. /\ known' = known /\ Unsettled' = Unsettled /\ future' = future
        /\ UNCHANGED <<completed, cancelled, outstanding>> /\ runner'.pc = "settle"
    BY <1>3, <1>a DEF StartFails, Timeout, Interrupt, Unsettled, Runners
  <2>2. InOrder'
    BY <2>1 DEF InOrder
  <2> QED BY <1>b, <2>1, <2>2, AccountedGoesOn DEF GoesOn
<1>4. CASE AllCollected \/ Settled
  <2>1. /\ known' = known /\ Unsettled' = Unsettled /\ future' = future
        /\ UNCHANGED <<completed, cancelled, outstanding>> /\ runner'.pc = "drain"
        /\ pending' = {}
    BY <1>4, <1>a DEF AllCollected, Settled, Unsettled, Runners
  <2>2. InOrder'
    BY <2>1 DEF InOrder
  <2> QED BY <1>b, <2>1, <2>2, AccountedGoesOn DEF GoesOn
<1>5. ASSUME NEW s \in Streams, Collect(s) PROVE Accounted'
  <2>1. /\ runner' = runner /\ runner.pc = "wait" /\ known' = known /\ future' = future
        /\ s \in Unsettled /\ future[s] = "done"
        /\ Unsettled' = Unsettled \ {s} /\ completed' = completed \cup {s}
        /\ UNCHANGED <<cancelled, outstanding>>
    BY <1>5, <1>a DEF Collect, Unsettled
  <2>2. InOrder'
    BY <2>1 DEF InOrder
  <2>3. SettlesAll => s \in known
    BY <2>1 DEF Accounted, Unlisted
  <2>4. SettlesAll => Fate(s)'
    BY <1>d, <2>1, <2>3 DEF Fate
  <2>5. ASSUME SettlesAll, NEW t \in known, t # s PROVE Fate(t)'
    BY <1>d, <2>1, <2>5, FateGoesOn DEF GoesOn
  <2>6. ASSUME SettlesAll, NEW t \in Streams \ known PROVE Unlisted(t)'
    BY <2>1, <2>3, <2>6 DEF Accounted, Unlisted
  <2> QED BY <1>b, <2>1, <2>2, <2>4, <2>5, <2>6 DEF Accounted
<1>6. ASSUME NEW s \in Streams, CollectRaises(s) PROVE Accounted'
  <2>1. /\ runner'.pc = "settle" /\ known' = known /\ future' = future
        /\ s \in Unsettled /\ future[s] = "dead"
        /\ Unsettled' = Unsettled \ {s}
        /\ UNCHANGED <<completed, cancelled, outstanding>>
    BY <1>6, <1>a DEF CollectRaises, Unsettled, Runners
  <2>2. InOrder'
    BY <2>1 DEF InOrder
  <2>3. SettlesAll => s \in known
    BY <2>1 DEF Accounted, Unlisted
  <2>4. SettlesAll => Fate(s)'
    BY <1>d, <2>1, <2>3 DEF Fate
  <2>5. ASSUME SettlesAll, NEW t \in known, t # s PROVE Fate(t)'
    BY <1>d, <2>1, <2>5, FateGoesOn DEF GoesOn
  <2>6. ASSUME SettlesAll, NEW t \in Streams \ known PROVE Unlisted(t)'
    BY <2>1, <2>3, <2>6 DEF Accounted, Unlisted
  <2> QED BY <1>b, <2>1, <2>2, <2>4, <2>5, <2>6 DEF Accounted
<1>7. ASSUME NEW s \in Streams, SettleCancel(s) PROVE Accounted'
  <2>1. /\ runner' = runner /\ runner.pc = "settle" /\ known' = known
        /\ s \in Unsettled /\ future'[s] = "cancelled"
        /\ Unsettled' = Unsettled \ {s} /\ cancelled' = cancelled \cup {s}
        /\ UNCHANGED <<completed, outstanding>>
        /\ \A t \in Streams : t # s => future'[t] = future[t]
    BY <1>7, <1>a DEF SettleCancel, First, Unsettled
  <2>2. InOrder'
    BY <2>1 DEF InOrder
  <2>3. SettlesAll => s \in known
    BY <2>1 DEF Accounted, Unlisted
  <2>4. SettlesAll => Fate(s)'
    BY <1>d, <2>1, <2>3 DEF Fate
  <2>5. ASSUME SettlesAll, NEW t \in known, t # s PROVE Fate(t)'
    BY <1>a, <1>d, <2>1, <2>5, FateGoesOn DEF GoesOn
  <2>6. ASSUME SettlesAll, NEW t \in Streams \ known PROVE Unlisted(t)'
    BY <2>1, <2>3, <2>6 DEF Accounted, Unlisted
  <2> QED BY <1>b, <2>1, <2>2, <2>4, <2>5, <2>6 DEF Accounted
<1>8. ASSUME NEW s \in Streams, SettleStarted(s) PROVE Accounted'
  <2>1. /\ runner'.pc = "asked" /\ runner'.at = s /\ known' = known /\ future' = future
        /\ Unsettled' = Unsettled /\ s \notin pending' /\ future[s] # "pending"
        /\ UNCHANGED <<completed, cancelled, outstanding>>
    BY <1>8, <1>a DEF SettleStarted, First, Unsettled, Runners
  <2>2. InOrder'
    BY <2>1 DEF InOrder
  <2> QED BY <1>b, <2>1, <2>2, AccountedGoesOn DEF GoesOn
<1>9. ASSUME NEW s \in Streams, s = runner.at, SettleDone PROVE Accounted'
  <2>1. /\ runner'.pc = "settle" /\ known' = known /\ future' = future
        /\ s \in Unsettled /\ future[s] = "done" /\ s \in Streams
        /\ runner.pc = "asked" /\ pending' = pending
        /\ Unsettled' = pending /\ completed' = completed \cup {s}
        /\ UNCHANGED <<cancelled, outstanding>>
    BY <1>9, <1>a DEF SettleDone, Unsettled, Runners
  <2>2. InOrder' /\ (SettlesAll => Unsettled' = Unsettled \ {s})
    BY <1>d, <1>9, <2>1 DEF InOrder, Unsettled
  <2>3. SettlesAll => s \in known
    BY <2>1 DEF Accounted, Unlisted
  <2>4. SettlesAll => Fate(s)'
    BY <1>d, <2>1, <2>2, <2>3 DEF Fate
  <2>5. ASSUME SettlesAll, NEW t \in known, t # s PROVE Fate(t)'
    BY <1>d, <2>1, <2>2, <2>5, FateGoesOn DEF GoesOn
  <2>6. ASSUME SettlesAll, NEW t \in Streams \ known PROVE Unlisted(t)'
    BY <2>1, <2>2, <2>3, <2>6 DEF Accounted, Unlisted
  <2> QED BY <1>b, <2>1, <2>2, <2>4, <2>5, <2>6 DEF Accounted
<1>10. ASSUME NEW s \in Streams, s = runner.at, SettleOutstanding PROVE Accounted'
  <2>1. /\ runner'.pc = "settle" /\ known' = known /\ future' = future
        /\ s \in Unsettled /\ future[s] = "running" /\ s \in Streams
        /\ runner.pc = "asked" /\ pending' = pending
        /\ Unsettled' = pending /\ outstanding' = outstanding \cup {s}
        /\ UNCHANGED <<cancelled, completed>>
    BY <1>10, <1>a DEF SettleOutstanding, Unsettled, Runners
  <2>2. InOrder' /\ (SettlesAll => Unsettled' = Unsettled \ {s})
    BY <1>d, <1>10, <2>1 DEF InOrder, Unsettled
  <2>3. SettlesAll => s \in known
    BY <2>1 DEF Accounted, Unlisted
  <2>4. SettlesAll => Fate(s)'
    BY <1>d, <2>1, <2>2, <2>3 DEF Fate
  <2>5. ASSUME SettlesAll, NEW t \in known, t # s PROVE Fate(t)'
    BY <1>d, <2>1, <2>2, <2>5, FateGoesOn DEF GoesOn
  <2>6. ASSUME SettlesAll, NEW t \in Streams \ known PROVE Unlisted(t)'
    BY <2>1, <2>2, <2>3, <2>6 DEF Accounted, Unlisted
  <2> QED BY <1>b, <2>1, <2>2, <2>4, <2>5, <2>6 DEF Accounted
<1>11. ASSUME NEW s \in Streams, s = runner.at, SettleRaises PROVE Accounted'
  <2>1. /\ known' = known /\ future' = future /\ raises' = raises /\ runner'.exc = "base"
        /\ s \in Unsettled /\ future[s] = "dead" /\ s \in Streams
        /\ runner.pc = "asked" /\ pending' = pending
        /\ runner'.pc = IF runner.exc = "none" THEN "settle" ELSE "drain"
        /\ Unsettled' = pending
        /\ UNCHANGED <<cancelled, completed, outstanding>>
    BY <1>11, <1>a DEF SettleRaises, Unsettled, Runners
  <2>2. SettlesAll' => runner'.pc = "settle"
    BY <2>1 DEF SettlesAll, OneRaise
  <2>3. SettlesAll => Unsettled' = Unsettled \ {s}
    BY <1>d, <1>11, <2>1 DEF InOrder, Unsettled
  <2>4. SettlesAll' => InOrder'
    BY <2>2 DEF InOrder
  <2>5. SettlesAll => s \in known
    BY <2>1 DEF Accounted, Unlisted
  <2>6. SettlesAll => Fate(s)'
    BY <1>d, <2>1, <2>3, <2>5 DEF Fate
  <2>7. ASSUME SettlesAll, NEW t \in known, t # s PROVE Fate(t)'
    BY <1>d, <2>1, <2>3, <2>7, FateGoesOn DEF GoesOn
  <2>8. ASSUME SettlesAll, NEW t \in Streams \ known PROVE Unlisted(t)'
    BY <2>1, <2>3, <2>5, <2>8 DEF Accounted, Unlisted
  <2> QED BY <1>b, <2>1, <2>4, <2>6, <2>7, <2>8 DEF Accounted
<1>12. CASE Drain
  <2>1. /\ runner.pc = "drain" /\ runner' = runner /\ known' = known /\ pending' = pending
        /\ UNCHANGED <<completed, cancelled, outstanding>>
    BY <1>12 DEF Drain
  <2>2. Unsettled' = Unsettled /\ (SettlesAll => Unsettled = {})
    BY <1>d, <2>1 DEF Unsettled, InOrder
  <2>3. ASSUME SettlesAll, NEW s \in known PROVE GoesOn(s)
    <3>1. future[s] # "pending"
      BY <1>d, <2>2, <2>3 DEF Fate
    <3> QED BY <1>12, <1>a, <3>1 DEF Drain, GoesOn
  <2>4. SettlesAll => InOrder'
    BY <1>d, <2>1 DEF InOrder, Submitting
  <2> QED BY <1>b, <2>1, <2>2, <2>3, <2>4, AccountedGoesOn
<1>13. CASE Finish
  <2>1. /\ runner.pc = "drain" /\ runner'.pc = "returned" /\ known' = known
        /\ pending' = pending /\ future' = future
        /\ UNCHANGED <<completed, cancelled, outstanding>>
    BY <1>13, <1>a DEF Finish, Runners
  <2>2. Unsettled' = Unsettled /\ (SettlesAll => InOrder')
    BY <1>d, <2>1 DEF Unsettled, InOrder
  <2> QED BY <1>b, <2>1, <2>2, AccountedGoesOn DEF GoesOn
<1>14. ASSUME NEW w \in Workers, Thread(w) PROVE Accounted'
  <2>1. /\ runner' = runner /\ known' = known /\ pending' = pending
        /\ UNCHANGED <<completed, cancelled, outstanding>>
    BY <1>14 DEF Thread, Take, Begin, End, Die, Release
  <2>2. \A s \in Streams : GoesOn(s)
    BY <1>14, <1>a
    DEF Thread, Take, Begin, End, Die, Release, GoesOn, Placed, TakenGo, InHand, Item, Waiting
  <2>3. runner.at \in Streams
    BY <1>a DEF Runners
  <2>4. InOrder => InOrder'
    BY <2>1, <2>2, <2>3 DEF InOrder, GoesOn, Begun, Submitting
  <2>5. Unsettled' = Unsettled
    BY <2>1 DEF Unsettled
  <2> QED BY <1>a, <1>b, <1>d, <2>1, <2>2, <2>4, <2>5, AccountedGoesOn
<1>15. CASE UNCHANGED vars
  BY <1>15 DEF vars, Accounted, SettlesAll, InOrder, Fate, Unlisted, Unsettled, Submitting
<1> QED
  BY <1>c, <1>1, <1>2, <1>3, <1>4, <1>5, <1>6, <1>7, <1>8, <1>9, <1>10, <1>11, <1>12,
     <1>13, <1>14, <1>15
  DEF Next, Execute

-----------------------------------------------------------------------------
(* Results.                                                                 *)

\* Cleanup is reported complete only while nothing is outstanding, after every step.
LEMMA ReportedIsKept == TypeOK /\ Reported /\ [Next]_vars => Reported'
<1> SUFFICES ASSUME TypeOK, Reported, [Next]_vars PROVE Reported'
  OBVIOUS
<1> USE DEF pool, result, Reported
<1>a. runner \in Runners
  BY DEF TypeOK
<1>1. CASE Submit \/ UsePermit \/ AllStarted \/ StartWorker \/ StartFails
  BY <1>1, <1>a
  DEF Submit, UsePermit, AllStarted, StartWorker, StartFails, Submitted, Runners
<1>2. ASSUME NEW s \in Streams,
             Collect(s) \/ CollectRaises(s) \/ SettleCancel(s) \/ SettleStarted(s)
      PROVE  Reported'
  BY <1>2, <1>a DEF Collect, CollectRaises, SettleCancel, SettleStarted, Runners
<1>3. CASE AllCollected \/ Timeout \/ Interrupt \/ Settled
  BY <1>3, <1>a DEF AllCollected, Timeout, Interrupt, Settled, Runners
<1>4. CASE SettleDone \/ SettleOutstanding \/ SettleRaises
  BY <1>4, <1>a DEF SettleDone, SettleOutstanding, SettleRaises, Runners
<1>5. CASE Drain \/ Finish
  BY <1>5 DEF Drain, Finish
<1>6. ASSUME NEW w \in Workers, Thread(w) PROVE Reported'
  BY <1>6 DEF Thread, Take, Begin, End, Die, Release
<1>7. CASE UNCHANGED vars
  BY <1>7 DEF vars
<1> QED BY <1>1, <1>2, <1>3, <1>4, <1>5, <1>6, <1>7 DEF Next, Execute

PhaseKept == ItemsKept /\ OneRaise /\ Accounted /\ Reported

\* The places of the streams and the report hold throughout a phase.
LEMMA PhaseAlwaysKept == Spec => []PhaseKept
<1>1. Init => OneRaise /\ Accounted /\ Reported
  BY OneRaiseInitially, AccountedInitially DEF Init, Reported
<1>2. ItemsKept /\ OneRaise /\ Accounted /\ Reported /\ [Next]_vars
        => OneRaise' /\ Accounted' /\ Reported'
  BY OneRaiseIsKept, AccountedIsKept, ReportedIsKept DEF ItemsKept
<1> QED BY <1>1, <1>2, ItemsAlwaysKept, PTL DEF Spec, PhaseKept

\* When execute returns, every stream it knows of is settled and all that runs has a handle.
THEOREM StreamsAreSettled == Spec => []Settlement
<1>1. PhaseKept => Settlement
  <2> SUFFICES ASSUME PhaseKept, runner.pc = "returned", SettlesAll PROVE Settlement
    BY DEF Settlement
  <2>1. Unsettled = {} /\ handles = outstanding /\ (\A s \in known : Fate(s))
    BY DEF PhaseKept, Accounted, Reported, InOrder, Unsettled
  <2>2. ASSUME NEW s \in known
        PROVE  /\ future[s] \in {"cancelled", "notified"} <=> s \in cancelled
               /\ future[s] = "running" => s \in outstanding /\ s \in handles
               /\ future[s] # "pending"
               /\ s \in completed => future[s] = "done" /\ s \notin outstanding
    BY <2>1 DEF Fate
  <2>3. Live \subseteq handles \cup Refused
    BY <2>2 DEF Live, Refused
  <2> QED BY <2>2, <2>3 DEF Settlement
<1> QED BY <1>1, PhaseAlwaysKept, PTL
=============================================================================
