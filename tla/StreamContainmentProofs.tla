---------------------- MODULE StreamContainmentProofs ----------------------
(***************************************************************************)
(* Proof that what follows a throughput phase waits for its streams, for   *)
(* any number of streams, threads and failures, although the callers of    *)
(* await_quiescence rewrite the result under each other's eyes: whatever   *)
(* they hold or write still names every stream that runs (Quiet).          *)
(***************************************************************************)
EXTENDS StreamContainment, ThroughputStreamsProofs

\* Streams that run and that the runner knows of.
Shown == Live \cap known

AwaitPCs == {"off", "read", "wait", "ids", "list", "handles", "yes", "no"}
Awaits == [pc : AwaitPCs, left : SUBSET Streams, ids : SUBSET Streams]

NotBegun == run \in {"execute", "aborted"}

\* The result, and what each caller of await_quiescence holds or has concluded, names every
\* stream that runs, whatever the others write meanwhile.
Quiet ==
    /\ runner.exc # "base"
    /\ \A s \in known : future[s] # "pending"
    /\ Shown \subseteq outstanding \cap handles
    /\ cleanup = "complete" => Shown = {}
    /\ \A c \in Callers :
        /\ await[c].pc \in {"wait", "ids", "list", "handles"} => Shown \subseteq await[c].left
        /\ await[c].pc \in {"list", "handles"} => Shown \subseteq await[c].ids
        /\ await[c].pc = "yes" => Shown = {}

\* The run went past a wait, closed the connection or attested.
LetGo ==
    \/ run \in {"maintenance", "measure"} \/ attested
    \/ conn = "closed" /\ run # "aborted"
    \/ run \in {"readback", "close"} /\ ~contained

Contains ==
    /\ await \in [Callers -> Awaits]
    /\ run # "execute" => runner.pc = "returned"
    /\ NotBegun => ~attested /\ \A c \in Callers : await[c].pc = "off"
    /\ run = "execute" => PhaseKept /\ conn = "open"
    /\ ~NotBegun => Quiet
    /\ LetGo => Shown = {}

ContainmentKept == ItemsKept /\ Contains

-----------------------------------------------------------------------------
\* The invariant holds when the run begins.
LEMMA ContainmentInitially == CInit => ContainmentKept
<1> SUFFICES ASSUME CInit PROVE ContainmentKept
  OBVIOUS
<1>1. ItemsKept /\ PhaseKept
  BY TypesHoldInitially, NumberedHoldsInitially, PlacedHoldsInitially, BalancedInitially,
     OneRaiseInitially, AccountedInitially
  DEF CInit, Init, ItemsKept, PhaseKept, Reported
<1>2. await \in [Callers -> Awaits]
  BY DEF CInit, Asleep, Awaits, AwaitPCs
<1> QED BY <1>1, <1>2
  DEF CInit, ContainmentKept, Contains, NotBegun, LetGo, Asleep

\* The result is not read by what the runner and the threads do.
LEMMA ItemsKeptWithoutPhase ==
    ASSUME ItemsKept, UNCHANGED <<runner, pending, known, pool, raises>>, TypeOK'
    PROVE  ItemsKept'
<1>1. UNCHANGED <<maxWorkers, future, workQueue, permits, worker>>
  BY DEF pool
<1>2. Numbered'
  BY <1>1 DEF ItemsKept, Numbered, Created, Submitting
<1>3. Placed'
  BY <1>1
  DEF ItemsKept, Placed, QueuedOnce, QueuedWait, TakenGo, TakenOnce, InHand, Item
<1>4. Balanced'
  BY <1>1 DEF ItemsKept, Balanced, Refused, Room, Absent, Getting
<1> QED BY <1>2, <1>3, <1>4 DEF ItemsKept

-----------------------------------------------------------------------------
(* Steps of the phase.                                                      *)

\* After execute returned only the threads go on, and no known stream begins.
LEMMA OnlyThreadsGoOn ==
    ASSUME ItemsKept, [Next]_vars, runner.pc = "returned"
    PROVE  /\ UNCHANGED <<runner, known, result>>
           /\ \A s \in Streams : GoesOn(s)
<1>a. TypeOK /\ Placed /\ future \in [Streams -> FutureStates]
  BY DEF ItemsKept, TypeOK
<1>1. ASSUME NEW w \in Workers, Thread(w)
      PROVE  UNCHANGED <<runner, known, result>> /\ \A s \in Streams : GoesOn(s)
  <2>1. UNCHANGED <<runner, known, result>>
    BY <1>1 DEF Thread, Take, Begin, End, Die, Release
  <2>2. \A s \in Streams : GoesOn(s)
    BY <1>1, <1>a
    DEF Thread, Take, Begin, End, Die, Release, GoesOn, Placed, TakenGo, InHand, Item, Waiting
  <2> QED BY <2>1, <2>2
<1>2. CASE UNCHANGED vars
  BY <1>2 DEF vars, pool, GoesOn
<1>3. ~Execute
  BY DEF Execute, Submit, UsePermit, AllStarted, StartWorker, StartFails, Collect,
         CollectRaises, SettleCancel, SettleStarted, AllCollected, Timeout, Interrupt,
         SettleDone, SettleOutstanding, SettleRaises, Settled, Drain, Finish
<1> QED BY <1>1, <1>2, <1>3 DEF Next

\* The runner and the threads of the phase keep what containment relies on.
LEMMA PhaseKeepsContainment ==
    ASSUME ItemsKept, Contains, [Next]_vars, UNCHANGED client
    PROVE  Contains'
<1> USE DEF client
<1>a. known \subseteq Streams /\ UNCHANGED <<run, contained, conn, attested, await>>
  BY DEF ItemsKept, TypeOK
<1>1. CASE run = "execute"
  <2>1. PhaseKept'
    <3>1. PhaseKept /\ ItemsKept /\ TypeOK
      BY <1>1 DEF Contains, ItemsKept
    <3>2. ItemsKept'
      BY <3>1, TypesAreKept, NumberedIsKept, PlacedIsKept, BalancedIsKept DEF ItemsKept
    <3> QED BY <3>1, <3>2, OneRaiseIsKept, AccountedIsKept, ReportedIsKept DEF PhaseKept
  <2> QED BY <1>1, <1>a, <2>1 DEF Contains, NotBegun, LetGo
<1>2. CASE run # "execute"
  <2>1. UNCHANGED <<runner, known, result>> /\ \A s \in Streams : GoesOn(s)
    BY <1>2, OnlyThreadsGoOn DEF Contains
  <2>2. UNCHANGED <<outstanding, handles, cleanup>>
    BY <2>1 DEF result
  <2>3. Quiet => Shown' \subseteq Shown /\ \A s \in known' : future'[s] # "pending"
    BY <1>a, <2>1 DEF Shown, Live, Quiet, GoesOn
  <2>4. Quiet => Quiet'
    BY <1>a, <2>1, <2>2, <2>3 DEF Quiet
  <2>5. NotBegun \/ Quiet
    BY DEF Contains
  <2>6. LetGo' => ~NotBegun \/ attested
    BY <1>a, <1>2 DEF LetGo, NotBegun
  <2>7. LetGo' => Shown' = {}
    BY <1>a, <2>3, <2>5, <2>6 DEF Contains, LetGo
  <2> QED BY <1>2, <1>a, <2>1, <2>4, <2>7 DEF Contains, NotBegun
<1> QED BY <1>1, <1>2

-----------------------------------------------------------------------------
(* Steps of await_quiescence.                                               *)

\* No step of await_quiescence hides a running stream, whoever else is asking.
LEMMA AwaitKeepsContainment ==
    ASSUME ItemsKept, Contains, NEW c \in Callers, Await(c)
    PROVE  ItemsKept' /\ Contains'
<1>a. UNCHANGED <<runner, pending, known, pool, completed, cancelled, raises>>
      /\ UNCHANGED <<run, contained, conn, attested>>
  BY DEF Await, AwaitRead, AwaitWait, AwaitIds, AwaitList, AwaitHandles, vars, result
<1>b. await \in [Callers -> Awaits] /\ await[c].pc # "off"
  BY DEF Contains, Await, AwaitRead, AwaitWait, AwaitIds, AwaitList, AwaitHandles
<1>c. ~NotBegun /\ Quiet
  BY <1>b DEF Contains
<1>d. /\ outstanding \subseteq Streams /\ handles \subseteq Streams
      /\ cleanup \in {"complete", "outstanding", "quiesced"}
  BY DEF ItemsKept, TypeOK
<1>e. UNCHANGED future /\ Shown' = Shown /\ (LetGo' <=> LetGo) /\ (NotBegun' <=> NotBegun)
  BY <1>a DEF pool, Shown, Live, LetGo, NotBegun
<1>f. \A b \in Callers : b # c => await'[b] = await[b]
  BY <1>b DEF Await, AwaitRead, AwaitWait, AwaitIds, AwaitList, AwaitHandles
<1> DEFINE Right == /\ await'[c].pc \in {"wait", "ids", "list", "handles"}
                          => Shown \subseteq await'[c].left
                    /\ await'[c].pc \in {"list", "handles"} => Shown \subseteq await'[c].ids
                    /\ await'[c].pc = "yes" => Shown = {}
           Kept == /\ await' \in [Callers -> Awaits] /\ Right
                   /\ outstanding' \subseteq Streams /\ handles' \subseteq Streams
                   /\ cleanup' \in {"complete", "outstanding", "quiesced"}
                   /\ Shown \subseteq outstanding' \cap handles'
                   /\ cleanup' = "complete" => cleanup = "complete"
<1>1. Kept
  <2>1. CASE AwaitRead(c)
    <3> DEFINE next == IF handles # {} THEN "wait"
                       ELSE IF outstanding = {} THEN "yes" ELSE "no"
    <3>0. next \in AwaitPCs
      BY DEF AwaitPCs
    <3>a. await' = [await EXCEPT ![c].left = handles, ![c].pc = next]
      BY <2>1 DEF AwaitRead
    <3> HIDE DEF next
    <3>1. await' \in [Callers -> Awaits]
      BY <1>b, <1>d, <3>0, <3>a DEF Awaits
    <3>2. Right
      BY <1>b, <1>c, <2>1 DEF AwaitRead, Quiet, Awaits
    <3> QED BY <1>c, <1>d, <2>1, <3>1, <3>2 DEF AwaitRead, vars, result, Quiet
  <2>2. CASE AwaitWait(c)
    <3>1. await' \in [Callers -> Awaits]
      BY <1>b, <2>2 DEF AwaitWait, Awaits, AwaitPCs
    <3>2. Right
      BY <1>b, <1>c, <2>2 DEF AwaitWait, Quiet, Awaits, Shown
    <3> QED BY <1>c, <1>d, <2>2, <3>1, <3>2 DEF AwaitWait, vars, result, Quiet
  <2>3. CASE AwaitIds(c)
    <3>1. await' \in [Callers -> Awaits]
      BY <1>b, <1>d, <2>3 DEF AwaitIds, Awaits, AwaitPCs
    <3>2. Right
      BY <1>b, <1>c, <2>3 DEF AwaitIds, Quiet, Awaits
    <3> QED BY <1>c, <1>d, <2>3, <3>1, <3>2 DEF AwaitIds, vars, result, Quiet
  <2>4. CASE AwaitList(c)
    <3>1. await' \in [Callers -> Awaits]
      BY <1>b, <2>4 DEF AwaitList, Awaits, AwaitPCs
    <3>2. Right
      BY <1>b, <1>c, <2>4 DEF AwaitList, Quiet, Awaits
    <3> QED BY <1>b, <1>c, <1>d, <2>4, <3>1, <3>2 DEF AwaitList, Quiet, Awaits
  <2>5. CASE AwaitHandles(c)
    <3>1. await' \in [Callers -> Awaits]
      BY <1>b, <2>5 DEF AwaitHandles, Awaits, AwaitPCs
    <3>2. Right
      BY <1>b, <1>c, <2>5 DEF AwaitHandles, Quiet, Awaits
    <3> QED BY <1>b, <1>c, <1>d, <2>5, <3>1, <3>2 DEF AwaitHandles, Quiet, Awaits
  <2> QED BY <2>1, <2>2, <2>3, <2>4, <2>5 DEF Await
<1>2. TypeOK'
  BY <1>a, <1>1 DEF ItemsKept, TypeOK, pool
<1>3. ItemsKept'
  BY <1>a, <1>2, ItemsKeptWithoutPhase
<1>4. Quiet'
  BY <1>a, <1>c, <1>e, <1>f, <1>1 DEF Quiet
<1>5. Contains'
  BY <1>a, <1>c, <1>e, <1>1, <1>4 DEF Contains, NotBegun
<1> QED BY <1>3, <1>5

-----------------------------------------------------------------------------
(* Steps of the thread of the run and of the two threads that ask again.    *)

\* Beginning or ending to ask leaves all that is asked for in place.
LEMMA CallersTyped ==
    ASSUME await \in [Callers -> Awaits], NEW c \in Callers
    PROVE  /\ [await EXCEPT ![c] = Asking] \in [Callers -> Awaits]
           /\ [await EXCEPT ![c] = Asleep] \in [Callers -> Awaits]
BY DEF Awaits, AwaitPCs, Asking, Asleep

\* The result is quiet when execute returned without failing.
LEMMA ReturnedQuiet ==
    ASSUME ItemsKept, PhaseKept, runner.pc = "returned", runner.exc # "base",
           await \in [Callers -> Awaits], \A c \in Callers : await[c].pc = "off"
    PROVE  Quiet
<1>1. SettlesAll
  BY DEF SettlesAll
<1>2. Unsettled = {} /\ handles = outstanding /\ (\A s \in known : Fate(s))
  BY <1>1 DEF PhaseKept, Accounted, Reported, InOrder, Unsettled
<1>3. \A s \in known : future[s] # "pending" /\ (future[s] = "running" => s \in outstanding)
  BY <1>2 DEF Fate
<1>4. Shown \subseteq outstanding
  BY <1>3 DEF Shown, Live
<1>5. cleanup = "complete" => Shown = {}
  BY <1>4 DEF PhaseKept, Reported
<1> QED BY <1>2, <1>3, <1>4, <1>5 DEF Quiet

\* A step that only sets callers asking or to sleep.
LEMMA QuietWithoutAwait ==
    ASSUME Quiet, UNCHANGED vars,
           \A c \in Callers : await'[c] = await[c] \/ await'[c].pc \in {"off", "read"}
    PROVE  Quiet'
<1>1. UNCHANGED <<runner, known, future, outstanding, handles, cleanup>>
  BY DEF vars, pool, result
<1>2. Shown' = Shown
  BY <1>1 DEF Shown, Live
<1>3. \A c \in Callers :
        /\ await'[c].pc \in {"wait", "ids", "list", "handles"} => Shown \subseteq await'[c].left
        /\ await'[c].pc \in {"list", "handles"} => Shown \subseteq await'[c].ids
        /\ await'[c].pc = "yes" => Shown = {}
  BY DEF Quiet
<1> QED BY <1>1, <1>2, <1>3 DEF Quiet

\* The steps of the run wait for the streams before they let go of anything.
LEMMA RunKeepsContainment ==
    ASSUME ItemsKept, Contains,
           Run \/ CloseLate \/ AttestLate \/ \E c \in Callers : AskAgain(c)
    PROVE  Contains'
<1>a. await \in [Callers -> Awaits] /\ (run # "execute" => runner.pc = "returned")
  BY DEF Contains
<1>b. UNCHANGED vars
  BY DEF Run, Return, Boundary, MaintenanceEnds, Contain, Contained, MeasureEnds,
         ReadBackEnds, Close, Assess, Assessed, CloseLate, AttestLate, AskAgain
<1>c. UNCHANGED <<runner, known, future, outstanding, handles, cleanup>> /\ Shown' = Shown
  BY <1>b DEF vars, pool, result, Shown, Live
<1>1. CASE Return
  <2>1. /\ run = "execute" /\ runner.pc = "returned" /\ await' = await
        /\ attested' = attested /\ contained' = contained
        /\ run' = IF runner.exc = "base" THEN "aborted" ELSE "boundary"
        /\ conn' = IF runner.exc = "base" THEN "closed" ELSE conn
    BY <1>1 DEF Return
  <2>2. PhaseKept /\ ~attested /\ conn = "open" /\ \A c \in Callers : await[c].pc = "off"
    BY <2>1 DEF Contains, NotBegun
  <2>3. runner.exc # "base" => Quiet
    BY <1>a, <2>1, <2>2, ReturnedQuiet
  <2>4. runner.exc # "base" => Quiet'
    BY <1>b, <2>1, <2>3, QuietWithoutAwait
  <2> QED BY <1>a, <1>c, <2>1, <2>2, <2>4 DEF Contains, NotBegun, LetGo
<1>2. ASSUME ~NotBegun, ~NotBegun', await' \in [Callers -> Awaits],
             \A c \in Callers : await'[c] = await[c] \/ await'[c].pc \in {"off", "read"},
             LetGo' => LetGo \/ Shown = {}
      PROVE  Contains'
  <2>1. Quiet'
    BY <1>b, <1>2, QuietWithoutAwait DEF Contains
  <2> QED BY <1>a, <1>c, <1>2, <2>1 DEF Contains, NotBegun
<1>3. outstanding = {} /\ ~NotBegun => Shown = {}
  BY DEF Contains, Quiet
<1>4. \A c \in Callers : await[c].pc = "yes" /\ ~NotBegun => Shown = {}
  BY DEF Contains, Quiet
<1>5. CASE Boundary \/ MaintenanceEnds \/ MeasureEnds \/ ReadBackEnds
  BY <1>a, <1>2, <1>3, <1>5
  DEF Boundary, MaintenanceEnds, MeasureEnds, ReadBackEnds, NotBegun, LetGo
<1>6. CASE Contain
  BY <1>a, <1>2, <1>3, <1>6, CallersTyped DEF Contain, Call, Asking, NotBegun, LetGo, Callers
<1>7. CASE Contained
  BY <1>a, <1>2, <1>4, <1>7, CallersTyped DEF Contained, Forget, Asleep, NotBegun, LetGo, Callers
<1>8. CASE Close
  BY <1>a, <1>2, <1>8, CallersTyped DEF Close, Call, Asking, NotBegun, LetGo, Callers
<1>9. CASE Assess
  <2>1. cleanup = "complete" /\ ~NotBegun => Shown = {}
    BY DEF Contains, Quiet
  <2> QED BY <1>a, <1>2, <1>9, <2>1, CallersTyped DEF Assess, Call, Asking, NotBegun, LetGo, Callers
<1>10. CASE Assessed
  <2>1. /\ await' \in [Callers -> Awaits]
        /\ \A c \in Callers : await'[c] = await[c] \/ await'[c].pc \in {"off", "read"}
    BY <1>a, <1>10 DEF Assessed, Forget, Asleep, Asking, Awaits, AwaitPCs
  <2> QED BY <1>2, <1>4, <1>10, <2>1 DEF Assessed, NotBegun, LetGo, Callers
<1>11. ASSUME NEW c \in Callers, await[c].pc # "off" PROVE ~NotBegun
  BY <1>11 DEF Contains
<1>12. CASE CloseLate
  BY <1>a, <1>2, <1>4, <1>11, <1>12, CallersTyped
  DEF CloseLate, Forget, Asleep, NotBegun, LetGo, Callers
<1>13. CASE AttestLate
  BY <1>a, <1>2, <1>4, <1>11, <1>13, CallersTyped
  DEF AttestLate, Forget, Asleep, NotBegun, LetGo, Callers
<1>14. ASSUME NEW c \in Callers, AskAgain(c) PROVE Contains'
  BY <1>a, <1>2, <1>11, <1>14, CallersTyped DEF AskAgain, Call, Asking, NotBegun, LetGo
<1> QED BY <1>1, <1>5, <1>6, <1>7, <1>8, <1>9, <1>10, <1>12, <1>13, <1>14 DEF Run

-----------------------------------------------------------------------------
\* Every step of a run keeps the invariant.
LEMMA ContainmentStep == ContainmentKept /\ [CNext]_cvars => ContainmentKept'
<1> SUFFICES ASSUME ItemsKept, Contains, [CNext]_cvars PROVE ItemsKept' /\ Contains'
  BY DEF ContainmentKept
<1>1. ASSUME [Next]_vars, UNCHANGED client PROVE ItemsKept' /\ Contains'
  <2>1. ItemsKept'
    BY <1>1, TypesAreKept, NumberedIsKept, PlacedIsKept, BalancedIsKept DEF ItemsKept
  <2> QED BY <1>1, <2>1, PhaseKeepsContainment
<1>2. ASSUME NEW c \in Callers, Await(c) PROVE ItemsKept' /\ Contains'
  BY <1>2, AwaitKeepsContainment
<1>3. ASSUME Run \/ CloseLate \/ AttestLate \/ \E c \in Callers : AskAgain(c)
      PROVE  ItemsKept' /\ Contains'
  <2>1. UNCHANGED vars
    BY <1>3 DEF Run, Return, Boundary, MaintenanceEnds, Contain, Contained, MeasureEnds,
                ReadBackEnds, Close, Assess, Assessed, CloseLate, AttestLate, AskAgain
  <2>2. ItemsKept'
    BY <2>1, TypesAreKept, NumberedIsKept, PlacedIsKept, BalancedIsKept DEF ItemsKept
  <2> QED BY <1>3, <2>2, RunKeepsContainment
<1> QED BY <1>1, <1>2, <1>3 DEF CNext, Phase, Watch, cvars

\* Nothing that follows the phase happens while a stream it reports may run.
THEOREM StreamsAreContained == CSpec => []ContainedUntilQuiet
<1>1. ContainmentKept => ContainedUntilQuiet
  <2> SUFFICES ASSUME ItemsKept, Contains, ~(Live \subseteq Refused)
               PROVE  /\ run \notin {"maintenance", "measure"} /\ ~attested
                      /\ conn = "closed" => run = "aborted"
    BY DEF ContainmentKept, ContainedUntilQuiet
  <2>1. CASE run = "execute"
    BY <2>1 DEF Contains, NotBegun
  <2>2. CASE run # "execute"
    <3>1. runner.pc = "returned"
      BY <2>2 DEF Contains
    <3>2. Shown # {}
      BY <3>1 DEF Shown, Live, Refused
    <3> QED BY <3>2 DEF Contains, LetGo
  <2> QED BY <2>1, <2>2
<1> QED BY <1>1, ContainmentInitially, ContainmentStep, PTL DEF CSpec

-----------------------------------------------------------------------------
(* The phase and its callers implement PhaseContract.                       *)

Untold == known \ (completed \cup cancelled)

\* After execute has returned no known stream waits to begin, and what is named, or about
\* to be, is known and told of in no other way.
Honest ==
    run # "execute" /\ SettlesAll =>
        /\ \A s \in known : future[s] # "pending"
        /\ outstanding \subseteq Untold
        /\ \A c \in Callers : await[c].pc = "list" => await[c].ids \subseteq Untold

\* A settled phase tells of each stream once.
LEMMA ReturnedHonest ==
    ASSUME PhaseKept, runner.pc = "returned", SettlesAll
    PROVE  (\A s \in known : future[s] # "pending") /\ outstanding \subseteq Untold
<1>1. Unsettled = {} /\ (\A s \in known : Fate(s)) /\ (\A s \in Streams \ known : Unlisted(s))
  BY DEF PhaseKept, Accounted, InOrder, Unsettled
<1>2. outstanding \subseteq Streams
  BY DEF PhaseKept, ItemsKept, TypeOK
<1> QED BY <1>1, <1>2 DEF Fate, Unlisted, Untold

\* Failures are only counted up.
LEMMA FailuresCounted ==
    ASSUME TypeOK, [Next]_vars
    PROVE  raises \in Nat /\ raises' \in {raises, raises + 1}
<1>1. raises \in Nat
  BY StreamsAssumption DEF TypeOK
<1>2. CASE Execute
  <2>1. ASSUME NEW s \in Streams,
               Collect(s) \/ CollectRaises(s) \/ SettleCancel(s) \/ SettleStarted(s)
        PROVE  raises' = raises
    BY <2>1 DEF Collect, CollectRaises, SettleCancel, SettleStarted
  <2>2. CASE Submit \/ UsePermit \/ AllStarted \/ StartWorker \/ AllCollected \/ Timeout
    BY <1>1, <2>2 DEF Submit, UsePermit, AllStarted, StartWorker, Submitted, AllCollected, Timeout
  <2>3. CASE StartFails \/ Interrupt
    BY <1>1, <2>3 DEF StartFails, Interrupt
  <2>4. CASE SettleDone \/ SettleOutstanding \/ SettleRaises \/ Settled \/ Drain \/ Finish
    BY <1>1, <2>4 DEF SettleDone, SettleOutstanding, SettleRaises, Settled, Drain, Finish
  <2> QED BY <1>1, <1>2, <2>1, <2>2, <2>3, <2>4 DEF Execute
<1>3. ASSUME NEW w \in Workers, Thread(w) PROVE raises' \in {raises, raises + 1}
  BY <1>3 DEF Thread, Take, Begin, End, Die, Release
<1> QED BY <1>1, <1>2, <1>3 DEF Next, vars

\* What the callers write, they have read.
LEMMA HonestStep == ContainmentKept /\ Honest /\ [CNext]_cvars => Honest'
<1> SUFFICES ASSUME ItemsKept, Contains, Honest, [CNext]_cvars PROVE Honest'
  BY DEF ContainmentKept
<1> USE DEF Honest, Untold
<1>a. await \in [Callers -> Awaits]
  BY DEF Contains
<1>1. ASSUME [Next]_vars, UNCHANGED client PROVE Honest'
  <2>1. UNCHANGED <<run, await>>
    BY <1>1 DEF client
  <2>2. CASE run # "execute"
    <3>1. runner.pc = "returned" /\ known \subseteq Streams
      BY <2>2 DEF Contains, ItemsKept, TypeOK
    <3>2. /\ UNCHANGED <<runner, known, completed, cancelled, outstanding>>
          /\ \A s \in Streams : GoesOn(s)
      BY <1>1, <3>1, OnlyThreadsGoOn DEF result
    <3>3. ASSUME SettlesAll' PROVE SettlesAll
      BY <1>1, <3>2, <3>3, FailuresCounted DEF ItemsKept, SettlesAll
    <3> QED BY <2>1, <3>1, <3>2, <3>3 DEF GoesOn
  <2> QED BY <2>1, <2>2
<1>2. ASSUME NEW c \in Callers, Await(c) PROVE Honest'
  <2>1. UNCHANGED <<runner, known, future, completed, cancelled, raises, run>>
    BY <1>2 DEF Await, AwaitRead, AwaitWait, AwaitIds, AwaitList, AwaitHandles, vars, pool, result
  <2>2. SettlesAll' <=> SettlesAll
    BY <2>1 DEF SettlesAll
  <2>3. ASSUME run # "execute", SettlesAll, outstanding' \subseteq Untold,
               \A b \in Callers : await'[b].pc = "list" => await'[b].ids \subseteq Untold
        PROVE  Honest'
    BY <2>1, <2>3
  <2>4. CASE AwaitIds(c)
    BY <1>a, <2>1, <2>2, <2>4 DEF AwaitIds, vars, result, Awaits
  <2>5. CASE AwaitList(c)
    BY <1>a, <2>1, <2>2, <2>5 DEF AwaitList, Awaits
  <2>6. CASE AwaitRead(c) \/ AwaitWait(c) \/ AwaitHandles(c)
    BY <1>a, <2>1, <2>2, <2>6 DEF AwaitRead, AwaitWait, AwaitHandles, vars, result, Awaits
  <2> QED BY <1>2, <2>4, <2>5, <2>6 DEF Await
<1>3. ASSUME Run \/ CloseLate \/ AttestLate \/ \E c \in Callers : AskAgain(c) PROVE Honest'
  <2>1. UNCHANGED vars
    BY <1>3 DEF Run, Return, Boundary, MaintenanceEnds, Contain, Contained, MeasureEnds,
                ReadBackEnds, Close, Assess, Assessed, CloseLate, AttestLate, AskAgain
  <2>2. UNCHANGED <<runner, known, future, completed, cancelled, outstanding, raises>>
    BY <2>1 DEF vars, pool, result
  <2>3. SettlesAll' <=> SettlesAll
    BY <2>2 DEF SettlesAll
  <2>4. CASE run = "execute"
    <3>1. Return \/ run' = "execute"
      BY <1>3, <2>4 DEF Run, Boundary, MaintenanceEnds, Contain, Contained, MeasureEnds,
                        ReadBackEnds, Close, Assess, Assessed, CloseLate, AttestLate, AskAgain
    <3>2. Return => await' = await /\ runner.pc = "returned"
      BY DEF Return
    <3>3. PhaseKept /\ \A c \in Callers : await[c].pc = "off"
      BY <2>4 DEF Contains, NotBegun
    <3>4. Return /\ SettlesAll => (\A s \in known : future[s] # "pending") /\ outstanding \subseteq Untold
      BY <3>2, <3>3, ReturnedHonest
    <3> QED BY <2>2, <2>3, <3>1, <3>2, <3>3, <3>4
  <2>5. CASE run # "execute"
    <3>1. \A c \in Callers : await'[c] = await[c] \/ await'[c].pc \in {"off", "read"}
      BY <1>3, <1>a DEF Run, Return, Boundary, MaintenanceEnds, Contain, Contained, MeasureEnds,
             ReadBackEnds, Close, Assess, Assessed, CloseLate, AttestLate, AskAgain,
             Call, Forget, Asking, Asleep, Awaits
    <3> QED BY <2>2, <2>3, <2>5, <3>1
  <2> QED BY <2>4, <2>5
<1> QED BY <1>1, <1>2, <1>3 DEF CNext, Phase, Watch, cvars

-----------------------------------------------------------------------------
\* Only what happens to the streams the runner knows of, to the lists or to the run can be
\* told in the contract.
LEMMA NothingTold ==
    ASSUME known' = known, \A s \in known : future'[s] = future[s],
           UNCHANGED <<completed, cancelled, outstanding>>, PhaseStage' = PhaseStage,
           LeftBehind' = LeftBehind
    PROVE  UNCHANGED Contract!vars
<1>1. \A s \in Streams : Life(s)' = Life(s)
  BY DEF Life
<1> QED BY <1>1 DEF Contract!vars, Lives

\* One stream the runner knows of moves on.
LEMMA OneMoves ==
    ASSUME NEW s \in Streams, \A t \in Streams : t # s => Life(t)' = Life(t)
    PROVE  Lives' = [Lives EXCEPT ![s] = Life(s)'] /\ Lives[s] = Life(s)
BY DEF Lives

\* What the contract calls taken on and running.
LEMMA TakenAreKnown ==
    ASSUME known \subseteq Streams, future \in [Streams -> FutureStates]
    PROVE  Contract!Taken = known /\ Contract!Running = Shown
<1>1. \A s \in Streams : (Life(s) # "new" <=> s \in known)
  BY DEF Life
<1>2. \A s \in Streams : (Life(s) = "running" <=> s \in Shown)
  BY DEF Life, Shown, Live
<1> QED BY <1>1, <1>2 DEF Contract!Taken, Contract!Running, Lives, Shown, Live

\* A step that a settlement cut short takes, or that cuts it short.
LEMMA BrokenOff ==
    ASSUME Contains', TypeOK', ~SettlesAll'
    PROVE  Contract!BreakOff
<1>1. runner'.exc = "base"
  BY DEF SettlesAll
<1>2. NotBegun'
  BY <1>1 DEF Contains, Quiet
<1>3. ~LeftBehind'
  BY <1>2 DEF LeftBehind, Contains, NotBegun
<1> QED BY <1>3 DEF Contract!BreakOff, PhaseStage

\* The runner's steps before execute returns.
LEMMA ExecuteImplements ==
    ASSUME PhaseKept, Execute, SettlesAll, SettlesAll', UNCHANGED client
    PROVE  Contract!Next \/ UNCHANGED Contract!vars
<1> USE DEF pool, result
<1>a. /\ TypeOK /\ Numbered /\ known \subseteq Streams /\ runner \in Runners
      /\ future \in [Streams -> FutureStates]
  BY DEF PhaseKept, ItemsKept, TypeOK
<1>b. /\ InOrder /\ (\A s \in known : Fate(s)) /\ (\A s \in Streams \ known : Unlisted(s))
  BY DEF PhaseKept, Accounted
<1>c. LeftBehind' = LeftBehind
  BY DEF client, LeftBehind
<1>d. runner.at \in Streams /\ runner.pc # "returned" /\ PhaseStage = "open"
  BY <1>a DEF Runners, PhaseStage, Execute, Submit, UsePermit, AllStarted, StartWorker, StartFails,
         Collect, CollectRaises, SettleCancel, SettleStarted, AllCollected, Timeout, Interrupt,
         SettleDone, SettleOutstanding, SettleRaises, Settled, Drain, Finish
<1>e. ASSUME runner'.pc # "returned" PROVE PhaseStage' = PhaseStage
  BY <1>d, <1>e DEF PhaseStage
<1>1. CASE Submit
  <2>1. runner.at \notin known
    BY <1>1, <1>a DEF Submit, Numbered, Submitting, Runners, Streams
  <2>2. known' = known /\ (\A s \in known : future'[s] = future[s]) /\ runner'.pc # "returned"
    BY <1>1, <1>a, <2>1 DEF Submit, Runners
  <2> QED BY <1>1, <1>c, <1>e, <2>2, NothingTold DEF Submit
<1>2. ASSUME NEW s \in Streams, s = runner.at, UsePermit \/ AllStarted \/ StartWorker
      PROVE  Contract!Next
  <2>1. Submitted /\ runner.pc = "spawn"
    BY <1>2 DEF UsePermit, AllStarted, StartWorker
  <2>2. s \notin known /\ future[s] \in Begun
    BY <1>a, <1>b, <1>2, <2>1 DEF Numbered, Submitting, Streams, InOrder
  <2>3. /\ known' = known \cup {s} /\ future' = future
        /\ UNCHANGED <<completed, cancelled, outstanding>> /\ runner'.pc # "returned"
    BY <1>a, <1>2, <2>1 DEF Submitted, Runners
  <2>4. \A t \in Streams : t # s => Life(t)' = Life(t)
    BY <2>3 DEF Life
  <2>5. Life(s) = "new" /\ Life(s)' \in {"waiting", "running", "ended", "dead"}
    BY <2>2, <2>3 DEF Life, Begun
  <2>6. Contract!TakeOn(s)
    BY <1>c, <1>d, <1>e, <2>3, <2>4, <2>5, OneMoves DEF Contract!TakeOn, Contract!Move
  <2> QED BY <2>6 DEF Contract!Next
<1>3. CASE StartFails \/ AllCollected \/ Timeout \/ Interrupt \/ Settled \/ SettleRaises
  <2>1. /\ known' = known /\ future' = future /\ runner'.pc # "returned"
        /\ UNCHANGED <<completed, cancelled, outstanding>>
    BY <1>3, <1>a DEF StartFails, AllCollected, Timeout, Interrupt, Settled, SettleRaises, Runners
  <2> QED BY <1>c, <1>e, <2>1, NothingTold
<1>4. ASSUME NEW s \in Streams, CollectRaises(s) \/ SettleStarted(s)
      PROVE  UNCHANGED Contract!vars
  <2>1. /\ known' = known /\ future' = future /\ runner'.pc # "returned"
        /\ UNCHANGED <<completed, cancelled, outstanding>>
    BY <1>4, <1>a DEF CollectRaises, SettleStarted, Runners
  <2> QED BY <1>c, <1>e, <2>1, NothingTold
<1>5. ASSUME NEW s \in Streams, s \in Unsettled, future[s] \in {"done", "running"},
             known' = known, future' = future, runner'.pc # "returned", cancelled' = cancelled,
             \/ /\ future[s] = "done"
                /\ completed' = completed \cup {s} /\ outstanding' = outstanding
             \/ /\ future[s] = "running"
                /\ outstanding' = outstanding \cup {s} /\ completed' = completed
      PROVE  Contract!Next
  <2>1. s \in known
    BY <1>b, <1>5 DEF Unlisted
  <2>2. s \notin completed \cup cancelled \cup outstanding
    BY <1>b, <1>5, <2>1 DEF Fate
  <2>3. \A t \in Streams : Life(t)' = Life(t)
    BY <1>5 DEF Life
  <2>4. Lives' = Lives /\ Lives[s] = (IF future[s] = "done" THEN "ended" ELSE "running")
    BY <1>5, <2>1, <2>3 DEF Lives, Life
  <2>5. Contract!Record(s) \/ Contract!Name(s)
    BY <1>c, <1>d, <1>e, <1>5, <2>2, <2>4 DEF Contract!Record, Contract!Name, Contract!Told
  <2> QED BY <2>5 DEF Contract!Next
<1>6. ASSUME NEW s \in Streams, Collect(s) PROVE Contract!Next
  BY <1>5, <1>6 DEF Collect, Unsettled
<1>7. CASE SettleDone \/ SettleOutstanding
  BY <1>a, <1>d, <1>5, <1>7 DEF SettleDone, SettleOutstanding, Unsettled, Runners
<1>8. ASSUME NEW s \in Streams, SettleCancel(s) PROVE Contract!Next
  <2>1. /\ s \in Unsettled /\ future[s] = "pending" /\ known' = known
        /\ future' = [future EXCEPT ![s] = "cancelled"]
        /\ runner' = runner /\ cancelled' = cancelled \cup {s}
        /\ UNCHANGED <<completed, outstanding>>
    BY <1>8 DEF SettleCancel, First, Unsettled
  <2>2. s \in known
    BY <1>b, <2>1 DEF Unlisted
  <2>3. \A t \in Streams : t # s => Life(t)' = Life(t)
    BY <1>a, <2>1 DEF Life
  <2>4. Life(s) = "waiting" /\ Life(s)' = "barred"
    BY <1>a, <2>1, <2>2 DEF Life
  <2>5. Contract!Bar(s)
    BY <1>c, <1>d, <1>e, <2>1, <2>3, <2>4, OneMoves DEF Contract!Bar, Contract!Move
  <2> QED BY <2>5 DEF Contract!Next
<1>9. CASE Drain
  <2>1. /\ runner.pc = "drain" /\ runner' = runner /\ known' = known
        /\ UNCHANGED <<completed, cancelled, outstanding>>
    BY <1>9 DEF Drain
  <2>2. \A s \in known : future[s] # "pending"
    BY <1>b, <2>1 DEF InOrder, Fate, Unsettled
  <2>3. \A s \in known : future'[s] = future[s]
    BY <1>a, <1>9, <2>2 DEF Drain
  <2> QED BY <1>c, <1>e, <2>1, <2>3, NothingTold
<1>10. CASE Finish
  <2>1. /\ runner.pc = "drain" /\ runner'.pc = "returned" /\ known' = known /\ future' = future
        /\ UNCHANGED <<completed, cancelled, outstanding>>
    BY <1>10, <1>a DEF Finish, Runners
  <2>2. \A s \in known : s \in completed \cup cancelled \cup outstanding \/ future[s] = "dead"
    BY <1>b, <2>1 DEF InOrder, Fate, Unsettled
  <2>3. \A s \in Streams : Life(s)' = Life(s)
    BY <2>1 DEF Life
  <2>4. Lives' = Lives /\ \A s \in known : future[s] = "dead" => Lives[s] = "dead"
    BY <1>a, <2>3 DEF Lives, Life
  <2>5. PhaseStage' = "over"
    BY <2>1 DEF PhaseStage
  <2>6. Contract!Over
    BY <1>a, <1>c, <1>d, <2>1, <2>2, <2>4, <2>5, TakenAreKnown DEF Contract!Over, Contract!Told
  <2> QED BY <2>6 DEF Contract!Next
<1> QED BY <1>d, <1>1, <1>2, <1>3, <1>4, <1>6, <1>7, <1>8, <1>9, <1>10 DEF Execute

\* A thread moves one stream on, or none.
LEMMA ThreadMovesOne ==
    ASSUME ItemsKept, NEW w \in Workers, Thread(w)
    PROVE  /\ UNCHANGED <<runner, known, result>>
           /\ \E s \in Streams : GoesOn(s) /\ \A t \in Streams : t # s => future'[t] = future[t]
<1>a. /\ Placed /\ worker \in [Workers -> Threads] /\ future \in [Streams -> FutureStates]
      /\ 1 \in Streams
  BY StreamsAssumption DEF ItemsKept, TypeOK, Streams
<1>1. UNCHANGED <<runner, known, result>>
  BY DEF Thread, Take, Begin, End, Die, Release
<1>2. CASE Take(w) \/ Release(w)
  BY <1>a, <1>1, <1>2 DEF Take, Release, GoesOn
<1>3. CASE Begin(w) \/ End(w) \/ Die(w)
  <2>1. worker[w].item \in Streams /\ worker[w].pc \in {"got", "run"}
    BY <1>3, <1>a DEF Begin, End, Die, Placed, TakenGo, InHand, Item
  <2>2. GoesOn(worker[w].item)
    BY <1>3, <1>a, <2>1 DEF Begin, End, Die, Placed, TakenGo, InHand, Item, Waiting, GoesOn
  <2>3. \A t \in Streams : t # worker[w].item => future'[t] = future[t]
    BY <1>3, <1>a, <2>1 DEF Begin, End, Die
  <2> QED BY <1>1, <2>1, <2>2, <2>3
<1> QED BY <1>2, <1>3 DEF Thread

\* The threads' steps, before execute returns and after.
LEMMA ThreadImplements ==
    ASSUME ItemsKept, Contains, Honest, SettlesAll, SettlesAll', UNCHANGED client,
           NEW w \in Workers, Thread(w)
    PROVE  Contract!Next \/ UNCHANGED Contract!vars
<1>a. UNCHANGED <<runner, known, completed, cancelled, outstanding>>
  BY ThreadMovesOne DEF result
<1>b. PhaseStage' = PhaseStage /\ LeftBehind' = LeftBehind
  BY <1>a DEF PhaseStage, client, LeftBehind
<1>c. runner.pc = "returned" => \A s \in known : future[s] # "pending"
  BY ReturnedHonest DEF Contains, Honest
<1>1. PICK s \in Streams : GoesOn(s) /\ \A t \in Streams : t # s => future'[t] = future[t]
  BY ThreadMovesOne
<1>2. \A t \in Streams : t # s => Life(t)' = Life(t)
  BY <1>a, <1>1 DEF Life
<1>3. CASE Life(s)' = Life(s)
  BY <1>a, <1>b, <1>2, <1>3 DEF Contract!vars, Lives
<1>4. CASE s \in known /\ future[s] = "pending" /\ future'[s] = "running"
  <2>1. PhaseStage = "open"
    BY <1>c, <1>4 DEF PhaseStage
  <2>2. Life(s) = "waiting" /\ Life(s)' = "running"
    BY <1>a, <1>4 DEF Life
  <2>3. Contract!Begin(s)
    BY <1>a, <1>b, <1>2, <2>1, <2>2, OneMoves DEF Contract!Begin, Contract!Move
  <2> QED BY <2>3 DEF Contract!Next
<1>5. CASE s \in known /\ future[s] = "running" /\ future'[s] \in {"done", "dead"}
  <2>1. Life(s) = "running" /\ Life(s)' \in {"ended", "dead"}
    BY <1>a, <1>5 DEF Life
  <2>2. Contract!End(s)
    BY <1>a, <1>b, <1>2, <2>1, OneMoves DEF Contract!End, Contract!Move
  <2> QED BY <2>2 DEF Contract!Next
<1>6. CASE s \notin known \/ future'[s] = future[s] \/ (future[s] = "cancelled" /\ future'[s] = "notified")
  BY <1>a, <1>3, <1>6 DEF Life
<1> QED BY <1>1, <1>4, <1>5, <1>6 DEF GoesOn

\* Who asks for quiescence names again what may still run.
LEMMA AwaitImplements ==
    ASSUME ItemsKept, Contains, Honest, SettlesAll, NEW c \in Callers, Await(c)
    PROVE  Contract!Next \/ UNCHANGED Contract!vars
<1>a. UNCHANGED <<runner, known, future, completed, cancelled, raises, run, conn, attested>>
  BY DEF Await, AwaitRead, AwaitWait, AwaitIds, AwaitList, AwaitHandles, vars, pool, result
<1>b. PhaseStage' = PhaseStage /\ LeftBehind' = LeftBehind /\ Lives' = Lives
  BY <1>a DEF PhaseStage, SettlesAll, LeftBehind, Lives, Life
<1>c. /\ known \subseteq Streams /\ outstanding \subseteq Streams
      /\ future \in [Streams -> FutureStates]
  BY DEF ItemsKept, TypeOK
<1>1. CASE AwaitList(c)
  <2>1. await[c].pc = "list" /\ outstanding' = await[c].ids
    BY <1>1 DEF AwaitList
  <2>2. ~NotBegun
    BY <2>1 DEF Contains
  <2>3. Quiet /\ runner.pc = "returned" /\ run # "execute"
    BY <2>2 DEF Contains, NotBegun
  <2>4. Shown \subseteq outstanding' /\ outstanding' \subseteq Untold
    BY <2>1, <2>3 DEF Quiet, Honest
  <2>5. PhaseStage = "over"
    BY <2>3 DEF PhaseStage
  <2>6. Contract!NameAgain
    BY <1>a, <1>b, <1>c, <2>4, <2>5, TakenAreKnown DEF Contract!NameAgain, Untold
  <2> QED BY <2>6 DEF Contract!Next
<1>2. CASE AwaitRead(c) \/ AwaitWait(c) \/ AwaitIds(c) \/ AwaitHandles(c)
  <2>1. outstanding' = outstanding
    BY <1>2 DEF AwaitRead, AwaitWait, AwaitIds, AwaitHandles, vars, result
  <2> QED BY <1>a, <1>b, <2>1 DEF Contract!vars
<1> QED BY <1>1, <1>2 DEF Await

\* Whoever follows the phase leaves it behind only when no stream runs.
LEMMA RunImplements ==
    ASSUME ItemsKept, Contains, Contains', SettlesAll,
           Run \/ CloseLate \/ AttestLate \/ \E c \in Callers : AskAgain(c)
    PROVE  Contract!Next \/ UNCHANGED Contract!vars
<1>1. UNCHANGED vars
  BY DEF Run, Return, Boundary, MaintenanceEnds, Contain, Contained, MeasureEnds,
         ReadBackEnds, Close, Assess, Assessed, CloseLate, AttestLate, AskAgain
<1>2. UNCHANGED <<runner, known, future, completed, cancelled, outstanding, raises>>
  BY <1>1 DEF vars, pool, result
<1>3. Lives' = Lives /\ PhaseStage' = PhaseStage /\ Shown' = Shown
  BY <1>2 DEF Lives, Life, PhaseStage, SettlesAll, Shown, Live
<1>b. LeftBehind \in BOOLEAN /\ LeftBehind' \in BOOLEAN
  BY DEF LeftBehind
<1>4. CASE LeftBehind' = LeftBehind
  BY <1>2, <1>3, <1>4 DEF Contract!vars
<1>5. CASE run = "execute"
  <2>1. /\ ~attested /\ conn = "open" /\ \A c \in Callers : await[c].pc = "off"
    BY <1>5 DEF Contains, NotBegun
  <2>2. Return
    BY <1>5, <2>1 DEF Run, Boundary, MaintenanceEnds, Contain, Contained, MeasureEnds,
           ReadBackEnds, Close, Assess, Assessed, CloseLate, AttestLate, AskAgain, Callers
  <2>3. ~LeftBehind /\ ~LeftBehind'
    BY <1>5, <2>1, <2>2 DEF Return, LeftBehind
  <2> QED BY <1>b, <1>4, <2>3
<1>6. CASE run # "execute" /\ (LeftBehind \/ LeftBehind')
  <2>1. (LeftBehind => LetGo) /\ (LeftBehind' => LetGo')
    BY DEF LeftBehind, LetGo
  <2>2. Shown = {}
    BY <1>3, <1>6, <2>1 DEF Contains
  <2>3. PhaseStage = "over"
    BY <1>6 DEF Contains, PhaseStage
  <2>4. Contract!Running = {}
    BY <2>2, TakenAreKnown DEF ItemsKept, TypeOK
  <2>5. Contract!Leave
    BY <1>b, <1>2, <1>3, <2>3, <2>4 DEF Contract!Leave
  <2> QED BY <2>5 DEF Contract!Next
<1> QED BY <1>b, <1>4, <1>5, <1>6

\* Each step is one of the contract's, or none.
LEMMA StepsImplement ==
    ASSUME ContainmentKept, ContainmentKept', Honest, [CNext]_cvars
    PROVE  [Contract!Next]_(Contract!vars)
<1>a. /\ ItemsKept /\ Contains /\ Contains' /\ TypeOK /\ TypeOK'
  BY DEF ContainmentKept, ItemsKept
<1>1. CASE ~SettlesAll'
  BY <1>1, <1>a, BrokenOff DEF Contract!Next
<1>2. ASSUME SettlesAll', [Next]_vars, UNCHANGED client
      PROVE  Contract!Next \/ UNCHANGED Contract!vars
  <2>1. run # "execute" => runner.pc = "returned"
    BY <1>a DEF Contains
  <2>2. SettlesAll
    <3>1. CASE run = "execute"
      BY <1>a, <1>2, <3>1, FailuresStay DEF Contains, PhaseKept
    <3>2. CASE run # "execute"
      <4>1. runner' = runner
        BY <1>a, <1>2, <2>1, <3>2, OnlyThreadsGoOn
      <4> QED BY <1>a, <1>2, <4>1, FailuresCounted DEF SettlesAll
    <3> QED BY <3>1, <3>2
  <2>3. CASE Execute
    <3>1. runner.pc # "returned"
      BY <2>3 DEF Execute, Submit, UsePermit, AllStarted, StartWorker, StartFails,
             Collect, CollectRaises, SettleCancel, SettleStarted, AllCollected, Timeout,
             Interrupt, SettleDone, SettleOutstanding, SettleRaises, Settled, Drain, Finish
    <3> QED BY <1>a, <1>2, <2>1, <2>2, <2>3, <3>1, ExecuteImplements DEF Contains
  <2>4. ASSUME NEW w \in Workers, Thread(w) PROVE Contract!Next \/ UNCHANGED Contract!vars
    BY <1>a, <1>2, <2>2, <2>4, ThreadImplements
  <2>5. CASE UNCHANGED vars
    <3>1. known' = known /\ future' = future /\ UNCHANGED <<completed, cancelled, outstanding>>
          /\ runner' = runner
      BY <2>5 DEF vars, pool, result
    <3>2. PhaseStage' = PhaseStage /\ LeftBehind' = LeftBehind
      BY <1>2, <2>2, <3>1 DEF PhaseStage, client, LeftBehind
    <3> QED BY <3>1, <3>2, NothingTold
  <2> QED BY <1>2, <2>3, <2>4, <2>5 DEF Next
<1>3. ASSUME SettlesAll', NEW c \in Callers, Await(c)
      PROVE  Contract!Next \/ UNCHANGED Contract!vars
  <2>1. UNCHANGED <<runner, raises>>
    BY <1>3 DEF Await, AwaitRead, AwaitWait, AwaitIds, AwaitList, AwaitHandles, vars
  <2>2. SettlesAll
    BY <1>3, <2>1 DEF SettlesAll
  <2> QED BY <1>a, <1>3, <2>2, AwaitImplements
<1>4. ASSUME SettlesAll', Run \/ CloseLate \/ AttestLate \/ \E c \in Callers : AskAgain(c)
      PROVE  Contract!Next \/ UNCHANGED Contract!vars
  <2>1. UNCHANGED <<runner, raises>>
    BY <1>4 DEF Run, Return, Boundary, MaintenanceEnds, Contain, Contained, MeasureEnds,
           ReadBackEnds, Close, Assess, Assessed, CloseLate, AttestLate, AskAgain, vars
  <2>2. SettlesAll
    BY <1>4, <2>1 DEF SettlesAll
  <2> QED BY <1>a, <1>4, <2>2, RunImplements
<1> QED BY <1>1, <1>2, <1>3, <1>4 DEF CNext, Phase, Watch, cvars

\* A run begins as the contract does.
LEMMA BeginsAsContract == CInit => Contract!Init /\ Honest
<1> SUFFICES ASSUME CInit PROVE Contract!Init /\ Honest
  OBVIOUS
<1>1. \A s \in Streams : Life(s) = "new"
  BY DEF CInit, Init, Life
<1>2. PhaseStage = "open" /\ ~LeftBehind
  BY DEF CInit, Init, PhaseStage, SettlesAll, LeftBehind
<1> QED BY <1>1, <1>2 DEF CInit, Init, Contract!Init, Honest, Lives

\* For any number of streams, threads and failures, what the callers of a phase see of it
\* is what PhaseContract allows.
THEOREM PhaseIsImplemented == CSpec => ImplementsPhase
<1>1. CInit => ContainmentKept /\ Contract!Init /\ Honest
  BY ContainmentInitially, BeginsAsContract
<1>2. ContainmentKept /\ Honest /\ [CNext]_cvars
        => ContainmentKept' /\ Honest' /\ [Contract!Next]_(Contract!vars)
  BY ContainmentStep, HonestStep, StepsImplement
<1> QED BY <1>1, <1>2, PTL DEF CSpec, ImplementsPhase, Contract!Spec
=============================================================================
