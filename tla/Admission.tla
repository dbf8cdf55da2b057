----------------------------- MODULE Admission -----------------------------
(***************************************************************************)
(* Admission of remote requests (mcp/security.py).  Server processes share *)
(* a SQLite table of tickets; a request enqueues one, polls until it is    *)
(* active, runs while a heartbeat extends its lease, and deletes it.  Each *)
(* method of the store is one transaction of SQLite, and one step.         *)
(*                                                                         *)
(* The age of an active ticket counts ticks since its lease was set, up to *)
(* LeaseTicks, when it has expired.  Requests are finitely many and each   *)
(* is sent once, so that new ones cannot take the free slots for ever.     *)
(***************************************************************************)
EXTENDS Integers, FiniteSets, Sequences

CONSTANTS
    Requests, Callers,
    CallerOf,          \* the principal that sends each request
    Patient,           \* requests whose queue_timeout_seconds outlasts all else
    GlobalConcurrency, PrincipalConcurrency, WaitingLimit, RequestsPerWindow,
    LeaseTicks,        \* lease_seconds
    HeartbeatTicks     \* the interval of _renew_lease, a third of it or less

ASSUME AdmissionAssumption ==
    /\ IsFiniteSet(Requests)
    /\ CallerOf \in [Requests -> Callers]
    /\ Patient \subseteq Requests
    /\ GlobalConcurrency \in Nat \ {0} /\ PrincipalConcurrency \in Nat \ {0}
    /\ WaitingLimit \in Nat /\ RequestsPerWindow \in Nat \ {0}
    /\ HeartbeatTicks \in Nat \ {0} /\ LeaseTicks \in Nat /\ HeartbeatTicks < LeaseTicks

VARIABLES
    stage,      \* where each request is in _call_admitted
    ticket,     \* its row: state, and age of the lease
    line,       \* the waiting tickets in the order of created_at
    beat,       \* ticks since the last heartbeat of a request
    late,       \* requests whose heartbeat has stalled
    rate        \* request_count of each principal in the current window

admissionVars == <<stage, ticket, line, beat, late, rate>>

\* "poll" is the loop of admit; "lost" still executes after the
\* heartbeat told it that its ticket is gone; "gone" is a request whose process died or
\* whose client cancelled it, with nobody left to delete the ticket.
Stages == {"new", "poll", "serve", "lost", "leave", "over", "gone"}
NoTicket == [state |-> "none", age |-> 0]
Waits == [state |-> "waiting", age |-> 0]
Active == [state |-> "active", age |-> 0]

Executing(r) == stage[r] \in {"serve", "lost"}
Live(r) == stage[r] \in {"poll", "serve", "lost", "leave"}

-----------------------------------------------------------------------------
(* The table, as the transactions see it.                                   *)

Expired(r) == ticket[r].state = "active" /\ ticket[r].age >= LeaseTicks

\* Broken variants of the definition they precede, for the checks of the properties;
\* no specification uses them.
SweptNever == ticket

\* _cleanup_expired.
Swept == [r \in Requests |-> IF Expired(r) THEN NoTicket ELSE ticket[r]]

InState(t, s) == {r \in Requests : t[r].state = s}
ActiveOf(t, p) == {r \in InState(t, "active") : CallerOf[r] = p}

RoomForCaller(t, p) == Cardinality(ActiveOf(t, p)) < PrincipalConcurrency

CapacityOfGlobal(t, p) == Cardinality(InState(t, "active")) < GlobalConcurrency

Capacity(t, p) ==
    /\ Cardinality(InState(t, "active")) < GlobalConcurrency
    /\ RoomForCaller(t, p)

Place(r) == CHOOSE i \in DOMAIN line : line[i] = r

\* The first waiting ticket among the principals below their limit.
NextInLine(t, r) ==
    /\ t[r].state = "waiting" /\ RoomForCaller(t, CallerOf[r])
    /\ \A q \in InState(t, "waiting") :
           RoomForCaller(t, CallerOf[q]) => Place(r) <= Place(q)

-----------------------------------------------------------------------------

AdmissionInit ==
    /\ stage = [r \in Requests |-> "new"]
    /\ ticket = [r \in Requests |-> NoTicket]
    /\ line = <<>>
    /\ beat = [r \in Requests |-> 0]
    /\ late = {}
    /\ rate = [p \in Callers |-> 0]

Move(r, from, to) == stage[r] = from /\ stage' = [stage EXCEPT ![r] = to]
LeaveLine(r) == line' = SelectSeq(line, LAMBDA q : q # r)

RateLeftOneMore(p) == rate[p] <= RequestsPerWindow
RateLeft(p) == rate[p] < RequestsPerWindow

\* The rate is exhausted: the transaction is rolled back, cleanup included.
RefuseRate(r) ==
    /\ Move(r, "new", "over")
    /\ ~RateLeft(CallerOf[r])
    /\ UNCHANGED <<ticket, line, beat, late, rate>>

\* The queue is full: the rollback takes back the rate count as well.
RefuseFull(r) ==
    /\ Move(r, "new", "over")
    /\ RateLeft(CallerOf[r])
    /\ ~Capacity(Swept, CallerOf[r])
    /\ Cardinality(InState(Swept, "waiting")) >= WaitingLimit
    /\ UNCHANGED <<ticket, line, beat, late, rate>>

\* A new request takes a free slot whoever waits.
Enqueue(r) ==
    /\ Move(r, "new", "poll")
    /\ RateLeft(CallerOf[r])
    /\ \/ /\ Capacity(Swept, CallerOf[r])
          /\ ticket' = [Swept EXCEPT ![r] = Active] /\ UNCHANGED line
       \/ /\ ~Capacity(Swept, CallerOf[r])
          /\ Cardinality(InState(Swept, "waiting")) < WaitingLimit
          /\ ticket' = [Swept EXCEPT ![r] = Waits] /\ line' = Append(line, r)
    /\ rate' = [rate EXCEPT ![CallerOf[r]] = @ + 1]
    /\ UNCHANGED <<beat, late>>

\* _try_promote answers True to a ticket that is active already, and to the first in line
\* when there is room for it, which it makes active.
Admit(r) ==
    /\ Move(r, "poll", "serve")
    /\ \/ /\ Swept[r].state = "active"
          /\ ticket' = Swept /\ UNCHANGED line
       \/ /\ NextInLine(Swept, r) /\ Capacity(Swept, CallerOf[r])
          /\ ticket' = [Swept EXCEPT ![r] = Active] /\ LeaveLine(r)
    /\ UNCHANGED <<beat, late, rate>>

\* It answers False to anyone else, with its cleanup committed unless the row of the
\* ticket is gone; admit sleeps and asks again, or has waited long enough.
NotYet(r) ==
    /\ Swept[r].state # "active"
    /\ ~(NextInLine(Swept, r) /\ Capacity(Swept, CallerOf[r]))
    /\ ticket' = IF Swept[r].state = "waiting" THEN Swept ELSE ticket
    /\ UNCHANGED <<line, beat, rate>>

PollAgain(r) == Move(r, "poll", "poll") /\ NotYet(r) /\ UNCHANGED late
GiveUp(r) == Move(r, "poll", "leave") /\ r \notin Patient /\ NotYet(r) /\ late' = late \ {r}

RenewForgetful(r) ==
    /\ stage[r] = "serve" /\ ticket[r].state = "active"
    /\ beat' = [beat EXCEPT ![r] = 0]
    /\ UNCHANGED <<stage, ticket, line, late, rate>>

\* renew does not look at the expiry it replaces: an expired lease nobody swept lives on.
Renew(r) ==
    /\ stage[r] = "serve" /\ ticket[r].state = "active"
    /\ ticket' = [ticket EXCEPT ![r] = Active]
    /\ beat' = [beat EXCEPT ![r] = 0]
    /\ UNCHANGED <<stage, line, late, rate>>

\* The row is gone: the request is cancelled, which its tool may take a while to notice.
RenewFails(r) ==
    /\ Move(r, "serve", "lost")
    /\ ticket[r].state # "active"
    /\ UNCHANGED <<ticket, line, beat, late, rate>>

\* call_next returns or raises.
Finish(r) ==
    /\ Executing(r)
    /\ stage' = [stage EXCEPT ![r] = "leave"]
    /\ beat' = [beat EXCEPT ![r] = 0] /\ late' = late \ {r}
    /\ UNCHANGED <<ticket, line, rate>>

Release(r) ==
    /\ Move(r, "leave", "over")
    /\ ticket' = [ticket EXCEPT ![r] = NoTicket] /\ LeaveLine(r)
    /\ UNCHANGED <<beat, late, rate>>

-----------------------------------------------------------------------------
(* What the environment does.                                               *)

\* The process dies, or the client cancels the request.  A cancelled request cannot
\* release its ticket: the release in the finally block is an await, and in a cancelled
\* scope that raises before the thread starts.
Abandon(r) ==
    /\ Live(r)
    /\ stage' = [stage EXCEPT ![r] = "gone"]
    /\ beat' = [beat EXCEPT ![r] = 0] /\ late' = late \ {r}
    /\ UNCHANGED <<ticket, line, rate>>

\* The event loop of the process is held up, and with it the heartbeat.
Stall(r) ==
    /\ stage[r] \in {"poll", "serve"} /\ r \notin late
    /\ beat' = [beat EXCEPT ![r] = 0] /\ late' = late \cup {r}
    /\ UNCHANGED <<stage, ticket, line, rate>>

\* The heart of a request beats on time, and a ticket just made active is found so by the
\* next poll, unless the request has stalled.
Punctual(r) ==
    r \notin late => /\ stage[r] = "serve" => beat[r] < HeartbeatTicks
                     /\ stage[r] = "poll" => ticket[r].state # "active"

LeaseTick ==
    /\ \A r \in Requests : Punctual(r)
    /\ ticket' = [r \in Requests |-> IF ticket[r].state = "active" /\ ticket[r].age < LeaseTicks
                                     THEN [ticket[r] EXCEPT !.age = @ + 1] ELSE ticket[r]]
    /\ beat' = [r \in Requests |-> IF stage[r] = "serve" /\ r \notin late THEN beat[r] + 1 ELSE 0]
    /\ UNCHANGED <<stage, line, late, rate>>

\* A new minute.
NewWindow ==
    /\ rate' = [p \in Callers |-> 0]
    /\ UNCHANGED <<stage, ticket, line, beat, late>>

\* The host restarts: the first process to open the store finds another boot id and
\* empties the tables.
Reboot ==
    /\ stage' = [r \in Requests |-> IF stage[r] = "new" THEN "new" ELSE "over"]
    /\ ticket' = [r \in Requests |-> NoTicket]
    /\ rate' = [p \in Callers |-> 0]
    /\ line' = <<>> /\ late' = {}
    /\ beat' = [r \in Requests |-> 0]

-----------------------------------------------------------------------------

Enter(r) == RefuseRate(r) \/ RefuseFull(r) \/ Enqueue(r)
Go(r) == Admit(r) \/ PollAgain(r) \/ Finish(r) \/ Release(r)
Heartbeat(r) == Renew(r) \/ RenewFails(r)

AdmissionNext ==
    \/ \E r \in Requests :
          \/ Enter(r) \/ Go(r) \/ GiveUp(r) \/ Heartbeat(r) \/ Abandon(r) \/ Stall(r)
    \/ LeaseTick \/ NewWindow \/ Reboot

\* Threads run, tools return, hearts beat and time passes.  Nobody has to send a request,
\* or to give up.
AdmissionSpec ==
    /\ AdmissionInit /\ [][AdmissionNext]_admissionVars
    /\ WF_admissionVars(LeaseTick)
    /\ \A r \in Requests : WF_admissionVars(Go(r)) /\ WF_admissionVars(Heartbeat(r))

-----------------------------------------------------------------------------
(* Properties.                                                              *)

\* Requests, tickets, leases and counters keep their types, and only a request that has
\* come as far has a ticket.
AdmissionTypeOK ==
    /\ stage \in [Requests -> Stages]
    /\ ticket \in [Requests -> [state : {"none", "waiting", "active"}, age : 0..LeaseTicks]]
    /\ beat \in [Requests -> 0..HeartbeatTicks]
    /\ late \subseteq Requests
    /\ rate \in [Callers -> 0..RequestsPerWindow]
    /\ \A r \in Requests : stage[r] \in {"new", "over"} => ticket[r].state = "none"

\* Across all processes, active tickets stay within the global limit and within that of
\* each principal, and waiting ones within the queue, however tickets expire, are revived
\* by a late heartbeat, or are left behind (_enqueue, _try_promote).
AdmissionLimits ==
    /\ Cardinality(InState(ticket, "active")) <= GlobalConcurrency
    /\ \A p \in Callers : Cardinality(ActiveOf(ticket, p)) <= PrincipalConcurrency
    /\ Cardinality(InState(ticket, "waiting")) <= WaitingLimit

\* What the tickets count is what runs: a request executes on an active ticket, so that
\* requests in execution stay within the same limits, unless its own heartbeat stalled.
LeasedWhileExecuting ==
    \A r \in Requests : Executing(r) /\ r \notin late => ticket[r].state = "active"

Abandoned == {r \in Requests : stage[r] = "gone" /\ ticket[r].state = "waiting"}

\* A request that can wait is admitted in the end: slots left behind come back when
\* their leases expire, although only a poll looks for them.  Excepted are a request
\* that stalled and whose own ticket may have been swept, and a queue in which a
\* request that will not poll again is waiting.
WaitersAreAdmitted ==
    \A r \in Patient :
        stage[r] = "poll" ~> stage[r] # "poll" \/ r \in late \/ Abandoned # {}
=============================================================================
