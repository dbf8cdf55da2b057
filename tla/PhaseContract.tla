--------------------------- MODULE PhaseContract ---------------------------
(***************************************************************************)
(* What a throughput phase promises to those who use its connection after  *)
(* it, without threads, queues, futures or callers that wait: a stream     *)
(* taken on waits, runs and ends, or is barred before it runs; when the    *)
(* phase is over each has been recorded, barred or named, none begins any  *)
(* more, and whoever is named first stays so until it has ended; and the   *)
(* phase is left behind only when none runs.  A phase that was broken off  *)
(* promises no more than that nobody builds on it.                         *)
(***************************************************************************)
CONSTANT Streams

VARIABLES
    life,       \* where each stream stands
    recorded,   \* the streams whose outcome is in the result
    cancelled,  \* those that were barred
    named,      \* those that the result names as still running
    stage,      \* of the phase
    left        \* whether something happens that must not meet a stream

vars == <<life, recorded, cancelled, named, stage, left>>

Taken == {s \in Streams : life[s] # "new"}
Running == {s \in Streams : life[s] = "running"}
Told == recorded \cup cancelled \cup named

Init ==
    /\ life = [s \in Streams |-> "new"]
    /\ recorded = {} /\ cancelled = {} /\ named = {}
    /\ stage = "open" /\ left = FALSE

Move(s, from, to) == life[s] = from /\ life' = [life EXCEPT ![s] = to]

\* A stream may have run already when it is taken on.
TakeOn(s) ==
    /\ stage = "open"
    /\ \E to \in {"waiting", "running", "ended", "dead"} : Move(s, "new", to)
    /\ UNCHANGED <<recorded, cancelled, named, stage, left>>

Begin(s) ==
    /\ stage = "open" /\ Move(s, "waiting", "running")
    /\ UNCHANGED <<recorded, cancelled, named, stage, left>>

End(s) ==
    /\ Move(s, "running", "ended") \/ Move(s, "running", "dead")
    /\ UNCHANGED <<recorded, cancelled, named, stage, left>>

Record(s) ==
    /\ stage = "open" /\ life[s] = "ended" /\ s \notin Told
    /\ recorded' = recorded \cup {s}
    /\ UNCHANGED <<life, cancelled, named, stage, left>>

Bar(s) ==
    /\ stage = "open" /\ Move(s, "waiting", "barred")
    /\ cancelled' = cancelled \cup {s}
    /\ UNCHANGED <<recorded, named, stage, left>>

Name(s) ==
    /\ stage = "open" /\ life[s] = "running" /\ s \notin Told
    /\ named' = named \cup {s}
    /\ UNCHANGED <<life, recorded, cancelled, stage, left>>

\* Every stream has been told of, but one whose exception the phase raises.
Over ==
    /\ stage = "open" /\ stage' = "over"
    /\ \A s \in Taken : s \in Told \/ life[s] = "dead"
    /\ UNCHANGED <<life, recorded, cancelled, named, left>>

\* Who has ended may be named for a while, or again.
NameAgain ==
    /\ stage = "over"
    /\ named' \in SUBSET (Taken \ (recorded \cup cancelled)) /\ Running \subseteq named'
    /\ UNCHANGED <<life, recorded, cancelled, stage, left>>

Leave ==
    /\ stage = "over" /\ Running = {} /\ left' \in BOOLEAN
    /\ UNCHANGED <<life, recorded, cancelled, named, stage>>

BreakOff == stage' = "broken" /\ ~left'

Next ==
    \/ \E s \in Streams :
          TakeOn(s) \/ Begin(s) \/ End(s) \/ Record(s) \/ Bar(s) \/ Name(s)
    \/ Over \/ NameAgain \/ Leave \/ BreakOff

Spec == Init /\ [][Next]_vars
=============================================================================
