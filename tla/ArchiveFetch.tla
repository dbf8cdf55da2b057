---------------------------- MODULE ArchiveFetch ----------------------------
(***************************************************************************)
(* How processes obtain one dataset: core/data_fetch (verify, lock,        *)
(* download with resume, check, rename) and the extraction of the archive  *)
(* by JoinOrderBenchmark, which is not under the lock.                     *)
(*                                                                         *)
(* An archive is a sequence of pieces, each of the edition of the archive  *)
(* it was sent from; the manifest pins the edition "pinned".  The tables   *)
(* are verified one after the other; each takes a step, and so does the    *)
(* hash of the archive.  The unlinks of a forced start are one step.       *)
(***************************************************************************)
EXTENDS Integers, Sequences, FiniteSets

CONSTANTS
    Fetchers, NoFetcher,
    Forced,            \* fetchers started with force_regenerate
    Tables,
    Pieces,            \* length of the archive
    MaxTries           \* max_retries of download

ASSUME FetchAssumption ==
    /\ NoFetcher \notin Fetchers /\ Forced \subseteq Fetchers
    /\ Tables # {}
    /\ Pieces \in Nat \ {0} /\ MaxTries \in Nat \ {0}

Editions == {"pinned", "other"}
Absent == <<>>
Pinned == [i \in 1..Pieces |-> "pinned"]

VARIABLES
    fetcher,    \* what each process is doing
    archive,    \* the file under its final name
    table,      \* the extracted files
    flock,      \* holder of the lock on <archive>.lock
    edition     \* what the server sends

fetchVars == <<fetcher, archive, table, flock, edition>>

\* at: the step; look and bad: the tables still to be looked at, and what the others are
\* like; again: in the second fetch_data, after the extraction; tries and part: attempts
\* begun and the .part file; todo, open and spoilt: the tables still to be extracted, the
\* one being written, and whether the file under that name has been truncated or unlinked
\* meanwhile; from: the archive opened for it; lacked is history: whether some table has
\* been missing since it took the lock.
Idle == [at |-> "start", look |-> Tables, bad |-> {}, again |-> FALSE, tries |-> 0,
         part |-> Absent, todo |-> {}, open |-> {}, spoilt |-> FALSE, from |-> Absent,
         lacked |-> FALSE]

Downloading == {"request", "body", "failed", "check"}
Locked == Downloading \cup {"locked", "hash", "recheck"}
Ends == {"data", "checksum", "undelivered", "unextracted", "dead"}
Steps == Locked \cup Ends \cup {"start", "verify", "lock", "unpack", "write"}

FAt(f, s) == fetcher[f].at = s
FGoto(f, s) == fetcher' = [fetcher EXCEPT ![f].at = s]

FetchInit ==
    /\ fetcher = [f \in Fetchers |-> Idle]
    /\ archive = Absent
    /\ table = [t \in Tables |-> "missing"]
    /\ flock = NoFetcher
    /\ edition = "pinned"

-----------------------------------------------------------------------------
(* fetch_data.  Definitions no action uses are broken variants of the one   *)
(* that follows, for the checks of the properties.                          *)

\* generate_data; with force_regenerate it unlinks tables and archive first, whoever
\* uses them.
Begin(f) ==
    /\ FAt(f, "start")
    /\ IF f \in Forced
       THEN /\ archive' = Absent /\ table' = [t \in Tables |-> "missing"]
            /\ fetcher' = [g \in Fetchers |->
                    IF g = f THEN [Idle EXCEPT !.at = "verify"]
                    ELSE [fetcher[g] EXCEPT
                              !.spoilt = fetcher[g].spoilt \/ fetcher[g].open # {},
                              !.lacked = fetcher[g].lacked \/ fetcher[g].at \in Locked]]
       ELSE FGoto(f, "verify") /\ UNCHANGED <<archive, table>>
    /\ UNCHANGED <<flock, edition>>

LockKept(f) == UNCHANGED flock
LeaveLocked(f) == flock' = IF flock = f /\ fetcher'[f].at \notin Locked THEN NoFetcher ELSE flock

\* ExtractionRequiredError; after the extraction nobody catches it.
ToExtract(f) == IF fetcher[f].again THEN "unextracted" ELSE "unpack"

\* _verify_table_files: a table is not there, or its hash is another.
Found(f, t) ==
    fetcher[f].bad \cup (IF table[t] = "missing" THEN {"missing"}
                         ELSE IF table[t] = "partial" THEN {"wrong"} ELSE {})

\* What fetch_data makes of it: a file is wrong, the data is there, or it goes on.
Verdict(f, bad) ==
    IF "wrong" \in bad THEN "checksum"
    ELSE IF bad = {} THEN "data"
    ELSE CASE FAt(f, "verify") -> "lock"
           [] FAt(f, "locked") -> "hash"
           [] FAt(f, "recheck") -> ToExtract(f)

\* The tables are verified before the lock is taken, under it, and after a download.
\* What was seen of the first may be history when the last one is hashed.
LookAt(f, t) ==
    /\ fetcher[f].at \in {"verify", "locked", "recheck"} /\ t \in fetcher[f].look
    /\ LET x == fetcher[f]  bad == Found(f, t) IN
       fetcher' = [fetcher EXCEPT ![f] =
           IF x.look = {t} THEN [x EXCEPT !.at = Verdict(f, bad), !.look = Tables, !.bad = {}]
           ELSE [x EXCEPT !.look = x.look \ {t}, !.bad = bad]]
    /\ LeaveLocked(f)
    /\ UNCHANGED <<archive, table, edition>>

SomeMissing == \E t \in Tables : table[t] = "missing"

AcquireUnchecked(f) ==
    /\ FAt(f, "lock") /\ flock = NoFetcher
    /\ flock' = f
    /\ fetcher' = [fetcher EXCEPT ![f].at = "hash", ![f].lacked = SomeMissing]
    /\ UNCHANGED <<archive, table, edition>>

Acquire(f) ==
    /\ FAt(f, "lock") /\ flock = NoFetcher
    /\ flock' = f
    /\ fetcher' = [fetcher EXCEPT ![f].at = "locked", ![f].lacked = SomeMissing]
    /\ UNCHANGED <<archive, table, edition>>

NeverRight == FALSE
ArchiveIsRight == archive = Pinned

\* Only then, with the verdict on the tables as it was, the archive is hashed.
Hash(f) ==
    /\ FAt(f, "hash")
    /\ FGoto(f, IF ArchiveIsRight THEN ToExtract(f) ELSE "request")
    /\ LeaveLocked(f)
    /\ UNCHANGED <<archive, table, edition>>

-----------------------------------------------------------------------------
(* download.                                                                *)

Part(f) == fetcher[f].part

\* The answer to a request: 200 starts over, 206 goes on where the part ends, which a
\* server cannot do past the end (416); any other answer fails the attempt.
Respond(f) ==
    /\ FAt(f, "request")
    /\ \/ fetcher' = [fetcher EXCEPT ![f].at = "body", ![f].part = Absent]
       \/ Part(f) # Absent /\ Len(Part(f)) < Pieces /\ FGoto(f, "body")
       \/ FGoto(f, "failed")
    /\ UNCHANGED <<archive, table, flock, edition>>

Receive(f) ==
    /\ FAt(f, "body") /\ Len(Part(f)) < Pieces
    /\ fetcher' = [fetcher EXCEPT ![f].part = Append(@, edition)]
    /\ UNCHANGED <<archive, table, flock, edition>>

\* The body ends; one cut short may go unnoticed.
BodyEnds(f) ==
    /\ FAt(f, "body")
    /\ FGoto(f, "check")
    /\ UNCHANGED <<archive, table, flock, edition>>

Drop(f) ==
    /\ FAt(f, "body")
    /\ FGoto(f, "failed")
    /\ UNCHANGED <<archive, table, flock, edition>>

\* The last attempt removes the part and raises, which ends the lock.
Retry(f) ==
    /\ FAt(f, "failed")
    /\ LET x == fetcher[f]  n == x.tries + 1 IN
       fetcher' = [fetcher EXCEPT ![f] = IF n < MaxTries
                                         THEN [x EXCEPT !.at = "request", !.tries = n]
                                         ELSE [x EXCEPT !.at = "undelivered", !.part = Absent]]
    /\ LeaveLocked(f)
    /\ UNCHANGED <<archive, table, edition>>

PartIsWhole(f) == Len(Part(f)) = Pieces
PartIsRight(f) == Part(f) = Pinned

\* The hash decides between the rename to the final name and the one to .rejected.
Install(f) ==
    /\ FAt(f, "check")
    /\ IF PartIsRight(f)
       THEN archive' = Part(f) /\ fetcher' = [fetcher EXCEPT ![f].at = "recheck", ![f].part = Absent]
       ELSE /\ fetcher' = [fetcher EXCEPT ![f].at = "checksum", ![f].part = Absent]
            /\ UNCHANGED archive
    /\ LeaveLocked(f)
    /\ UNCHANGED <<table, edition>>

-----------------------------------------------------------------------------
(* _extract_tar_zst and the rest.                                           *)

\* The archive is opened, which a forced process may have unlinked.
OpenArchive(f) ==
    /\ FAt(f, "unpack")
    /\ IF archive = Absent THEN FGoto(f, "unextracted")
       ELSE fetcher' = [fetcher EXCEPT ![f].at = "write", ![f].todo = Tables, ![f].from = archive]
    /\ UNCHANGED <<archive, table, flock, edition>>

Closed(f) == FAt(f, "write") /\ fetcher[f].open = {}

\* Opening a table for writing truncates it, whoever writes or has returned it.
OpenTable(f, t) ==
    /\ Closed(f) /\ t \in fetcher[f].todo
    /\ table' = [table EXCEPT ![t] = "partial"]
    /\ fetcher' = [g \in Fetchers |->
           IF g = f THEN [fetcher[f] EXCEPT !.todo = @ \ {t}, !.open = {t}, !.spoilt = FALSE]
           ELSE [fetcher[g] EXCEPT !.spoilt = @ \/ t \in fetcher[g].open]]
    /\ UNCHANGED <<archive, flock, edition>>

\* Writers of one file write the same bytes at the same offsets, so that it is right
\* when the one that truncated it last is done, if the archive was.
CloseTable(f) ==
    /\ FAt(f, "write") /\ fetcher[f].open # {}
    /\ table' = [t \in Tables |-> IF /\ t \in fetcher[f].open /\ ~fetcher[f].spoilt
                                     /\ fetcher[f].from = Pinned
                                  THEN "right" ELSE table[t]]
    /\ fetcher' = [fetcher EXCEPT ![f].open = {}, ![f].spoilt = FALSE]
    /\ UNCHANGED <<archive, flock, edition>>

\* The second fetch_data.
FetchAgain(f) ==
    /\ Closed(f) /\ fetcher[f].todo = {}
    /\ fetcher' = [fetcher EXCEPT ![f].at = "verify", ![f].again = TRUE, ![f].tries = 0,
                                  ![f].from = Absent, ![f].lacked = FALSE]
    /\ UNCHANGED <<archive, table, flock, edition>>

\* The process dies: the system frees its lock, the files stay as they are.
FetcherDies(f) ==
    /\ ~FAt(f, "start") /\ fetcher[f].at \notin Ends
    /\ FGoto(f, "dead")
    /\ LeaveLocked(f)
    /\ UNCHANGED <<archive, table, edition>>

\* Another file is published under the URL.
Republish ==
    /\ edition = "pinned" /\ edition' = "other"
    /\ UNCHANGED <<fetcher, archive, table, flock>>

FetchStep(f) ==
    \/ Acquire(f) \/ Hash(f)
    \/ Respond(f) \/ Receive(f) \/ BodyEnds(f) \/ Drop(f) \/ Retry(f) \/ Install(f)
    \/ OpenArchive(f) \/ CloseTable(f) \/ FetchAgain(f)
    \/ \E t \in Tables : LookAt(f, t) \/ OpenTable(f, t)

FetchNext ==
    \/ \E f \in Fetchers : Begin(f) \/ FetchStep(f) \/ FetcherDies(f)
    \/ Republish

\* Processes run on; a request ends, if only by its timeout of 60 seconds.
FetchSpec ==
    /\ FetchInit /\ [][FetchNext]_fetchVars
    /\ \A f \in Fetchers : WF_fetchVars(FetchStep(f))

-----------------------------------------------------------------------------
(* Properties.                                                              *)

\* A download runs under the lock, so alone, and while no archive is in place; the one it
\* installs is the pinned one, from whatever answers, ranges and editions its part was
\* put together (fetch_data, download).
DownloadedOnce ==
    /\ archive \in {Absent, Pinned}
    /\ \A f \in Fetchers : fetcher[f].at \in Downloading => flock = f /\ archive = Absent

Extracting == {f \in Fetchers : fetcher[f].at \in {"unpack", "write"}}

\* A process that finds all tables in place when it has got the lock, whatever it has waited
\* for, does not write them again; only if some table was missing then, or went missing while
\* it held the lock, it may, though the tables have been completed by then: verdict, hash of
\* the archive and extraction are as many steps (fetch_data).
ExtractionIsNeeded == \A f \in Extracting : fetcher[f].lacked

\* A table with a wrong content is being written, by the process that truncated it last,
\* or that process died doing so: nothing else makes a verification fail, although
\* extraction runs outside the lock and over files already returned to others.
WrongTableHasWriter ==
    \A t \in Tables : table[t] = "partial" =>
        \E f \in Fetchers : t \in fetcher[f].open /\ ~fetcher[f].spoilt

\* Whatever the server answers and whoever dies holding the lock, once some process asks
\* for the data there comes a time when all that have asked have their answer.
FetchEnds ==
    (\E f \in Fetchers : FAt(f, "verify")) ~>
        (\A f \in Fetchers : fetcher[f].at \in Ends \cup {"start"})
=============================================================================
