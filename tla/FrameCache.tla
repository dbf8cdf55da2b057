----------------------------- MODULE FrameCache -----------------------------
(***************************************************************************)
(* The Parquet cache of DataFrame benchmarks (core/dataframe/              *)
(* data_loader.py): one directory per benchmark and scale, with one file   *)
(* per source file and a manifest, shared by processes without a lock.     *)
(* Files and manifest are replaced atomically, one after the other.        *)
(*                                                                         *)
(* The key is the source hash: source files, dialects and write            *)
(* configuration; a cached file is the key it was converted for.  Sources  *)
(* are text files, or Parquet files that are to be sorted.  Temporary      *)
(* files are out of everyone's way.                                        *)
(***************************************************************************)
EXTENDS Integers, FiniteSets

CONSTANTS
    Preparers,             \* the calls of prepare_benchmark_data
    KeyOf,
    Keys,
    FilesOf,               \* the names of the files each key is cached in
    ParquetKeys,           \* keys whose sources have these very names
    Regenerating,          \* calls with force_regenerate
    NoFile

Names == UNION {FilesOf[k] : k \in Keys}

ASSUME CacheAssumption ==
    /\ KeyOf \in [Preparers -> Keys] /\ NoFile \notin Keys \cup Preparers
    /\ Regenerating \subseteq Preparers /\ ParquetKeys \subseteq Keys

VARIABLES
    prep,       \* what each call is doing
    parquet,    \* the key each file was converted for, or NoFile
    manifest,   \* _manifest.json
    touched     \* history: the calls, and NoFile for the manifest, under which a call
                \* with another key has written

cacheVars == <<prep, parquet, manifest, touched>>

\* files: the ones converted so far, and the cached ones that are returned; failed: those of
\* them that were listed for a conversion that failed.
Unprepared == [at |-> "new", todo |-> {}, files |-> {}, failed |-> {}]
\* whole: every entry has the name of a file of the cache; failed: entries of conversions
\* that failed.
NoManifest == [key |-> NoFile, files |-> {}, failed |-> {}, whole |-> FALSE]

CacheInit ==
    /\ prep = [p \in Preparers |-> Unprepared]
    /\ parquet = [f \in Names |-> NoFile]
    /\ manifest = NoManifest
    /\ touched = {}

PAt(p, s) == prep[p].at = s

\* Who relies on files of another key than p's.
Others(p) ==
    {q \in Preparers : KeyOf[q] # KeyOf[p] /\ ~PAt(q, "new")}
        \cup (IF manifest.key # KeyOf[p] THEN {NoFile} ELSE {})

-----------------------------------------------------------------------------

ToConvert(p) == [at |-> "convert", todo |-> FilesOf[KeyOf[p]], files |-> {}, failed |-> {}]

\* Broken variants of the definition that follows, here and below, for the checks of the
\* properties.
MatchesAny(p) == manifest.whole
Matches(p) == manifest.whole /\ manifest.key = KeyOf[p]

\* has_cached_data: the manifest is there and has the hash.
Look(p) ==
    /\ PAt(p, "new")
    /\ prep' = [prep EXCEPT ![p] =
           IF p \notin Regenerating /\ Matches(p)
           THEN [Unprepared EXCEPT !.at = "stat", !.todo = manifest.files]
           ELSE ToConvert(p)]
    /\ touched' = IF NoFile \in touched THEN touched \cup {p} ELSE touched
    /\ UNCHANGED <<parquet, manifest>>

\* It looks for the files one after the other.
Stat(p) ==
    /\ PAt(p, "stat")
    /\ \E f \in prep[p].todo :
           prep' = [prep EXCEPT ![p] = IF parquet[f] = NoFile THEN ToConvert(p)
                                       ELSE [prep[p] EXCEPT !.todo = @ \ {f}]]
    /\ UNCHANGED <<parquet, manifest, touched>>

\* get_cached_files reads the manifest again, and looks neither at its hash nor at what
\* became of a conversion.
Reread(p) ==
    /\ PAt(p, "stat") /\ prep[p].todo = {}
    /\ prep' = [prep EXCEPT ![p] =
           IF manifest = NoManifest THEN ToConvert(p)
           ELSE [prep[p] EXCEPT !.at = "served", !.files = manifest.files,
                                !.failed = manifest.failed]]
    /\ touched' = IF NoFile \in touched THEN touched \cup {p} ELSE touched
    /\ UNCHANGED <<parquet, manifest>>

\* _convert_table_files: one file is replaced.
Convert(p) ==
    /\ PAt(p, "convert")
    /\ \E f \in prep[p].todo :
           /\ parquet' = [parquet EXCEPT ![f] = KeyOf[p]]
           /\ prep' = [prep EXCEPT ![p].todo = @ \ {f}, ![p].files = @ \cup {f}]
    /\ touched' = touched \cup Others(p)
    /\ UNCHANGED manifest

\* A conversion that fails leaves the file of the cache as it is; the source file is used.
ConvertFails(p) ==
    /\ PAt(p, "convert")
    /\ \E f \in prep[p].todo : prep' = [prep EXCEPT ![p].todo = @ \ {f}]
    /\ UNCHANGED <<parquet, manifest, touched>>

\* The entry of a failed conversion has the name of the source: no cached file, or the
\* very one that was not written.
Listed(p) == IF KeyOf[p] \in ParquetKeys THEN FilesOf[KeyOf[p]] ELSE prep[p].files

Entries(p) == [key |-> KeyOf[p], files |-> Listed(p), failed |-> Listed(p) \ prep[p].files,
               whole |-> Listed(p) = FilesOf[KeyOf[p]]]

SaveManifest(p) ==
    /\ PAt(p, "convert") /\ prep[p].todo = {}
    /\ manifest' = Entries(p)
    /\ prep' = [prep EXCEPT ![p].at = "prune"]
    /\ touched' = (IF p \in touched THEN touched \cup {NoFile} ELSE touched \ {NoFile})
                      \cup (Others(p) \ {NoFile})
    /\ UNCHANGED parquet

\* Writing it fails, which ends the call; the earlier manifest stays.
SaveFails(p) ==
    /\ PAt(p, "convert") /\ prep[p].todo = {}
    /\ prep' = [prep EXCEPT ![p].at = "failed"]
    /\ UNCHANGED <<parquet, manifest, touched>>

\* _prune_cache_leaf_files: what the manifest does not list goes, whoever uses it.
Prune(p) ==
    /\ PAt(p, "prune")
    /\ parquet' = [f \in Names |-> IF f \in Listed(p) THEN parquet[f] ELSE NoFile]
    /\ prep' = [prep EXCEPT ![p].at = "served"]
    /\ UNCHANGED <<manifest, touched>>

\* The process dies.
PreparerDies(p) ==
    /\ prep[p].at \in {"stat", "convert", "prune"}
    /\ prep' = [prep EXCEPT ![p].at = "failed"]
    /\ UNCHANGED <<parquet, manifest, touched>>

\* clear_cache, of any process, removes files and manifest in no particular order.
Cleared ==
    /\ \/ \E f \in Names : /\ parquet[f] # NoFile /\ parquet' = [parquet EXCEPT ![f] = NoFile]
                          /\ UNCHANGED <<manifest, touched>>
       \/ /\ manifest # NoManifest /\ manifest' = NoManifest
          /\ touched' = touched \ {NoFile} /\ UNCHANGED parquet
    /\ UNCHANGED prep

PreparerStep(p) ==
    \/ Look(p) \/ Stat(p) \/ Reread(p) \/ Convert(p) \/ ConvertFails(p)
    \/ SaveManifest(p) \/ SaveFails(p) \/ Prune(p) \/ PreparerDies(p)

CacheNext == Cleared \/ \E p \in Preparers : PreparerStep(p)
CacheSpec == CacheInit /\ [][CacheNext]_cacheVars

-----------------------------------------------------------------------------
(* Properties.                                                              *)

Genuine(files, k) == \A f \in files : parquet[f] \in {k, NoFile}
Undisturbed(p) == PAt(p, "served") /\ p \notin touched

\* The manifest is written last, so that what it lists as converted is of its hash, and files
\* returned are those asked for, whichever conversions fail or are cut short; they may be
\* gone (cleared, or pruned by a call that failed to convert them).  Excepted is what a call
\* with another hash has written over meanwhile, before it saved a manifest of its own, or
\* without ever doing so; and what is listed although its conversion failed.
CacheIsGenuine ==
    /\ NoFile \notin touched => Genuine(manifest.files \ manifest.failed, manifest.key)
    /\ \A p \in Preparers :
           Undisturbed(p) => Genuine(prep[p].files \ prep[p].failed, KeyOf[p])

\* What the hash is for: whoever finds its own in the manifest is served files made for it
\* (has_cached_data).
ServedForItsHash == \A p \in Preparers : Undisturbed(p) => Genuine(prep[p].files, KeyOf[p])
=============================================================================
