--------------------------- MODULE ProjectScanner ---------------------------
(***************************************************************************)
(* scan_project (scan_c_project.py): the database of a project, made from  *)
(* its files or taken from a cache.                                        *)
(*                                                                         *)
(* One project and hence one cache file: its name is a hash of the names   *)
(* of the files, and of nothing else.  It is overwritten in place, and     *)
(* what an interrupted program leaves of it may be any prefix.  yaml.dump  *)
(* sorts the keys: 'files' is written before 'functions'.                  *)
(***************************************************************************)
EXTENDS CSource, Sequences, Naturals

CONSTANTS
    Failed,      \* the entry {} of a file get_functions raised ValueError for
    CutOff     \* names a dump that was cut off may have written as functions

ASSUME ScannerAssumption ==
    /\ Failed \notin Versions
    /\ CutOff \subseteq SUBSET Names

VARIABLES
    disk,        \* version each file is in
    cache,       \* the cache file
    stopOnError, \* the argument stop_on_error
    scan,        \* where scan_project is
    db,          \* project_db
    hit          \* it was taken from the cache

scanVars == <<disk, cache, stopOnError, scan, db, hit>>

\* A database gives the version each file was read in, and the names listed
\* under 'functions'; no names stand for a database without that key.
NoDb == [files |-> [f \in {} |-> Failed], functions |-> {}]

\* The functions a database knows of a file.
Known(d, f) ==
    IF f \in DOMAIN d.files /\ d.files[f] # Failed
      THEN FunctionsOf(Source[<<f, d.files[f]>>])
      ELSE {}

\* The text project_db has of a file.
Sig(f) == Source[<<f, db.files[f]>>]

ScanInit ==
    /\ disk \in [Files -> Versions]
    /\ cache = NoDb
    /\ stopOnError = FALSE
    /\ scan = "idle"
    /\ db = NoDb
    /\ hit = FALSE

-----------------------------------------------------------------------------
\* A call with use_cache and save_to_cache, as create_work makes it.
Scan(stop) ==
    /\ scan = "idle"
    /\ scan' = "lookup"
    /\ stopOnError' = stop
    /\ UNCHANGED <<disk, cache, db, hit>>

\* Mutated form of Sane: whatever can be read will do.
Readable == DOMAIN cache.files # {}

\* The sanity check: the cache is of the files asked for.
Sane == DOMAIN cache.files = Files

Hit ==
    /\ scan = "lookup"
    /\ Sane
    /\ scan' = "answered"
    /\ db' = cache
    /\ hit' = TRUE
    /\ UNCHANGED <<disk, cache, stopOnError>>

\* There is no cache, it is of other files, or it cannot be read.
Miss ==
    /\ scan = "lookup"
    /\ ~Sane
    /\ scan' = "reading"
    /\ UNCHANGED <<disk, cache, stopOnError, db, hit>>

Text(f) == Source[<<f, disk[f]>>]

\* stop_on_error and has_errors
GivesUp == stopOnError /\ \E f \in Files : Outcome(Text(f)) = "ValueError"

\* The files of the project as they are.
Signatures ==
    [f \in Files |-> IF Outcome(Text(f)) = "signature" THEN disk[f] ELSE Failed]

\* functions_yaml
AllFunctions(signatures) ==
    UNION {FunctionsOf(Source[<<f, signatures[f]>>]) :
             f \in {g \in Files : signatures[g] # Failed}}

\* Any other exception than ValueError, of any file, is not caught.
ReadFiles ==
    /\ scan = "reading"
    /\ IF GivesUp \/ \E f \in Files : Outcome(Text(f)) = "raised"
         THEN /\ scan' = "raised"
              /\ UNCHANGED <<db, hit>>
         ELSE /\ scan' = "open"
              /\ db' = [files |-> Signatures, functions |-> AllFunctions(Signatures)]
              /\ hit' = FALSE
    /\ UNCHANGED <<disk, cache, stopOnError>>

\* open(cache_filename, 'w') truncates what was there.
OpenCache ==
    /\ scan = "open"
    /\ scan' = "dump"
    /\ cache' = NoDb
    /\ UNCHANGED <<disk, stopOnError, db, hit>>

\* yaml.dump writes: some of the files, all of them, some of the functions.
DumpPart ==
    /\ scan = "dump"
    /\ \/ \E written \in SUBSET Files :
            /\ DOMAIN cache.files \subseteq written
            /\ DOMAIN cache.files # written
            /\ cache' = [NoDb EXCEPT !.files = [f \in written |-> db.files[f]]]
       \/ \E names \in CutOff :
            /\ DOMAIN cache.files = Files
            /\ cache.functions = {}
            /\ db.functions \cap names # {}
            /\ cache' = [cache EXCEPT !.functions = db.functions \cap names]
    /\ UNCHANGED <<disk, stopOnError, scan, db, hit>>

DumpEnd ==
    /\ scan = "dump"
    /\ cache' = db
    /\ scan' = "answered"
    /\ UNCHANGED <<disk, stopOnError, db, hit>>

\* The program ends or is interrupted, wherever it is.
ScanOver ==
    /\ scan # "idle"
    /\ scan' = "idle"
    /\ db' = NoDb
    /\ hit' = FALSE
    /\ UNCHANGED <<disk, cache, stopOnError>>

\* Between two runs somebody edits a file, or gives other flags.
Edit(f) ==
    /\ scan = "idle"
    /\ \E v \in Versions \ {disk[f]} : disk' = [disk EXCEPT ![f] = v]
    /\ UNCHANGED <<cache, stopOnError, scan, db, hit>>

ScanStep == Hit \/ Miss \/ ReadFiles \/ OpenCache \/ DumpPart \/ DumpEnd

ScanNext ==
    \/ \E stop \in BOOLEAN : Scan(stop)
    \/ ScanStep
    \/ ScanOver
    \/ \E f \in Files : Edit(f)

ScanSpec == ScanInit /\ [][ScanNext]_scanVars

-----------------------------------------------------------------------------
(* Properties.                                                             *)

Database ==
    [files : UNION {[S -> Versions \cup {Failed}] : S \in SUBSET Files},
     functions : SUBSET Names]

\* Type invariant.
ScanTypeOK ==
    /\ disk \in [Files -> Versions]
    /\ cache \in Database
    /\ stopOnError \in BOOLEAN
    /\ scan \in {"idle", "lookup", "reading", "open", "dump", "answered", "raised"}
    /\ db \in Database
    /\ hit \in BOOLEAN

\* An answer covers every file of the project, though the run before may have
\* been stopped while it wrote the cache, and it knows no file the scanner trips
\* over.  What it lists as functions are functions of these files; if any is
\* missing, the cache was cut off; if a file is not as it is on disk, the cache
\* is older; if a file has errors though stop_on_error was given, they come from
\* the cache of a run without it.
SaneAnswer ==
    scan = "answered" =>
        /\ DOMAIN db.files = Files
        /\ \A f \in Files : db.files[f] # Failed =>
                              Outcome(Sig(f)) = "signature"
        /\ db.functions \subseteq AllFunctions(db.files)
        /\ db.functions # AllFunctions(db.files) => hit
        /\ ~hit => db.files = Signatures
        /\ stopOnError /\ ~hit => \A f \in Files : db.files[f] # Failed
=============================================================================
