-------------------------------- MODULE Restore --------------------------------
(***************************************************************************)
(* Replacing an instance by an archive (src/internal/backup/restore.go,    *)
(* recovery.go): the archive's uploads are staged beside the upload        *)
(* directory, the rows are replaced in one transaction, and the staged     *)
(* directory is then renamed into place.  The names of the staging         *)
(* directory and of the one the old uploads are moved to are fixed, so all *)
(* restores share them, whatever process they run in.                      *)
(*                                                                         *)
(* Each action is one step of a restore by process p, as far apart as      *)
(* another process or a crash can come between.  RestoreJobs says who runs *)
(* them.  Deleting a directory is one step; so are the look at the three   *)
(* directories and the repair in recovery.                                 *)
(***************************************************************************)
EXTENDS Integers, SequencesExt

CONSTANTS
    Procs,        \* whatever can run a restore
    Archives,     \* archive files
    Before,       \* what the instance holds before any restore
    Sound,        \* the archives that pass validation here
    UploadsOf,    \* the upload files of each archive, and of Before
    NoDir,        \* a directory that does not exist
    DumpDir,      \* where each process has its safety dumps written
    Keep,         \* BACKUP_RETENTION_COUNT
    MaxWrites     \* bound on ordinary writes

Files == UNION {UploadsOf[a] : a \in Archives \cup {Before}}

ASSUME RestoreAssumption ==
    /\ Before \notin Archives
    /\ Sound \subseteq Archives
    /\ DOMAIN UploadsOf = Archives \cup {Before}
    /\ \A S \in SUBSET Files : NoDir # S
    /\ DumpDir \in [Procs -> {"backup", "auto"}]
    /\ Keep \in Int \ {0}
    /\ MaxWrites \in Nat

Directory == (SUBSET Files) \cup {NoDir}
Contents(dir) == IF dir = NoDir THEN {} ELSE dir

VARIABLES
    rows,      \* the database: whose rows, and the last ordinary write to them
    dumps,     \* the safety dumps in BACKUP_DIR and in AUTO_RESTORE_DIR, by their names
    live,      \* the upload directory
    staging,   \* its sibling .restore
    old,       \* its sibling .old
    op         \* what each process is doing

\* What the safety dumps hold.
Held == Range(dumps["backup"]) \cup Range(dumps["auto"])

instance == <<rows, live, staging, old>>
restoreVars == <<rows, dumps, live, staging, old, op>>

\* archive: the one being restored; todo: its uploads not yet extracted; moved:
\* the live directory has been moved aside by this restore.
Idle == [step |-> "idle", archive |-> Before, todo |-> {}, moved |-> FALSE]

At(p, step) == op[p].step = step
Goes(p, step) == op' = [op EXCEPT ![p].step = step]

\* From the check of the staged uploads to the end of the swap.
Applying(p) == op[p].step \in {"dump", "tx", "clear", "aside", "place", "tidy"}

\* The rows are replaced and the uploads are not.
Torn(p) == op[p].step \in {"clear", "aside", "place"}

-------------------------------------------------------------------------------
(* Validate.                                                               *)

\* A wrong secret is found before anything is staged.
RefuseSecret(p) ==
    /\ At(p, "prepare")
    /\ op[p].archive \notin Sound
    /\ Goes(p, "refused")
    /\ UNCHANGED <<instance, dumps>>

\* A leftover is cleared first, whoever left it.
PrepareStaging(p) ==
    /\ At(p, "prepare")
    /\ staging' = {}
    /\ op' = [op EXCEPT ![p].step = "scan", ![p].todo = UploadsOf[op[p].archive]]
    /\ UNCHANGED <<rows, dumps, live, old>>

\* Files are written under the fixed path, which is made again if need be, and
\* never over another file.
ExtractUpload(p) ==
    /\ At(p, "scan")
    /\ \E f \in op[p].todo \ Contents(staging) :
        /\ staging' = Contents(staging) \cup {f}
        /\ op' = [op EXCEPT ![p].todo = @ \ {f}]
    /\ UNCHANGED <<rows, dumps, live, old>>

\* A wrong schema, a damaged archive, or a file in the way.
Reject(p) ==
    /\ At(p, "scan")
    /\ \/ op[p].archive \notin Sound
       \/ op[p].todo \cap Contents(staging) # {}
    /\ staging' = NoDir
    /\ Goes(p, "refused")
    /\ UNCHANGED <<rows, dumps, live, old>>

Validated(p) ==
    /\ At(p, "scan")
    /\ op[p].archive \in Sound /\ op[p].todo = {}
    /\ Goes(p, "valid")
    /\ UNCHANGED <<rows, dumps, live, staging, old>>

\* The staging directory is deleted by its name, whatever it holds by now.
Discard == staging' = NoDir

-------------------------------------------------------------------------------
(* Apply.                                                                  *)

\* Mutant: what is staged is taken to be what was validated.
CheckStagingExists(p) ==
    /\ At(p, "check")
    /\ Goes(p, IF staging # NoDir THEN "dump" ELSE "failed")
    /\ UNCHANGED <<rows, dumps, live, staging, old>>

CheckStaging(p) ==
    /\ At(p, "check")
    /\ Goes(p, IF staging = UploadsOf[op[p].archive] THEN "dump" ELSE "failed")
    /\ UNCHANGED <<rows, dumps, live, staging, old>>

\* A name tells the second: a dump of the same second as the last takes its place.
Saves(p, copy) ==
    LET made == dumps[DumpDir[p]]
    IN  \E n \in {Len(made), Len(made) + 1} \ {0} :
            dumps' = [dumps EXCEPT ![DumpDir[p]] = Append(SubSeq(made, 1, n - 1), copy)]

\* A directory that does not exist is dumped as one without files.
Copy == [rows |-> rows, uploads |-> Contents(live)]

\* Mutant: the restore goes on when the dump fails.
SafetyDumpBestEffort(p) ==
    /\ At(p, "dump")
    /\ Saves(p, Copy) \/ UNCHANGED dumps
    /\ Goes(p, "tx")
    /\ UNCHANGED instance

\* Mutant: the dump has no uploads.
SafetyDumpRowsOnly(p) ==
    /\ At(p, "dump")
    /\ Saves(p, [Copy EXCEPT !.uploads = {}])
    /\ Goes(p, "tx")
    /\ UNCHANGED instance

SafetyDump(p) ==
    /\ At(p, "dump")
    /\ Saves(p, Copy)
    /\ Goes(p, "tx")
    /\ UNCHANGED instance

DumpFails(p) == At(p, "dump") /\ Goes(p, "failed") /\ UNCHANGED <<instance, dumps>>

\* One transaction: all rows are replaced, or it is rolled back.
ApplyTx(p) ==
    /\ At(p, "tx")
    /\ rows' = [from |-> op[p].archive, write |-> 0]
    /\ Goes(p, "clear")
    /\ UNCHANGED <<dumps, live, staging, old>>

Rollback(p) == At(p, "tx") /\ Goes(p, "failed") /\ UNCHANGED <<instance, dumps>>

\* swapUploads.
ClearOld(p) ==
    /\ At(p, "clear")
    /\ old' = NoDir
    /\ Goes(p, "aside")
    /\ UNCHANGED <<rows, dumps, live, staging>>

\* os.Rename refuses a target that is an existing directory.
MoveAside(p) ==
    /\ At(p, "aside")
    /\ LET moves == live # NoDir /\ old = NoDir
       IN  /\ old' = IF moves THEN live ELSE old
           /\ live' = IF moves THEN NoDir ELSE live
           /\ op' = [op EXCEPT
                ![p].step = IF live # NoDir /\ ~ moves THEN "failed" ELSE "place",
                ![p].moved = moves]
    /\ UNCHANGED <<rows, dumps, staging>>

PlaceStaged(p) ==
    /\ At(p, "place")
    /\ staging # NoDir /\ live = NoDir
    /\ live' = staging
    /\ staging' = NoDir
    /\ Goes(p, "tidy")
    /\ UNCHANGED <<rows, dumps, old>>

\* Nothing is staged any more, or something is in place already: the original
\* is put back if this restore moved it and it is still there.
PutBack(p) ==
    /\ At(p, "place")
    /\ staging = NoDir \/ live # NoDir
    /\ LET back == op[p].moved /\ old # NoDir /\ live = NoDir
       IN  /\ live' = IF back THEN old ELSE live
           /\ old' = IF back THEN NoDir ELSE old
    /\ Goes(p, "failed")
    /\ UNCHANGED <<rows, dumps, staging>>

RemoveOld(p) ==
    /\ At(p, "tidy")
    /\ old' = NoDir
    /\ Goes(p, "done")
    /\ UNCHANGED <<rows, dumps, live, staging>>

Validates(p) ==
    \/ RefuseSecret(p) \/ PrepareStaging(p) \/ ExtractUpload(p)
    \/ Reject(p) \/ Validated(p)

Applies(p) ==
    \/ CheckStaging(p) \/ SafetyDump(p) \/ ApplyTx(p)
    \/ ClearOld(p) \/ MoveAside(p) \/ PlaceStaged(p) \/ PutBack(p) \/ RemoveOld(p)

-------------------------------------------------------------------------------
(* RecoverIncompleteSwap.                                                  *)

SwapWasCut == old # NoDir /\ live = NoDir

\* Whether the repair ends in an error is left to the caller, who asks
\* SwapWasCut.
RecoverIncompleteSwap ==
    /\ live' = IF SwapWasCut THEN old ELSE live
    /\ old' = NoDir
    /\ staging' = IF old = NoDir \/ SwapWasCut THEN NoDir ELSE staging

-------------------------------------------------------------------------------

RestoreInit ==
    /\ rows = [from |-> Before, write |-> 0]
    /\ dumps = [dir \in {"backup", "auto"} |-> <<>>]
    /\ live = UploadsOf[Before]
    /\ staging = NoDir
    /\ old = NoDir
    /\ op = [p \in Procs |-> Idle]
===============================================================================
