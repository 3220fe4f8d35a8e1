------------------------------ MODULE RestoreJobs ------------------------------
(***************************************************************************)
(* Who restores: administrators on the backup page, each upload pending    *)
(* until it is confirmed and then a job in the background                  *)
(* (src/internal/backup/jobs.go, httpapp/handlers_backup.go); the server   *)
(* itself when it starts (backup/autorestore.go); and the command line, a  *)
(* process of its own on the same volume (cmd/gosplit/backup_cli.go).      *)
(* The server and the command line may stop at any moment.                 *)
(*                                                                         *)
(* A process of Web is one upload from its arrival to the end of its job;  *)
(* the step "pending" is its entry in the tracker.                         *)
(***************************************************************************)
EXTENDS Restore, FiniteSets

CONSTANTS
    Web,          \* uploads on the backup page
    Cli, Boot,    \* the command line, the start of the server
    AutoDir,      \* the archives in AUTO_RESTORE_DIR
    MaxStarts,    \* bound on uploads and commands
    MaxFaults     \* bound on stops and failures

ASSUME JobsAssumption ==
    /\ Procs = Web \cup {Cli, Boot}
    /\ Cli # Boot /\ {Cli, Boot} \cap Web = {}
    /\ DumpDir = [p \in Procs |-> IF p = Boot THEN "auto" ELSE "backup"]
    /\ AutoDir \subseteq Archives /\ Cardinality(AutoDir) <= 1
    /\ MaxStarts \in Nat /\ MaxFaults \in Nat

VARIABLES
    server,              \* the server process
    restoreInProgress,   \* its flag, read by the maintenance gate
    marker,              \* .gosplit-restored
    autoLock,            \* the lock auto-restore, held or run out
    writer,              \* an ordinary request, and the writes so far
    starts,              \* uploads and commands so far
    faults,              \* stops and failures so far
    events               \* history: what went wrong

jobVars == <<server, restoreInProgress, marker, autoLock, writer, starts, faults>>
jobsVars == <<restoreVars, jobVars, events>>

InServer == Web \cup {Boot}

\* A job from its first statement to its last.
InJob(p) ==
    /\ p \in Web
    /\ Applying(p) \/ Torn(p) \/ op[p].step \in {"check", "failed", "done"}

\* In the middle of an upload, a job or a command.
Busy(p) == op[p].step \notin {"idle", "pending"}

\* Works on directories that were looked at before.
Exposed(p) == Applying(p) \/ (p = Boot /\ Busy(p))

Admits == server = "up" /\ ~ restoreInProgress

\* What a step of p means for the others: it works on directories or rows
\* another restore has checked (crowded); two are at work at a time, or the
\* command line is (raced); rows are replaced of which no dump has a copy
\* (lost); a dump takes the name of another, whose contents are in no third
\* (replaced); two jobs run (overlap); a restore reports an error after the
\* rows were replaced (told).  The next commit starts afresh.
Witness(p) ==
    events' = (IF Torn(p)' /\ ~ Torn(p) THEN events \ {"told", "early"} ELSE events)
        \cup {e \in {"crowded"} : instance' # instance /\ \E q \in Procs \ {p} : Exposed(q)}
        \cup {e \in {"raced"} : Busy(p)' /\ (p = Cli \/ \E q \in Procs \ {p} : Busy(q))}
        \cup {e \in {"lost"} : At(p, "tx") /\ rows' # rows /\ rows \notin {d.rows : d \in Held}}
        \cup {e \in {"replaced"} : At(p, "dump") /\ ~ (Held \subseteq Held')}
        \cup {e \in {"overlap"} : InJob(p)' /\ \E q \in Web \ {p} : InJob(q)}
        \cup {e \in {"told"} : Torn(p) /\ At(p, "failed")'}

-------------------------------------------------------------------------------
(* The backup page.                                                        *)

Upload(p, a) ==
    /\ Admits /\ At(p, "idle") /\ starts < MaxStarts
    /\ op' = [op EXCEPT ![p] = [Idle EXCEPT !.step = "upload", !.archive = a]]
    /\ starts' = starts + 1
    /\ UNCHANGED <<instance, dumps, server, restoreInProgress, marker, autoLock,
                   writer, faults>>

\* Mutant: an upload that waits for its confirmation is left alone.
DiscardNonePending(p) ==
    /\ At(p, "upload")
    /\ Goes(p, "prepare")
    /\ UNCHANGED <<instance, dumps, jobVars>>

\* The tracker is emptied under its lock, the staging directory deleted after.
DiscardAllPending(p) ==
    LET pending == {q \in Web : At(q, "pending")}
    IN  /\ At(p, "upload")
        /\ op' = [q \in Procs |->
                    IF q \in pending THEN Idle
                    ELSE IF q = p
                    THEN [op[p] EXCEPT !.step = IF pending = {} THEN "prepare" ELSE "discard"]
                    ELSE op[q]]
        /\ UNCHANGED <<instance, dumps, jobVars>>

DiscardDropped(p) ==
    /\ At(p, "discard")
    /\ Discard
    /\ Goes(p, "prepare")
    /\ UNCHANGED <<rows, dumps, live, old, jobVars>>

RefuseUpload(p) ==
    /\ At(p, "refused")
    /\ op' = [op EXCEPT ![p] = Idle]
    /\ UNCHANGED <<instance, dumps, jobVars>>

StagePending(p) ==
    /\ At(p, "valid")
    /\ Goes(p, "pending")
    /\ UNCHANGED <<instance, dumps, jobVars>>

\* The janitor: nobody confirmed it within its time.
Prune(p) ==
    /\ At(p, "pending")
    /\ Discard
    /\ op' = [op EXCEPT ![p] = Idle]
    /\ UNCHANGED <<rows, dumps, live, old, jobVars>>

\* A wrong phrase changes nothing; the right one takes the entry, once, and
\* starts the job.
Confirm(p) ==
    /\ Admits /\ At(p, "pending")
    /\ Goes(p, "job")
    /\ UNCHANGED <<instance, dumps, jobVars>>

\* Mutant: the gate is left open.
BeginJobOpenly(p) == At(p, "job") /\ Goes(p, "check") /\ UNCHANGED <<instance, dumps, jobVars>>

BeginJob(p) ==
    /\ At(p, "job")
    /\ Goes(p, "check")
    /\ restoreInProgress' = TRUE
    /\ UNCHANGED <<instance, dumps, server, marker, autoLock, writer, starts, faults>>

\* The deferred calls: what is still staged goes, and the flag with it.
EndJob(p) ==
    /\ \/ At(p, "failed") /\ Discard
       \/ At(p, "done") /\ UNCHANGED staging
    /\ restoreInProgress' = FALSE
    /\ op' = [op EXCEPT ![p] = Idle]
    /\ UNCHANGED <<rows, dumps, live, old, server, marker, autoLock, writer, starts, faults>>

Page(p) ==
    \/ \E a \in Archives : Upload(p, a)
    \/ DiscardAllPending(p) \/ DiscardDropped(p) \/ RefuseUpload(p) \/ StagePending(p)
    \/ Prune(p) \/ Confirm(p) \/ BeginJob(p) \/ EndJob(p)

-------------------------------------------------------------------------------
(* The command line.                                                       *)

Command(a) ==
    /\ At(Cli, "idle") /\ starts < MaxStarts
    /\ RecoverIncompleteSwap
    /\ op' = IF SwapWasCut THEN op
             ELSE [op EXCEPT ![Cli] = [Idle EXCEPT !.step = "prepare", !.archive = a]]
    /\ starts' = starts + 1
    /\ UNCHANGED <<rows, dumps, server, restoreInProgress, marker, autoLock, writer, faults>>

\* Without --force an archive is only validated.
EndCommand ==
    /\ \/ (At(Cli, "valid") \/ At(Cli, "failed")) /\ Discard
       \/ (At(Cli, "refused") \/ At(Cli, "done")) /\ UNCHANGED staging
    /\ op' = [op EXCEPT ![Cli] = Idle]
    /\ UNCHANGED <<rows, dumps, live, old, jobVars>>

\* --force, and every restore at the start.
Proceed(p) ==
    /\ At(p, "valid")
    /\ Goes(p, "check")
    /\ UNCHANGED <<instance, dumps, jobVars>>

\* --no-pre-dump.
SkipDump ==
    /\ At(Cli, "dump")
    /\ Goes(Cli, "tx")
    /\ events' = events \cup {"skipped"}
    /\ UNCHANGED <<instance, dumps, jobVars>>

-------------------------------------------------------------------------------
(* The start of the server.                                                *)

\* A swap that was cut is repaired, and the start ends with an error.
Start ==
    /\ server = "down"
    /\ RecoverIncompleteSwap
    /\ IF SwapWasCut THEN UNCHANGED <<server, op>>
       ELSE server' = "starting" /\ Goes(Boot, "dirs")
    /\ UNCHANGED <<rows, dumps, restoreInProgress, marker, autoLock, writer, starts, faults>>

PrepareDataDirs ==
    /\ At(Boot, "dirs")
    /\ live' = Contents(live)
    /\ Goes(Boot, "auto")
    /\ UNCHANGED <<rows, dumps, staging, old, jobVars>>

\* Done before, nothing to do, or the lock is held under another name: by a
\* server that stopped and has been replaced.
SkipAutoRestore ==
    /\ At(Boot, "auto")
    /\ marker \/ AutoDir = {} \/ autoLock
    /\ server' = "up"
    /\ op' = [op EXCEPT ![Boot] = Idle]
    /\ UNCHANGED <<instance, dumps, restoreInProgress, marker, autoLock, writer, starts, faults>>

CheckAutoRestore ==
    /\ At(Boot, "auto")
    /\ ~ marker
    /\ \E a \in AutoDir :
        op' = [op EXCEPT ![Boot] = [Idle EXCEPT !.step = "prepare", !.archive = a]]
    /\ autoLock' = TRUE
    /\ UNCHANGED <<instance, dumps, server, restoreInProgress, marker, writer, starts, faults>>

\* The server serves only when the restore is recorded.
WriteMarker ==
    /\ At(Boot, "done")
    /\ marker' = TRUE
    /\ server' = "up"
    /\ op' = [op EXCEPT ![Boot] = Idle]
    /\ UNCHANGED <<instance, dumps, restoreInProgress, autoLock, writer, starts, faults>>

StartFails ==
    /\ \/ At(Boot, "failed") /\ Discard
       \/ At(Boot, "refused") /\ UNCHANGED staging
    /\ server' = "down"
    /\ op' = [op EXCEPT ![Boot] = Idle]
    /\ UNCHANGED <<rows, dumps, live, old, restoreInProgress, marker, autoLock, writer,
                   starts, faults>>

\* Nobody renews the lock outside a restore.
LockLapses ==
    /\ autoLock
    /\ op[Boot].step \in {"idle", "dirs", "auto"}
    /\ autoLock' = FALSE
    /\ UNCHANGED <<restoreVars, server, restoreInProgress, marker, writer, starts, faults>>

Starts ==
    PrepareDataDirs \/ SkipAutoRestore \/ CheckAutoRestore \/ WriteMarker \/ StartFails

-------------------------------------------------------------------------------
(* Ordinary writes.                                                        *)

Write ==
    /\ server = "up"
    /\ writer.count < MaxWrites
    /\ rows' = [rows EXCEPT !.write = writer.count + 1]
    /\ events' = events \cup {e \in {"slipped"} : \E p \in Procs : At(p, "tx")}
    /\ UNCHANGED <<dumps, live, staging, old, op, server, restoreInProgress, marker,
                   autoLock, starts, faults>>

\* A request passes the gate, and writes later.
PassGate ==
    /\ Admits /\ ~ writer.inside
    /\ writer' = [writer EXCEPT !.inside = TRUE]
    /\ UNCHANGED <<restoreVars, server, restoreInProgress, marker, autoLock, starts,
                   faults, events>>

RequestWrites == writer.inside /\ Write /\ writer' = [inside |-> FALSE, count |-> writer.count + 1]

\* The scheduler does not pass the gate.
SchedulerWrites == Write /\ writer' = [writer EXCEPT !.count = @ + 1]

\* Mutant: one archive less is kept.
PruneToFewer ==
    /\ server = "up" /\ 0 < Keep
    /\ \E i \in 1 .. Len(dumps["backup"]) - Keep + 1 :
        dumps' = [dumps EXCEPT !["backup"] = RemoveAt(@, i)]
    /\ events' = events \cup {e \in {"pruned"} : ~ (Held \subseteq Held')}
    /\ UNCHANGED <<instance, op, jobVars>>

\* Nor does it when it removes old safety dumps after a scheduled backup, one
\* after the other; one that cannot be removed is left.
PruneOldArchives ==
    /\ server = "up" /\ 0 < Keep
    /\ \E i \in 1 .. Len(dumps["backup"]) - Keep :
        dumps' = [dumps EXCEPT !["backup"] = RemoveAt(@, i)]
    /\ events' = events \cup {e \in {"pruned"} : ~ (Held \subseteq Held')}
    /\ UNCHANGED <<instance, op, jobVars>>

-------------------------------------------------------------------------------
(* Stops.                                                                  *)

\* Rows are replaced, and nothing on the disk will tell (early).
Stop(stopped) ==
    /\ faults < MaxFaults
    /\ op' = [p \in Procs |-> IF p \in stopped THEN Idle ELSE op[p]]
    /\ events' = events \cup {e \in {"early"} : \E p \in stopped : Torn(p) /\ ~ SwapWasCut}
    /\ faults' = faults + 1
    /\ UNCHANGED <<instance, dumps, marker, autoLock, starts>>

Crash ==
    /\ server # "down"
    /\ Stop(InServer)
    /\ server' = "down"
    /\ restoreInProgress' = FALSE
    /\ writer' = [writer EXCEPT !.inside = FALSE]

KillCommand ==
    /\ Busy(Cli)
    /\ Stop({Cli})
    /\ UNCHANGED <<server, restoreInProgress, writer>>

-------------------------------------------------------------------------------

JobsInit ==
    /\ RestoreInit
    /\ server = "down"
    /\ restoreInProgress = FALSE
    /\ marker \in BOOLEAN
    /\ autoLock = FALSE
    /\ writer = [inside |-> FALSE, count |-> 0]
    /\ starts = 0
    /\ faults = 0
    /\ events = {}

Runs(p) == (Validates(p) \/ Applies(p)) /\ UNCHANGED jobVars

\* The dump or the transaction fails, and nothing is touched.
Fails(p) ==
    /\ faults < MaxFaults
    /\ DumpFails(p) \/ Rollback(p)
    /\ faults' = faults + 1
    /\ Witness(p)
    /\ UNCHANGED <<server, restoreInProgress, marker, autoLock, writer, starts>>

\* A repair that ends in an error tells of the swap that was cut.
Repairs(p) ==
    /\ IF p = Boot THEN Start ELSE \E a \in Archives : Command(a)
    /\ events' = (IF SwapWasCut THEN events \cup {"told"} ELSE events)
        \cup {e \in {"crowded"} : instance' # instance /\ \E q \in Procs \ {p} : Exposed(q)}
        \cup {e \in {"raced"} : Busy(Cli)'}

JobsNext ==
    \/ \E p \in Web : (Page(p) \/ Runs(p)) /\ Witness(p)
    \/ (Runs(Cli) \/ EndCommand \/ Proceed(Cli)) /\ Witness(Cli)
    \/ SkipDump
    \/ (Runs(Boot) \/ Starts \/ Proceed(Boot)) /\ Witness(Boot)
    \/ Repairs(Boot) \/ Repairs(Cli)
    \/ LockLapses /\ UNCHANGED events
    \/ \E p \in Procs : Fails(p)
    \/ PassGate \/ RequestWrites \/ SchedulerWrites \/ PruneOldArchives
    \/ Crash \/ KillCommand

JobsSpec == JobsInit /\ [][JobsNext]_jobsVars

-------------------------------------------------------------------------------
(* Properties.                                                             *)

\* Rows and uploads of different archives are never left side by side unknown:
\* a restore or a start has ended with an error about it, or the process
\* stopped after the commit and before the first rename, or another restore
\* worked on the same directories meanwhile (docs/backup-restore.md:155).
MixIsKnown ==
    /\ live \notin {NoDir, UploadsOf[rows.from]}
    /\ \A p \in Procs : ~ Torn(p)
    => events \cap {"told", "early", "crowded"} # {}

\* The uploads the instance had are in the upload directory or in a safety dump,
\* whatever stops or is killed, whatever is restored next and by how many at
\* once, until retention has removed the dump and left as many as it keeps, or a
\* dump of the same second has taken its name (prune.go:30, dump.go:180); but not
\* if a dump is skipped (restore.go:250).
OriginalsKept ==
    \/ UploadsOf[Before] \in {live} \cup {d.uploads : d \in Held}
    \/ events \cap {"skipped", "replaced"} # {}
    \/ "pruned" \in events /\ Len(dumps["backup"]) >= Keep

\* The rows a restore replaces are in a safety dump, unless a write that the
\* gate does not hold back came between the two, or no dump was asked for
\* (restore.go:250).  Retention keeps the newest, so it is there at the commit.
WayBack == "lost" \in events => events \cap {"slipped", "skipped", "crowded"} # {}

\* While a job restores, requests are refused; one job's end opens the gate for
\* another's rest (handlers_backup.go:298).
GateClosed ==
    (\E p \in Web : InJob(p)) => restoreInProgress \/ "overlap" \in events

\* An upload that awaits confirmation has its files staged, and no upload
\* discarded or expired before or after takes them away, if only one is at work
\* at a time (jobs.go:215).
PendingIsStaged ==
    \A p \in Web :
        At(p, "pending") => staging = UploadsOf[op[p].archive] \/ "raced" \in events

\* A restore whose staged uploads are replaced after they were validated is
\* refused before anything is touched, so one that goes through puts in place
\* what was validated (docs/backup-restore.md:196).
RestoresWhatWasStaged ==
    \A p \in Procs : At(p, "tidy") => live = UploadsOf[op[p].archive]
===============================================================================
