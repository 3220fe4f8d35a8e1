----------------------------- MODULE RestoreProofs -----------------------------
(***************************************************************************)
(* Proofs about RestoreJobs, for any number of uploads, archives, files,   *)
(* stops and failures, and for restores that mix as well as for those kept *)
(* apart.                                                                  *)
(***************************************************************************)
EXTENDS RestoreJobs, SequenceTheorems, TLAPS

Steps == {"idle", "upload", "discard", "prepare", "scan", "refused", "valid", "pending",
          "job", "check", "dump", "tx", "clear", "aside", "place", "tidy", "done", "failed",
          "dirs", "auto"}
Sources == Archives \cup {Before}
Op == [step : Steps, archive : Sources, todo : SUBSET Files, moved : BOOLEAN]

Rows == [from : Sources, write : Nat]
Dirs == {"backup", "auto"}
DumpType == [rows : Rows, uploads : SUBSET Files]

InstanceTypeOK ==
    /\ rows \in Rows
    /\ dumps \in [Dirs -> Seq(DumpType)]
    /\ live \in Directory /\ staging \in Directory /\ old \in Directory

Writers == [inside : BOOLEAN, count : Nat]

JobsTypeOK ==
    /\ InstanceTypeOK
    /\ op \in [Procs -> Op]
    /\ server \in {"down", "starting", "up"}
    /\ restoreInProgress \in BOOLEAN /\ marker \in BOOLEAN /\ autoLock \in BOOLEAN
    /\ writer \in Writers
    /\ starts \in Nat /\ faults \in Nat

\* Who can be where.
Roles ==
    /\ server = "starting" <=> op[Boot].step # "idle"
    /\ \A p \in Web : /\ op[p].step # "idle" => server = "up"
                      /\ op[p].step \notin {"dirs", "auto"}
    /\ op[Cli].step \notin {"upload", "discard", "pending", "job", "dirs", "auto"}
    /\ op[Boot].step \notin {"upload", "discard", "pending", "job"}

\* Two jobs at a time are witnessed.
JobGate ==
    /\ \A p, q \in Web : p # q /\ InJob(p) /\ InJob(q) => "overlap" \in events
    /\ GateClosed

Excused == events \cap {"slipped", "skipped", "crowded"} # {}

\* The newest safety dump of one directory has the rows: retention leaves it, and
\* whatever is dumped next, or takes its name, has them too.
RowsKept == \E dir \in Dirs : dumps[dir] # <<>> /\ dumps[dir][Len(dumps[dir])].rows = rows

\* What a transaction is about to replace is in a dump.
Copies ==
    /\ \A p \in Procs : At(p, "tx") => RowsKept \/ Excused
    /\ WayBack

\* Retention has left as many as it keeps.
PrunedToKeep == "pruned" \in events /\ Len(dumps["backup"]) >= Keep

\* The uploads are where they were until somebody is past the dump.
Originals ==
    \/ events \cap {"skipped", "replaced"} # {} \/ PrunedToKeep
    \/ UploadsOf[Before] \in {d.uploads : d \in Held}
    \/ /\ live = UploadsOf[Before]
       /\ \A p \in Procs : op[p].step \notin {"tx", "clear", "aside", "place", "tidy"}

\* What a restore works on while nobody else does.
Alone(p) ==
    /\ op[p].step \in {"dump", "tx", "clear", "aside", "place"} => staging = UploadsOf[op[p].archive]
    /\ op[p].step \in {"clear", "aside", "place", "tidy"} => rows.from = op[p].archive
    /\ op[p].step = "tidy" => live = UploadsOf[op[p].archive]

\* Between restores, the uploads are those of the rows, or a mark of the cut is left.
Told == events \cap {"told", "early"} # {}
MatchedOrTold == live = UploadsOf[rows.from] \/ SwapWasCut \/ Told

Apartness ==
    \/ "crowded" \in events
    \/ /\ \A p \in Procs : Alone(p)
       /\ op[Boot].step = "dirs" => ~ SwapWasCut
       /\ (\A p \in Procs : ~ Torn(p)) => MatchedOrTold

\* One upload at a time, and no command.
Serial ==
    /\ op[Cli].step = "idle"
    /\ \A p, q \in Procs : Busy(p) /\ Busy(q) => p = q
    /\ \A p \in Web, q \in Procs :
        At(p, "pending") /\ q # p => op[q].step \in {"idle", "upload"}
Staged(p) ==
    /\ At(p, "scan") => /\ op[p].todo \subseteq UploadsOf[op[p].archive]
                        /\ staging = UploadsOf[op[p].archive] \ op[p].todo
    /\ op[p].step \in {"valid", "pending"} => staging = UploadsOf[op[p].archive]

\* A swap is only cut in the middle of one, or when the server is down.
CutIsUnderWay ==
    server # "down" /\ SwapWasCut => \E p \in Procs : At(p, "place") /\ op[p].moved

Staging ==
    \/ "raced" \in events
    \/ Serial /\ CutIsUnderWay /\ \A p \in Procs : Staged(p)

-------------------------------------------------------------------------------
(* What a step does to the processes.                                      *)

\* p goes from step s to step t and the others stay where they are.
Turns(p, s, t) ==
    /\ op' \in [Procs -> Op]
    /\ op[p].step = s /\ op'[p].step = t
    /\ \A q \in Procs \ {p} : op'[q] = op[q]

\* And it stays with its archive.
Moves(p, s, t) ==
    /\ Turns(p, s, t)
    /\ op'[p].archive = op[p].archive
    /\ op'[p].todo = op[p].todo /\ op'[p].moved = op[p].moved

\* The constants of the two modules.
LEMMA Constants ==
    /\ Web \subseteq Procs /\ Cli \in Procs /\ Boot \in Procs /\ Cli # Boot
    /\ Cli \notin Web /\ Boot \notin Web
    /\ Procs = Web \cup {Cli, Boot}
    /\ \A a \in Sources : UploadsOf[a] \in SUBSET Files /\ UploadsOf[a] # NoDir
    /\ NoDir \notin SUBSET Files
    /\ \A dir \in Directory : Contents(dir) \in SUBSET Files
    /\ Archives \subseteq Sources /\ Before \in Sources
    /\ Idle \in Op /\ Idle.step = "idle"
    /\ DumpDir \in [Procs -> Dirs] /\ Keep \in Int
<1>1. /\ Web \subseteq Procs /\ Cli \in Procs /\ Boot \in Procs /\ Cli # Boot
      /\ Cli \notin Web /\ Boot \notin Web
      /\ Procs = Web \cup {Cli, Boot}
  BY JobsAssumption
<1>2. \A a \in Sources : UploadsOf[a] \in SUBSET Files
  BY DEF Sources, Files
<1>3. NoDir \notin SUBSET Files
  BY RestoreAssumption
<1>4. \A dir \in Directory : Contents(dir) \in SUBSET Files
  BY DEF Directory, Contents
<1>5. Idle \in Op /\ Idle.step = "idle"
  BY DEF Idle, Op, Steps, Sources
<1>6. \A a \in Sources : UploadsOf[a] # NoDir
  BY <1>2, <1>3, Zenon
<1>7. Archives \subseteq Sources /\ Before \in Sources
  BY DEF Sources
<1>8. DumpDir \in [Procs -> Dirs] /\ Keep \in Int
  BY RestoreAssumption DEF Dirs
<1> QED
  BY <1>1, <1>2, <1>3, <1>4, <1>5, <1>6, <1>7, <1>8, Zenon

\* Going to a step (Goes).
LEMMA GoingMoves ==
    ASSUME op \in [Procs -> Op], NEW p \in Procs, NEW s, NEW t \in Steps, At(p, s), Goes(p, t)
    PROVE  Moves(p, s, t)
  BY DEF At, Goes, Moves, Turns, Op

\* Ending (Idle).
LEMMA EndingTurns ==
    ASSUME op \in [Procs -> Op], NEW p \in Procs, NEW s, At(p, s),
           op' = [op EXCEPT ![p] = Idle]
    PROVE  Turns(p, s, "idle")
  BY Constants DEF At, Turns

\* Taking up an archive.
LEMMA TakingTurns ==
    ASSUME op \in [Procs -> Op], NEW p \in Procs, NEW s, NEW t \in Steps, NEW a \in Sources,
           At(p, s), op' = [op EXCEPT ![p] = [Idle EXCEPT !.step = t, !.archive = a]]
    PROVE  Turns(p, s, t) /\ op'[p].archive = a
<1>1. [Idle EXCEPT !.step = t, !.archive = a] \in Op
  BY DEF Idle, Op
<1>2. /\ [Idle EXCEPT !.step = t, !.archive = a].step = t
      /\ [Idle EXCEPT !.step = t, !.archive = a].archive = a
  BY DEF Idle
<1> QED
  BY <1>1, <1>2 DEF At, Turns

\* The steps of a validation.
LEMMA ValidatesMoves ==
    ASSUME JobsTypeOK, NEW p \in Procs
    PROVE  /\ RefuseSecret(p) => Moves(p, "prepare", "refused")
           /\ PrepareStaging(p) => /\ Turns(p, "prepare", "scan")
                                   /\ op'[p].archive = op[p].archive
                                   /\ op'[p].todo = UploadsOf[op[p].archive]
           /\ ExtractUpload(p) => /\ Turns(p, "scan", "scan")
                                  /\ op'[p].archive = op[p].archive
           /\ Reject(p) => Moves(p, "scan", "refused")
           /\ Validated(p) => Moves(p, "scan", "valid")
<1>1. op \in [Procs -> Op]
  BY DEF JobsTypeOK
<1>2. /\ "refused" \in Steps /\ "scan" \in Steps /\ "valid" \in Steps
  BY DEF Steps
<1>3. RefuseSecret(p) => Moves(p, "prepare", "refused")
  BY <1>1, <1>2, GoingMoves DEF RefuseSecret
<1>4. ASSUME PrepareStaging(p)
      PROVE  /\ Turns(p, "prepare", "scan")
             /\ op'[p].archive = op[p].archive
             /\ op'[p].todo = UploadsOf[op[p].archive]
  <2>1. UploadsOf[op[p].archive] \in SUBSET Files
    BY <1>1, Constants DEF Op
  <2> DEFINE next == [op[p] EXCEPT !.step = "scan", !.todo = UploadsOf[op[p].archive]]
  <2>2. /\ next \in Op /\ next.step = "scan" /\ next.archive = op[p].archive
        /\ next.todo = UploadsOf[op[p].archive]
    BY <1>1, <1>2, <2>1 DEF Op
  <2>3. op[p].step = "prepare" /\ op' = [op EXCEPT ![p] = next]
    BY <1>1, <1>4 DEF PrepareStaging, At
  <2> HIDE DEF next
  <2> QED
    BY <1>1, <2>2, <2>3 DEF Turns
<1>5. ASSUME ExtractUpload(p) PROVE Turns(p, "scan", "scan") /\ op'[p].archive = op[p].archive
  BY <1>1, <1>2, <1>5 DEF ExtractUpload, Turns, Op, At
<1>6. Reject(p) => Moves(p, "scan", "refused")
  BY <1>1, <1>2, GoingMoves DEF Reject
<1>7. Validated(p) => Moves(p, "scan", "valid")
  BY <1>1, <1>2, GoingMoves DEF Validated
<1> QED
  BY <1>3, <1>4, <1>5, <1>6, <1>7

\* The steps of a restore.
LEMMA AppliesMoves ==
    ASSUME JobsTypeOK, NEW p \in Procs
    PROVE  /\ CheckStaging(p) => \/ /\ Moves(p, "check", "dump")
                                    /\ staging = UploadsOf[op[p].archive]
                                 \/ Moves(p, "check", "failed")
           /\ SafetyDump(p) => Moves(p, "dump", "tx")
           /\ DumpFails(p) => Moves(p, "dump", "failed")
           /\ ApplyTx(p) => Moves(p, "tx", "clear")
           /\ Rollback(p) => Moves(p, "tx", "failed")
           /\ ClearOld(p) => Moves(p, "clear", "aside")
           /\ MoveAside(p) =>
                \/ /\ live # NoDir /\ old = NoDir
                   /\ Turns(p, "aside", "place") /\ op'[p].archive = op[p].archive
                   /\ op'[p].moved /\ live' = NoDir
                \/ /\ live = NoDir
                   /\ Turns(p, "aside", "place") /\ op'[p].archive = op[p].archive
                   /\ UNCHANGED <<live, old>>
                \/ /\ Turns(p, "aside", "failed") /\ live # NoDir
                   /\ UNCHANGED <<live, old>>
           /\ PlaceStaged(p) => Moves(p, "place", "tidy")
           /\ PutBack(p) => Moves(p, "place", "failed")
           /\ RemoveOld(p) => Moves(p, "tidy", "done")
<1>1. op \in [Procs -> Op]
  BY DEF JobsTypeOK
<1>2. /\ "dump" \in Steps /\ "failed" \in Steps /\ "tx" \in Steps /\ "clear" \in Steps
      /\ "aside" \in Steps /\ "place" \in Steps /\ "tidy" \in Steps /\ "done" \in Steps
  BY DEF Steps
<1>3. CheckStaging(p) => \/ /\ Moves(p, "check", "dump")
                            /\ staging = UploadsOf[op[p].archive]
                         \/ Moves(p, "check", "failed")
  BY <1>1, <1>2, GoingMoves DEF CheckStaging
<1>4. SafetyDump(p) => Moves(p, "dump", "tx")
  BY <1>1, <1>2, GoingMoves DEF SafetyDump
<1>5. DumpFails(p) => Moves(p, "dump", "failed")
  BY <1>1, <1>2, GoingMoves DEF DumpFails
<1>6. ApplyTx(p) => Moves(p, "tx", "clear")
  BY <1>1, <1>2, GoingMoves DEF ApplyTx
<1>7. Rollback(p) => Moves(p, "tx", "failed")
  BY <1>1, <1>2, GoingMoves DEF Rollback
<1>8. ClearOld(p) => Moves(p, "clear", "aside")
  BY <1>1, <1>2, GoingMoves DEF ClearOld
<1>9. ASSUME MoveAside(p)
      PROVE  \/ /\ live # NoDir /\ old = NoDir
                /\ Turns(p, "aside", "place") /\ op'[p].archive = op[p].archive
                /\ op'[p].moved /\ live' = NoDir
             \/ /\ live = NoDir
                /\ Turns(p, "aside", "place") /\ op'[p].archive = op[p].archive
                /\ UNCHANGED <<live, old>>
             \/ /\ Turns(p, "aside", "failed") /\ live # NoDir
                /\ UNCHANGED <<live, old>>
  <2> DEFINE moves == live # NoDir /\ old = NoDir
             step == IF live # NoDir /\ ~ moves THEN "failed" ELSE "place"
             next == [op[p] EXCEPT !.step = step, !.moved = moves]
  <2>1. /\ op[p].step = "aside" /\ op' = [op EXCEPT ![p] = next]
        /\ live' = IF moves THEN NoDir ELSE live
        /\ old' = IF moves THEN live ELSE old
    BY <1>1, <1>9 DEF MoveAside, At
  <2>2. op[p] \in Op /\ step \in Steps /\ moves \in BOOLEAN
    BY <1>1, <1>2
  <2>3. /\ next \in Op /\ next.step = step /\ next.archive = op[p].archive
        /\ next.moved = moves
    <3> HIDE DEF step, moves
    <3> QED
      BY <2>2 DEF Op
  <2>4. Turns(p, "aside", step) /\ op'[p].archive = op[p].archive /\ op'[p].moved = moves
    <3> HIDE DEF next
    <3> QED
      BY <1>1, <2>1, <2>3 DEF Turns
  <2> HIDE DEF next
  <2> QED
    BY <2>1, <2>4
<1>10. PlaceStaged(p) => Moves(p, "place", "tidy")
  BY <1>1, <1>2, GoingMoves DEF PlaceStaged
<1>11. PutBack(p) => Moves(p, "place", "failed")
  BY <1>1, <1>2, GoingMoves DEF PutBack
<1>12. RemoveOld(p) => Moves(p, "tidy", "done")
  BY <1>1, <1>2, GoingMoves DEF RemoveOld
<1> QED
  BY <1>3, <1>4, <1>5, <1>6, <1>7, <1>8, <1>9, <1>10, <1>11, <1>12

\* An upload empties the tracker: every pending one is dropped.
Drops(p) ==
    /\ op' \in [Procs -> Op]
    /\ op[p].step = "upload"
    /\ op'[p].archive = op[p].archive
    /\ op'[p].step = IF \E q \in Web : At(q, "pending") THEN "discard" ELSE "prepare"
    /\ \A q \in Procs \ {p} :
        IF q \in Web /\ At(q, "pending") THEN op'[q] = Idle ELSE op'[q] = op[q]

\* The steps on the backup page.
LEMMA PageMoves ==
    ASSUME JobsTypeOK, NEW p \in Web
    PROVE  /\ \A a \in Archives : Upload(p, a) => Turns(p, "idle", "upload")
           /\ DiscardAllPending(p) => Drops(p)
           /\ DiscardDropped(p) => Moves(p, "discard", "prepare")
           /\ RefuseUpload(p) => Turns(p, "refused", "idle")
           /\ StagePending(p) => Moves(p, "valid", "pending")
           /\ Prune(p) => Turns(p, "pending", "idle")
           /\ Confirm(p) => Moves(p, "pending", "job")
           /\ BeginJob(p) => Moves(p, "job", "check")
           /\ EndJob(p) => Turns(p, "failed", "idle") \/ Turns(p, "done", "idle")
<1>1. op \in [Procs -> Op] /\ p \in Procs
  BY Constants DEF JobsTypeOK
<1>2. /\ "upload" \in Steps /\ "discard" \in Steps /\ "prepare" \in Steps
      /\ "pending" \in Steps /\ "job" \in Steps /\ "check" \in Steps
  BY DEF Steps
<1>3. ASSUME NEW a \in Archives, Upload(p, a) PROVE Turns(p, "idle", "upload")
  <2>1. a \in Sources
    BY Constants
  <2> QED
    BY <1>1, <1>2, <1>3, <2>1, TakingTurns DEF Upload
<1>4. ASSUME DiscardAllPending(p) PROVE Drops(p)
  <2> DEFINE pending == {q \in Web : At(q, "pending")}
             step == IF pending = {} THEN "prepare" ELSE "discard"
             mine == [op[p] EXCEPT !.step = step]
  <2>1. /\ op[p].step = "upload"
        /\ op' = [q \in Procs |-> IF q \in pending THEN Idle
                                  ELSE IF q = p THEN mine ELSE op[q]]
    BY <1>4 DEF DiscardAllPending, At
  <2>2. p \notin pending
    BY <2>1 DEF At
  <2>3. mine \in Op /\ mine.step = step /\ mine.archive = op[p].archive
    BY <1>1, <1>2 DEF Op
  <2> HIDE DEF mine
  <2>4. op' \in [Procs -> Op]
    BY <1>1, <2>1, <2>3, Constants
  <2>5. op'[p] = mine
    BY <1>1, <2>1, <2>2
  <2>6. ASSUME NEW q \in Procs \ {p}
        PROVE  IF q \in Web /\ At(q, "pending") THEN op'[q] = Idle ELSE op'[q] = op[q]
    BY <2>1, <2>6
  <2> QED
    BY <2>1, <2>3, <2>4, <2>5, <2>6 DEF Drops
<1>5. DiscardDropped(p) => Moves(p, "discard", "prepare")
  BY <1>1, <1>2, GoingMoves DEF DiscardDropped
<1>6. RefuseUpload(p) => Turns(p, "refused", "idle")
  BY <1>1, EndingTurns DEF RefuseUpload
<1>7. StagePending(p) => Moves(p, "valid", "pending")
  BY <1>1, <1>2, GoingMoves DEF StagePending
<1>8. Prune(p) => Turns(p, "pending", "idle")
  BY <1>1, EndingTurns DEF Prune
<1>9. Confirm(p) => Moves(p, "pending", "job")
  BY <1>1, <1>2, GoingMoves DEF Confirm
<1>10. BeginJob(p) => Moves(p, "job", "check")
  BY <1>1, <1>2, GoingMoves DEF BeginJob
<1>11. EndJob(p) => Turns(p, "failed", "idle") \/ Turns(p, "done", "idle")
  BY <1>1, EndingTurns DEF EndJob
<1> QED
  BY <1>3, <1>4, <1>5, <1>6, <1>7, <1>8, <1>9, <1>10, <1>11

\* The steps of the command line.
LEMMA CommandMoves ==
    ASSUME JobsTypeOK
    PROVE  /\ \A a \in Archives : Command(a) =>
                \/ SwapWasCut /\ op' = op
                \/ ~ SwapWasCut /\ Turns(Cli, "idle", "prepare")
           /\ EndCommand => \E s \in {"valid", "failed", "refused", "done"} :
                                Turns(Cli, s, "idle")
           /\ \A p \in Procs : Proceed(p) => Moves(p, "valid", "check")
           /\ SkipDump => Moves(Cli, "dump", "tx")
<1>1. op \in [Procs -> Op] /\ Cli \in Procs
  BY Constants DEF JobsTypeOK
<1>2. "prepare" \in Steps /\ "check" \in Steps /\ "tx" \in Steps
  BY DEF Steps
<1>3. ASSUME NEW a \in Archives, Command(a)
      PROVE  \/ SwapWasCut /\ op' = op
             \/ ~ SwapWasCut /\ Turns(Cli, "idle", "prepare")
  <2>1. a \in Sources
    BY Constants
  <2>2. At(Cli, "idle")
        /\ op' = IF SwapWasCut THEN op
                 ELSE [op EXCEPT ![Cli] = [Idle EXCEPT !.step = "prepare", !.archive = a]]
    BY <1>3 DEF Command
  <2>3. CASE ~ SwapWasCut
    BY <1>1, <1>2, <2>1, <2>2, <2>3, TakingTurns
  <2> QED
    BY <2>2, <2>3
<1>4. ASSUME EndCommand
      PROVE  \E s \in {"valid", "failed", "refused", "done"} : Turns(Cli, s, "idle")
  BY <1>1, <1>4, EndingTurns DEF EndCommand
<1>5. \A p \in Procs : Proceed(p) => Moves(p, "valid", "check")
  BY <1>1, <1>2, GoingMoves DEF Proceed
<1>6. SkipDump => Moves(Cli, "dump", "tx")
  BY <1>1, <1>2, GoingMoves DEF SkipDump
<1> QED
  BY <1>3, <1>4, <1>5, <1>6

\* The steps of a start of the server.
LEMMA StartMoves ==
    ASSUME JobsTypeOK
    PROVE  /\ Start => \/ SwapWasCut /\ op' = op
                       \/ ~ SwapWasCut /\ \E s \in Steps : Moves(Boot, s, "dirs")
           /\ PrepareDataDirs => Moves(Boot, "dirs", "auto")
           /\ SkipAutoRestore => Turns(Boot, "auto", "idle")
           /\ CheckAutoRestore => Turns(Boot, "auto", "prepare")
           /\ WriteMarker => Turns(Boot, "done", "idle")
           /\ StartFails => Turns(Boot, "failed", "idle") \/ Turns(Boot, "refused", "idle")
<1>1. op \in [Procs -> Op] /\ Boot \in Procs
  BY Constants DEF JobsTypeOK
<1>2. "dirs" \in Steps /\ "auto" \in Steps /\ "prepare" \in Steps
  BY DEF Steps
<1>3. ASSUME Start
      PROVE  \/ SwapWasCut /\ op' = op
             \/ ~ SwapWasCut /\ \E s \in Steps : Moves(Boot, s, "dirs")
  <2>1. op[Boot].step \in Steps /\ At(Boot, op[Boot].step)
    BY <1>1 DEF Op, At
  <2>2. CASE ~ SwapWasCut
    BY <1>1, <1>2, <1>3, <2>1, <2>2, GoingMoves DEF Start
  <2> QED
    BY <1>3, <2>2 DEF Start
<1>4. PrepareDataDirs => Moves(Boot, "dirs", "auto")
  BY <1>1, <1>2, GoingMoves DEF PrepareDataDirs
<1>5. SkipAutoRestore => Turns(Boot, "auto", "idle")
  BY <1>1, EndingTurns DEF SkipAutoRestore
<1>6. ASSUME CheckAutoRestore PROVE Turns(Boot, "auto", "prepare")
  <2>1. PICK a \in AutoDir :
            op' = [op EXCEPT ![Boot] = [Idle EXCEPT !.step = "prepare", !.archive = a]]
    BY <1>6 DEF CheckAutoRestore
  <2>2. a \in Sources
    BY JobsAssumption, Constants
  <2> QED
    BY <1>1, <1>2, <1>6, <2>1, <2>2, TakingTurns DEF CheckAutoRestore
<1>7. WriteMarker => Turns(Boot, "done", "idle")
  BY <1>1, EndingTurns DEF WriteMarker
<1>8. StartFails => Turns(Boot, "failed", "idle") \/ Turns(Boot, "refused", "idle")
  BY <1>1, EndingTurns DEF StartFails
<1> QED
  BY <1>3, <1>4, <1>5, <1>6, <1>7, <1>8

\* Whoever is stopped is idle, and nobody else moves.
LEMMA StopMoves ==
    ASSUME JobsTypeOK, NEW stopped \in SUBSET Procs, Stop(stopped)
    PROVE  /\ op' \in [Procs -> Op]
           /\ \A p \in stopped : op'[p].step = "idle"
           /\ \A p \in Procs \ stopped : op'[p] = op[p]
  BY Constants DEF Stop, JobsTypeOK

-------------------------------------------------------------------------------
(* The safety dumps.                                                       *)

\* One archive is taken out of a list (RemoveAt).
LEMMA RemovalKeeps ==
    ASSUME NEW S, NEW s \in Seq(S), NEW i \in 1 .. Len(s)
    PROVE  /\ RemoveAt(s, i) \in Seq(S) /\ Len(RemoveAt(s, i)) = Len(s) - 1
           /\ i < Len(s) => RemoveAt(s, i)[Len(s) - 1] = s[Len(s)]
<1> DEFINE before == SubSeq(s, 1, i - 1)
           after == SubSeq(s, i + 1, Len(s))
<1>1. Len(s) \in Nat /\ i \in Nat
  BY LenProperties
<1>2. before \in Seq(S) /\ Len(before) = i - 1
  BY <1>1, SubSeqProperties
<1>3. /\ after \in Seq(S) /\ Len(after) = Len(s) - i
      /\ i < Len(s) => after[Len(s) - i] = s[Len(s)]
  BY <1>1, SubSeqProperties
<1>4. RemoveAt(s, i) = before \o after
  BY DEF RemoveAt
<1> HIDE DEF before, after
<1>5. before \o after \in Seq(S) /\ Len(before \o after) = Len(s) - 1
  <2>1. before \o after \in Seq(S) /\ Len(before \o after) = Len(before) + Len(after)
    BY <1>2, <1>3, ConcatProperties
  <2> QED
    BY <1>1, <1>2, <1>3, <2>1
<1>6. ASSUME i < Len(s) PROVE (before \o after)[Len(s) - 1] = after[Len(s) - i]
  BY <1>1, <1>2, <1>3, <1>6, ConcatProperties
<1> QED
  BY <1>3, <1>4, <1>5, <1>6

\* What a dump leaves in a directory (Saves).
LEMMA SaveKeeps ==
    ASSUME JobsTypeOK, NEW p \in Procs, Saves(p, Copy)
    PROVE  /\ dumps' \in [Dirs -> Seq(DumpType)]
           /\ DumpDir[p] \in Dirs
           /\ dumps'[DumpDir[p]] # <<>>
           /\ dumps'[DumpDir[p]][Len(dumps'[DumpDir[p]])] = Copy
           /\ \A dir \in Dirs : Len(dumps'[dir]) >= Len(dumps[dir])
<1> DEFINE dir == DumpDir[p]
           made == dumps[dir]
<1>1. dir \in Dirs /\ dumps \in [Dirs -> Seq(DumpType)] /\ Copy \in DumpType
  BY Constants DEF JobsTypeOK, InstanceTypeOK, Copy, DumpType
<1>2. PICK n \in {Len(made), Len(made) + 1} \ {0} :
            dumps' = [dumps EXCEPT ![dir] = Append(SubSeq(made, 1, n - 1), Copy)]
  BY DEF Saves
<1>3. made \in Seq(DumpType) /\ Len(made) \in Nat
  BY <1>1, LenProperties
<1>4. SubSeq(made, 1, n - 1) \in Seq(DumpType) /\ Len(SubSeq(made, 1, n - 1)) = n - 1
  BY <1>2, <1>3, SubSeqProperties
<1> DEFINE new == Append(SubSeq(made, 1, n - 1), Copy)
<1>5. new \in Seq(DumpType) /\ Len(new) = n /\ new[n] = Copy
  BY <1>1, <1>2, <1>3, <1>4, AppendProperties
<1> HIDE DEF new, made
<1>6. dumps' = [dumps EXCEPT ![dir] = new]
  BY <1>2 DEF new
<1> HIDE DEF dir
<1>7. dumps' \in [Dirs -> Seq(DumpType)] /\ dumps'[dir] = new
      /\ \A other \in Dirs \ {dir} : dumps'[other] = dumps[other]
  BY <1>1, <1>5, <1>6
<1>8. n >= Len(made) /\ n > 0
  BY <1>2, <1>3
<1>9. new # <<>>
  BY <1>5, <1>8
<1>10. \A other \in Dirs : Len(dumps[other]) \in Nat
  BY <1>1, LenProperties
<1>11. \A other \in Dirs : Len(dumps'[other]) >= Len(dumps[other])
  BY <1>5, <1>7, <1>8, <1>10 DEF made
<1> QED
  BY <1>1, <1>5, <1>7, <1>9, <1>11 DEF dir

\* What retention leaves in the directories (PruneOldArchives).
LEMMA PruneKeeps ==
    ASSUME JobsTypeOK, PruneOldArchives
    PROVE  /\ dumps' \in [Dirs -> Seq(DumpType)]
           /\ Len(dumps'["backup"]) >= Keep
           /\ \A dir \in Dirs : dumps[dir] # <<>> =>
                /\ dumps'[dir] # <<>>
                /\ dumps'[dir][Len(dumps'[dir])] = dumps[dir][Len(dumps[dir])]
<1> DEFINE made == dumps["backup"]
<1>1. dumps \in [Dirs -> Seq(DumpType)] /\ "backup" \in Dirs /\ Keep \in Int /\ 0 < Keep
  BY Constants DEF JobsTypeOK, InstanceTypeOK, Dirs, PruneOldArchives
<1>2. PICK i \in 1 .. Len(made) - Keep : dumps' = [dumps EXCEPT !["backup"] = RemoveAt(made, i)]
  BY DEF PruneOldArchives
<1>3. made \in Seq(DumpType) /\ Len(made) \in Nat
  BY <1>1, LenProperties
<1>4. i \in 1 .. Len(made) /\ i < Len(made) /\ Len(made) - 1 >= Keep
  BY <1>1, <1>2, <1>3
<1> DEFINE new == RemoveAt(made, i)
<1>5. new \in Seq(DumpType) /\ Len(new) = Len(made) - 1 /\ new[Len(made) - 1] = made[Len(made)]
  BY <1>3, <1>4, RemovalKeeps
<1> HIDE DEF new
<1>6. /\ dumps' \in [Dirs -> Seq(DumpType)] /\ dumps'["backup"] = new
      /\ \A dir \in Dirs \ {"backup"} : dumps'[dir] = dumps[dir]
  BY <1>1, <1>2, <1>5 DEF new
<1>7. new # <<>>
  BY <1>1, <1>3, <1>4, <1>5
<1> QED
  BY <1>4, <1>5, <1>6, <1>7

\* The newest dump of a directory is one of those that are held (Held).
LEMMA NewestIsHeld ==
    ASSUME NEW d \in [Dirs -> Seq(DumpType)], NEW dir \in Dirs, d[dir] # <<>>
    PROVE  d[dir][Len(d[dir])] \in Range(d["backup"]) \cup Range(d["auto"])
<1>1. d[dir] \in Seq(DumpType)
  OBVIOUS
<1>2. Len(d[dir]) \in DOMAIN d[dir]
  BY <1>1, LenProperties, EmptySeq
<1>3. d[dir][Len(d[dir])] \in Range(d[dir])
  BY <1>2 DEF Range
<1> QED
  BY <1>3 DEF Dirs

-------------------------------------------------------------------------------
(* Types, and who can be where.                                            *)

\* A step of a restore keeps the types of the instance.
LEMMA AppliesTypes ==
    ASSUME JobsTypeOK, NEW p \in Procs, Applies(p)
    PROVE  InstanceTypeOK' /\ op' \in [Procs -> Op]
<1> USE DEF InstanceTypeOK
<1>1. /\ InstanceTypeOK /\ op[p].archive \in Sources /\ NoDir \in Directory
      /\ Contents(live) \in SUBSET Files
  BY Constants DEF JobsTypeOK, Op, Directory
<1>2. CASE CheckStaging(p)
  BY <1>1, <1>2, AppliesMoves DEF CheckStaging, Moves, Turns
<1>3. CASE SafetyDump(p)
  <2>1. Moves(p, "dump", "tx") /\ UNCHANGED instance
    BY <1>3, AppliesMoves DEF SafetyDump
  <2>2. dumps' \in [Dirs -> Seq(DumpType)]
    BY <1>3, SaveKeeps DEF SafetyDump, JobsTypeOK
  <2> QED
    BY <1>1, <2>1, <2>2 DEF Moves, Turns, instance
<1>4. CASE ApplyTx(p)
  <2>1. Moves(p, "tx", "clear") /\ UNCHANGED <<dumps, live, staging, old>>
    BY <1>4, AppliesMoves DEF ApplyTx
  <2>2. rows' \in Rows
    BY <1>1, <1>4 DEF ApplyTx, Rows
  <2> QED
    BY <1>1, <2>1, <2>2 DEF Moves, Turns
<1>5. CASE ClearOld(p)
  BY <1>1, <1>5, AppliesMoves DEF ClearOld, Moves, Turns
<1>6. CASE MoveAside(p)
  <2>1. op' \in [Procs -> Op]
    BY <1>6, AppliesMoves DEF Turns
  <2>2. live' \in Directory /\ old' \in Directory /\ UNCHANGED <<rows, dumps, staging>>
    BY <1>1, <1>6 DEF MoveAside
  <2> QED
    BY <1>1, <2>1, <2>2
<1>7. CASE PlaceStaged(p)
  BY <1>1, <1>7, AppliesMoves DEF PlaceStaged, Moves, Turns
<1>8. CASE PutBack(p)
  <2>1. op' \in [Procs -> Op]
    BY <1>8, AppliesMoves DEF Moves, Turns
  <2>2. live' \in Directory /\ old' \in Directory /\ UNCHANGED <<rows, dumps, staging>>
    BY <1>1, <1>8 DEF PutBack
  <2> QED
    BY <1>1, <2>1, <2>2
<1>9. CASE RemoveOld(p)
  BY <1>1, <1>9, AppliesMoves DEF RemoveOld, Moves, Turns
<1> QED
  BY <1>2, <1>3, <1>4, <1>5, <1>6, <1>7, <1>8, <1>9, Applies(p) DEF Applies

\* A step of a validation touches the staging directory and p only.
LEMMA ValidatesTypes ==
    ASSUME JobsTypeOK, NEW p \in Procs, Validates(p)
    PROVE  InstanceTypeOK' /\ op' \in [Procs -> Op] /\ UNCHANGED <<rows, dumps, live, old>>
<1>1. /\ InstanceTypeOK /\ op[p].archive \in Sources /\ NoDir \in Directory
      /\ Contents(staging) \in SUBSET Files /\ {} \in Directory
  BY Constants DEF JobsTypeOK, Op, Directory, InstanceTypeOK
<1>2. op' \in [Procs -> Op]
  BY Validates(p), ValidatesMoves DEF Validates, Moves, Turns
<1>3. UNCHANGED <<rows, dumps, live, old>>
  BY Validates(p) DEF Validates, RefuseSecret, PrepareStaging, ExtractUpload, Reject, Validated,
        instance
<1>4. ASSUME ExtractUpload(p) PROVE staging' \in Directory
  <2>1. PICK f \in op[p].todo : staging' = Contents(staging) \cup {f}
    BY <1>4 DEF ExtractUpload
  <2>2. f \in Files
    BY <2>1 DEF JobsTypeOK, Op
  <2> QED
    BY <1>1, <2>1, <2>2 DEF Directory
<1>5. staging' \in Directory
  BY <1>1, <1>4, Validates(p)
  DEF Validates, RefuseSecret, PrepareStaging, Reject, Validated, instance, InstanceTypeOK
<1> QED
  BY <1>1, <1>2, <1>3, <1>5 DEF InstanceTypeOK

\* The initial states are well typed.
LEMMA JobsInitTypes == JobsInit => JobsTypeOK
<1> SUFFICES ASSUME JobsInit PROVE JobsTypeOK
  OBVIOUS
<1>1. rows \in Rows /\ dumps \in [Dirs -> Seq(DumpType)] /\ op \in [Procs -> Op]
  BY Constants DEF JobsInit, RestoreInit, Rows, Dirs
<1>2. live \in Directory /\ staging \in Directory /\ old \in Directory
  BY Constants DEF JobsInit, RestoreInit, Directory
<1>3. InstanceTypeOK
  BY <1>1, <1>2 DEF InstanceTypeOK
<1>4. writer \in Writers /\ starts \in Nat /\ faults \in Nat
      /\ server \in {"down", "starting", "up"}
  BY DEF JobsInit, Writers
<1>5. restoreInProgress \in BOOLEAN /\ marker \in BOOLEAN /\ autoLock \in BOOLEAN
  BY Zenon DEF JobsInit
<1> QED
  BY <1>1, <1>3, <1>4, <1>5, Zenon DEF JobsTypeOK

\* A repair leaves directories (RecoverIncompleteSwap).
LEMMA RecoveryTypes ==
    ASSUME InstanceTypeOK, RecoverIncompleteSwap, UNCHANGED <<rows, dumps>>
    PROVE  InstanceTypeOK'
  BY DEF InstanceTypeOK, RecoverIncompleteSwap, Directory

\* Every step keeps the types.
LEMMA JobsTypesStep == JobsTypeOK /\ [JobsNext]_jobsVars => JobsTypeOK'
<1> SUFFICES ASSUME JobsTypeOK, [JobsNext]_jobsVars PROVE JobsTypeOK'
  OBVIOUS
<1>1. /\ NoDir \in Directory /\ Contents(live) \in Directory
      /\ InstanceTypeOK /\ op \in [Procs -> Op]
  BY Constants DEF JobsTypeOK, InstanceTypeOK, Directory
<1>2. ASSUME NEW p \in Web, Page(p) PROVE JobsTypeOK'
  <2>1. op' \in [Procs -> Op]
    BY <1>2, PageMoves DEF Page, Moves, Turns, Drops
  <2>2. InstanceTypeOK'
    BY <1>1, <1>2 DEF Page, Upload, DiscardAllPending, DiscardDropped, RefuseUpload, StagePending,
          Prune, Confirm, BeginJob, EndJob, Discard, instance, InstanceTypeOK
  <2>3. UNCHANGED <<server, marker, autoLock, writer, faults>>
    BY <1>2 DEF Page, Upload, DiscardAllPending, DiscardDropped, RefuseUpload, StagePending,
          Prune, Confirm, BeginJob, EndJob, jobVars
  <2>4. \/ restoreInProgress' = TRUE \/ restoreInProgress' = FALSE
        \/ restoreInProgress' = restoreInProgress
    BY <1>2 DEF Page, Upload, DiscardAllPending, DiscardDropped, RefuseUpload, StagePending,
          Prune, Confirm, BeginJob, EndJob, jobVars
  <2>5. starts' = starts \/ starts' = starts + 1
    BY <1>2 DEF Page, Upload, DiscardAllPending, DiscardDropped, RefuseUpload, StagePending,
          Prune, Confirm, BeginJob, EndJob, jobVars
  <2>6. restoreInProgress' \in BOOLEAN
    BY <2>4, Zenon DEF JobsTypeOK
  <2>7. starts' \in Nat
    BY <2>5 DEF JobsTypeOK
  <2> QED
    BY <2>1, <2>2, <2>3, <2>6, <2>7, Zenon DEF JobsTypeOK
<1>3. ASSUME NEW p \in Procs, Runs(p) PROVE JobsTypeOK'
  BY <1>3, ValidatesTypes, AppliesTypes DEF Runs, jobVars, JobsTypeOK
<1>4. CASE EndCommand
  <2>1. op' \in [Procs -> Op]
    BY <1>4, CommandMoves DEF Turns
  <2> QED
    BY <1>1, <1>4, <2>1 DEF EndCommand, Discard, jobVars, JobsTypeOK, InstanceTypeOK
<1>5. ASSUME NEW p \in Procs, Proceed(p) PROVE JobsTypeOK'
  <2>1. op' \in [Procs -> Op]
    BY <1>5, CommandMoves DEF Moves, Turns
  <2> QED
    BY <1>1, <1>5, <2>1 DEF Proceed, instance, jobVars, JobsTypeOK, InstanceTypeOK
<1>6. CASE SkipDump
  <2>1. op' \in [Procs -> Op]
    BY <1>6, CommandMoves DEF Moves, Turns
  <2> QED
    BY <1>1, <1>6, <2>1 DEF SkipDump, instance, jobVars, JobsTypeOK, InstanceTypeOK
<1>7. CASE Starts
  <2>1. op' \in [Procs -> Op]
    BY <1>7, StartMoves DEF Starts, Moves, Turns
  <2>2. InstanceTypeOK'
    BY <1>1, <1>7 DEF Starts, PrepareDataDirs, SkipAutoRestore, CheckAutoRestore, WriteMarker,
          StartFails, Discard, instance, InstanceTypeOK
  <2>3. /\ server' \in {"down", "starting", "up"} /\ restoreInProgress' = restoreInProgress
        /\ marker' \in BOOLEAN /\ autoLock' \in BOOLEAN
        /\ writer' = writer /\ starts' = starts /\ faults' = faults
    BY <1>7 DEF Starts, PrepareDataDirs, SkipAutoRestore, CheckAutoRestore, WriteMarker,
          StartFails, jobVars, JobsTypeOK
  <2> QED
    BY <2>1, <2>2, <2>3 DEF JobsTypeOK
<1>8. CASE Start
  <2>1. op' \in [Procs -> Op]
    BY <1>1, <1>8, StartMoves DEF Moves, Turns
  <2>2. InstanceTypeOK'
    BY <1>1, <1>8, RecoveryTypes DEF Start
  <2> QED
    BY <1>8, <2>1, <2>2 DEF Start, JobsTypeOK
<1>9. ASSUME NEW a \in Archives, Command(a) PROVE JobsTypeOK'
  <2>1. op' \in [Procs -> Op]
    BY <1>1, <1>9, CommandMoves DEF Turns
  <2>2. InstanceTypeOK'
    BY <1>1, <1>9, RecoveryTypes DEF Command
  <2> QED
    BY <1>9, <2>1, <2>2 DEF Command, JobsTypeOK
<1>10. CASE LockLapses
  BY <1>10 DEF LockLapses, restoreVars, JobsTypeOK, InstanceTypeOK
<1>11. ASSUME NEW p \in Procs, Fails(p) PROVE JobsTypeOK'
  <2>1. op' \in [Procs -> Op]
    BY <1>11, AppliesMoves DEF Fails, Moves, Turns
  <2>2. UNCHANGED <<instance, dumps>> /\ faults' \in Nat
    BY <1>11 DEF Fails, DumpFails, Rollback, JobsTypeOK
  <2> QED
    BY <1>11, <2>1, <2>2 DEF Fails, instance, JobsTypeOK, InstanceTypeOK
<1>12. CASE PassGate
  <2>1. writer' \in Writers
    BY <1>12 DEF PassGate, JobsTypeOK, Writers
  <2> QED
    BY <1>12, <2>1 DEF PassGate, restoreVars, JobsTypeOK, InstanceTypeOK
<1>13. CASE RequestWrites \/ SchedulerWrites
  <2>1. /\ writer.count + 1 \in Nat /\ writer \in [inside : BOOLEAN, count : Nat]
        /\ rows \in [from : Sources, write : Nat]
    BY DEF JobsTypeOK, InstanceTypeOK, Rows, Writers
  <2>2. rows' = [rows EXCEPT !.write = writer.count + 1]
    BY <1>13 DEF RequestWrites, SchedulerWrites, Write
  <2>3. rows' \in Rows
    BY <2>1, <2>2 DEF Rows
  <2>4. writer' \in Writers
    <3>1. CASE RequestWrites
      <4>1. writer' = [inside |-> FALSE, count |-> writer.count + 1]
        BY <3>1 DEF RequestWrites
      <4> QED
        BY <2>1, <4>1 DEF Writers
    <3>2. CASE SchedulerWrites
      <4>1. writer' = [writer EXCEPT !.count = writer.count + 1]
        BY <3>2 DEF SchedulerWrites
      <4> QED
        BY <2>1, <4>1 DEF Writers
    <3> QED
      BY <1>13, <3>1, <3>2
  <2>5. /\ UNCHANGED <<dumps, live, staging, old, op>>
        /\ UNCHANGED <<server, restoreInProgress, marker, autoLock, starts, faults>>
    BY <1>13 DEF RequestWrites, SchedulerWrites, Write
  <2> QED
    BY <2>3, <2>4, <2>5, Zenon DEF JobsTypeOK, InstanceTypeOK
<1>14. CASE Crash
  <2>1. op' \in [Procs -> Op]
    BY <1>14, StopMoves, Constants DEF Crash, InServer
  <2>2. writer' \in Writers
    BY <1>14 DEF Crash, JobsTypeOK, Writers
  <2>3. /\ server' = "down" /\ restoreInProgress' = FALSE /\ faults' = faults + 1
        /\ UNCHANGED <<rows, live, staging, old, dumps, marker, autoLock, starts>>
    BY <1>14 DEF Crash, Stop, instance
  <2>4. InstanceTypeOK' /\ server' \in {"down", "starting", "up"} /\ faults' \in Nat
    BY <2>3 DEF JobsTypeOK, InstanceTypeOK
  <2> QED
    BY <2>1, <2>2, <2>3, <2>4, Zenon DEF JobsTypeOK
<1>15. CASE KillCommand
  <2>1. op' \in [Procs -> Op]
    BY <1>15, StopMoves, Constants DEF KillCommand
  <2> QED
    BY <1>15, <2>1 DEF KillCommand, Stop, instance, JobsTypeOK, InstanceTypeOK
<1>16. CASE UNCHANGED jobsVars
  BY <1>16 DEF jobsVars, restoreVars, jobVars, JobsTypeOK, InstanceTypeOK
<1>17. CASE PruneOldArchives
  BY <1>17, PruneKeeps DEF PruneOldArchives, instance, jobVars, JobsTypeOK, InstanceTypeOK
<1> QED
  BY <1>2, <1>3, <1>4, <1>5, <1>6, <1>7, <1>8, <1>9, <1>10, <1>11, <1>12, <1>13, <1>14, <1>15,
     <1>16, <1>17, Constants DEF JobsNext, Repairs

\* A turn of an upload.
LEMMA WebRoles ==
    ASSUME Roles, NEW p \in Web, NEW s, NEW t, Turns(p, s, t), UNCHANGED server,
           s = "idle" => server = "up", t \notin {"dirs", "auto"}
    PROVE  Roles'
  BY Constants DEF Roles, Turns

\* A turn of the command line.
LEMMA CliRoles ==
    ASSUME Roles, NEW s, NEW t, Turns(Cli, s, t), UNCHANGED server,
           t \notin {"upload", "discard", "pending", "job", "dirs", "auto"}
    PROVE  Roles'
  BY Constants DEF Roles, Turns

\* A turn of the start, before which no upload is under way.
LEMMA BootRoles ==
    ASSUME Roles, NEW s, NEW t, Turns(Boot, s, t), s # "idle" \/ server = "down",
           server' = "starting" <=> t # "idle",
           t \notin {"upload", "discard", "pending", "job"}
    PROVE  Roles'
  BY Constants DEF Roles, Turns

\* Every step keeps everyone in his place.
LEMMA RolesStep == JobsTypeOK /\ Roles /\ [JobsNext]_jobsVars => Roles'
<1> SUFFICES ASSUME JobsTypeOK, Roles, [JobsNext]_jobsVars PROVE Roles'
  OBVIOUS
<1>1. ASSUME NEW p \in Web, Page(p) PROVE Roles'
  <2>1. UNCHANGED server
    BY <1>1 DEF Page, Upload, DiscardAllPending, DiscardDropped, RefuseUpload, StagePending,
          Prune, Confirm, BeginJob, EndJob, jobVars
  <2>2. CASE \E a \in Archives : Upload(p, a)
    BY <2>1, <2>2, PageMoves, WebRoles DEF Upload, Admits
  <2>3. CASE DiscardAllPending(p)
    <3>1. Drops(p)
      BY <2>3, PageMoves
    <3> QED
      BY <2>1, <3>1, Constants DEF Drops, Roles
  <2>4. ASSUME NEW s, NEW t, Turns(p, s, t), s # "idle", t \notin {"dirs", "auto"} PROVE Roles'
    BY <2>1, <2>4, WebRoles
  <2>5. CASE DiscardDropped(p)
    BY <2>4, <2>5, PageMoves DEF Moves
  <2>6. CASE RefuseUpload(p)
    BY <2>4, <2>6, PageMoves
  <2>7. CASE StagePending(p)
    BY <2>4, <2>7, PageMoves DEF Moves
  <2>8. CASE Prune(p)
    BY <2>4, <2>8, PageMoves
  <2>9. CASE Confirm(p)
    BY <2>4, <2>9, PageMoves DEF Moves
  <2>10. CASE BeginJob(p)
    BY <2>4, <2>10, PageMoves DEF Moves
  <2>11. CASE EndJob(p)
    BY <2>4, <2>11, PageMoves
  <2> QED
    BY <1>1, <2>2, <2>3, <2>5, <2>6, <2>7, <2>8, <2>9, <2>10, <2>11 DEF Page
<1>2. ASSUME NEW p \in Procs, NEW s, NEW t, Turns(p, s, t), UNCHANGED server,
             s \notin {"idle", "dirs", "auto"},
             t \notin {"idle", "upload", "discard", "pending", "job", "dirs", "auto"}
      PROVE  Roles'
  <2>1. CASE p \in Web
    BY <1>2, <2>1, WebRoles
  <2>2. CASE p = Cli
    BY <1>2, <2>2, CliRoles
  <2>3. CASE p = Boot
    BY <1>2, <2>3, BootRoles DEF Roles, Turns
  <2> QED
    BY <2>1, <2>2, <2>3, Constants
<1>3. ASSUME NEW p \in Procs, Validates(p), UNCHANGED server PROVE Roles'
  BY <1>2, <1>3, ValidatesMoves DEF Validates, Moves
<1>4. ASSUME NEW p \in Procs, Applies(p) \/ DumpFails(p) \/ Rollback(p), UNCHANGED server
      PROVE  Roles'
  BY <1>2, <1>4, AppliesMoves DEF Applies, Moves
<1>5. CASE EndCommand
  BY <1>5, CommandMoves, CliRoles DEF EndCommand, jobVars
<1>6. ASSUME NEW p \in Procs, Proceed(p) PROVE Roles'
  BY <1>2, <1>6, CommandMoves DEF Proceed, Moves, jobVars
<1>7. CASE SkipDump
  BY <1>2, <1>7, CommandMoves, Constants DEF SkipDump, Moves, jobVars
<1>8. CASE Starts
  <2>1. CASE PrepareDataDirs
    BY <2>1, StartMoves, BootRoles DEF PrepareDataDirs, Moves, Turns, jobVars, Roles
  <2>2. CASE SkipAutoRestore
    BY <2>2, StartMoves, BootRoles DEF SkipAutoRestore
  <2>3. CASE CheckAutoRestore
    BY <2>3, StartMoves, BootRoles DEF CheckAutoRestore, Turns, Roles
  <2>4. CASE WriteMarker
    BY <2>4, StartMoves, BootRoles DEF WriteMarker
  <2>5. CASE StartFails
    BY <2>5, StartMoves, BootRoles DEF StartFails
  <2> QED
    BY <1>8, <2>1, <2>2, <2>3, <2>4, <2>5 DEF Starts
<1>9. CASE Start
  <2>1. CASE SwapWasCut
    BY <1>9, <2>1 DEF Start, Roles
  <2>2. CASE ~ SwapWasCut
    <3>1. PICK s \in Steps : Turns(Boot, s, "dirs")
      BY <1>9, <2>2, StartMoves DEF Moves
    <3> QED
      BY <1>9, <2>2, <3>1, BootRoles DEF Start
  <2> QED
    BY <2>1, <2>2
<1>10. ASSUME NEW a \in Archives, Command(a) PROVE Roles'
  <2>1. CASE op' = op
    BY <1>10, <2>1 DEF Command, Roles
  <2>2. CASE Turns(Cli, "idle", "prepare")
    BY <1>10, <2>2, CliRoles DEF Command
  <2> QED
    BY <1>10, <2>1, <2>2, CommandMoves
<1>11. CASE UNCHANGED <<op, server>>
  BY <1>11 DEF Roles
<1>12. CASE Crash
  BY <1>12, StopMoves, Constants DEF Crash, InServer, Roles
<1>13. CASE KillCommand
  BY <1>13, StopMoves, Constants DEF KillCommand, Roles
<1>14. CASE LockLapses \/ PassGate \/ PruneOldArchives \/ RequestWrites \/ SchedulerWrites \/ UNCHANGED jobsVars
  BY <1>11, <1>14
  DEF LockLapses, PassGate, PruneOldArchives, instance, jobVars, RequestWrites, SchedulerWrites, Write, restoreVars, jobVars, jobsVars
<1> QED
  BY <1>1, <1>3, <1>4, <1>5, <1>6, <1>7, <1>8, <1>9, <1>10, <1>12, <1>13, <1>14, Constants
  DEF JobsNext, Repairs, Runs, Fails, jobVars

\* The steps of jobs, of those who work on what was looked at before, and of
\* those between the commit and the last rename.
JobSteps == {"check", "dump", "tx", "clear", "aside", "place", "tidy", "done", "failed"}
ApplySteps == {"dump", "tx", "clear", "aside", "place", "tidy"}
TornSteps == {"clear", "aside", "place"}

\* What the groups of steps are called (InJob, Applying, Torn, Exposed).
LEMMA StepNames ==
    /\ \A p \in Web : InJob(p) <=> op[p].step \in JobSteps
    /\ \A p \in Web : InJob(p)' <=> op'[p].step \in JobSteps
    /\ \A p : Torn(p) <=> op[p].step \in TornSteps
    /\ \A p : Torn(p)' <=> op'[p].step \in TornSteps
    /\ \A p : op[p].step \in ApplySteps => Exposed(p)
    /\ op[Boot].step # "idle" /\ op[Boot].step # "pending" => Exposed(Boot)
    /\ \A p : Busy(p)' <=> op'[p].step \notin {"idle", "pending"}
  BY DEF InJob, Applying, Torn, Exposed, Busy, JobSteps, ApplySteps, TornSteps

\* Which events a step tells of stays told of, but for those of an older commit.
LEMMA EventsStay ==
    ASSUME [JobsNext]_jobsVars, NEW e \in events, e \notin {"told", "early"}
    PROVE  e \in events'
<1>1. ASSUME NEW p \in Procs, Witness(p) PROVE e \in events'
  BY <1>1 DEF Witness
<1>2. ASSUME NEW p \in Procs, Repairs(p) PROVE e \in events'
  BY <1>2 DEF Repairs
<1>3. CASE SkipDump \/ (LockLapses /\ UNCHANGED events) \/ PassGate \/ PruneOldArchives \/ UNCHANGED jobsVars
  BY <1>3 DEF SkipDump, PassGate, PruneOldArchives, jobsVars
<1>4. CASE RequestWrites \/ SchedulerWrites
  BY <1>4 DEF RequestWrites, SchedulerWrites, Write
<1>5. CASE Crash \/ KillCommand
  BY <1>5 DEF Crash, KillCommand, Stop
<1> QED
  BY <1>1, <1>2, <1>3, <1>4, <1>5, Constants DEF JobsNext, Fails

-------------------------------------------------------------------------------
(* The gate.                                                               *)

\* Nobody begins a job and the flag stays, or a job ends.
LEMMA GateStays ==
    ASSUME JobGate, [JobsNext]_jobsVars,
           \A q \in Web : op'[q].step \in JobSteps => op[q].step \in JobSteps,
           \/ restoreInProgress' = restoreInProgress
           \/ \E p \in Web : op[p].step \in JobSteps /\ op'[p].step \notin JobSteps
    PROVE  JobGate'
<1>1. "overlap" \in events => "overlap" \in events'
  BY EventsStay
<1>2. \A q \in Web : InJob(q)' => InJob(q)
  BY StepNames
<1>3. (\A p, q \in Web : p # q /\ InJob(p) /\ InJob(q) => "overlap" \in events)'
  BY <1>1, <1>2 DEF JobGate
<1>4. GateClosed'
  <2>1. CASE restoreInProgress' = restoreInProgress
    BY <1>1, <1>2, <2>1 DEF JobGate, GateClosed
  <2>2. ASSUME NEW p \in Web, op[p].step \in JobSteps, op'[p].step \notin JobSteps
        PROVE  GateClosed'
    <3> SUFFICES ASSUME NEW q \in Web, InJob(q)' PROVE "overlap" \in events'
      BY DEF GateClosed
    <3>1. InJob(p) /\ ~ InJob(p)' /\ InJob(q)
      BY <1>2, <2>2, StepNames
    <3>2. p # q
      BY <3>1
    <3> QED
      BY <1>1, <3>1, <3>2 DEF JobGate
  <2> QED
    BY <2>1, <2>2
<1> QED
  BY <1>3, <1>4 DEF JobGate

\* Every step keeps the gate closed over jobs.
LEMMA GateStep == JobsTypeOK /\ Roles /\ JobGate /\ [JobsNext]_jobsVars => JobGate'
<1> SUFFICES ASSUME JobsTypeOK, Roles, JobGate, [JobsNext]_jobsVars PROVE JobGate'
  OBVIOUS
<1> USE DEF JobSteps
<1>1. ASSUME NEW p \in Procs, NEW s, NEW t, Turns(p, s, t), UNCHANGED restoreInProgress,
             s \in JobSteps \/ t \notin JobSteps \/ p \notin Web
      PROVE  JobGate'
  BY <1>1, GateStays, Constants DEF Turns
<1>2. ASSUME NEW p \in Web, Page(p), Witness(p) PROVE JobGate'
  <2>1. p \in Procs
    BY Constants
  <2>2. CASE \E a \in Archives : Upload(p, a)
    BY <1>1, <2>1, <2>2, PageMoves DEF Upload
  <2>3. CASE DiscardAllPending(p)
    <3>1. Drops(p) /\ UNCHANGED restoreInProgress
      BY <2>3, PageMoves DEF DiscardAllPending, jobVars
    <3> QED
      BY <3>1, GateStays, Constants DEF Drops
  <2>4. CASE DiscardDropped(p)
    BY <1>1, <2>1, <2>4, PageMoves DEF DiscardDropped, Moves, jobVars
  <2>5. CASE RefuseUpload(p)
    BY <1>1, <2>1, <2>5, PageMoves DEF RefuseUpload, jobVars
  <2>6. CASE StagePending(p)
    BY <1>1, <2>1, <2>6, PageMoves DEF StagePending, Moves, jobVars
  <2>7. CASE Prune(p)
    BY <1>1, <2>1, <2>7, PageMoves DEF Prune, jobVars
  <2>8. CASE Confirm(p)
    BY <1>1, <2>1, <2>8, PageMoves DEF Confirm, Moves, jobVars
  <2>9. CASE BeginJob(p)
    <3>1. Turns(p, "job", "check") /\ restoreInProgress' = TRUE
      BY <2>9, PageMoves DEF BeginJob, Moves
    <3>2. \A q \in Web \ {p} : InJob(q)' <=> InJob(q)
      BY <3>1, Constants, StepNames DEF Turns
    <3>3. InJob(p)'
      BY <3>1, StepNames DEF Turns
    <3>4. \A q \in Web \ {p} : InJob(q) => "overlap" \in events'
      BY <1>2, <3>3 DEF Witness
    <3>5. "overlap" \in events => "overlap" \in events'
      BY EventsStay
    <3>6. (\A q, r \in Web : q # r /\ InJob(q) /\ InJob(r) => "overlap" \in events)'
      BY <3>2, <3>4, <3>5 DEF JobGate
    <3> QED
      BY <3>1, <3>6 DEF JobGate, GateClosed
  <2>10. CASE EndJob(p)
    BY <2>1, <2>10, PageMoves, GateStays, Constants DEF Turns
  <2> QED
    BY <1>2, <2>2, <2>3, <2>4, <2>5, <2>6, <2>7, <2>8, <2>9, <2>10 DEF Page
<1>3. ASSUME NEW p \in Procs, Runs(p) PROVE JobGate'
  BY <1>1, <1>3, ValidatesMoves, AppliesMoves DEF Runs, Validates, Applies, Moves, jobVars
<1>4. CASE EndCommand
  BY <1>1, <1>4, CommandMoves, Constants DEF EndCommand, jobVars
<1>5. ASSUME NEW p \in {Cli, Boot}, Proceed(p) PROVE JobGate'
  BY <1>1, <1>5, CommandMoves, Constants DEF Proceed, Moves, jobVars
<1>6. CASE SkipDump
  BY <1>1, <1>6, CommandMoves, Constants DEF SkipDump, Moves, jobVars
<1>7. CASE Starts
  <2>1. UNCHANGED restoreInProgress
    BY <1>7 DEF Starts, PrepareDataDirs, SkipAutoRestore, CheckAutoRestore, WriteMarker,
          StartFails, jobVars
  <2> QED
    BY <1>1, <1>7, <2>1, StartMoves, Constants DEF Starts, Moves
<1>8. CASE Start
  <2>1. UNCHANGED restoreInProgress
    BY <1>8 DEF Start
  <2>2. CASE op' = op
    BY <2>1, <2>2, GateStays
  <2> QED
    BY <1>1, <1>8, <2>1, <2>2, StartMoves, Constants DEF Moves
<1>9. ASSUME NEW a \in Archives, Command(a) PROVE JobGate'
  <2>1. UNCHANGED restoreInProgress
    BY <1>9 DEF Command
  <2>2. CASE op' = op
    BY <2>1, <2>2, GateStays
  <2> QED
    BY <1>1, <1>9, <2>1, <2>2, CommandMoves, Constants
<1>10. ASSUME NEW p \in Procs, Fails(p) PROVE JobGate'
  BY <1>1, <1>10, AppliesMoves DEF Fails, Moves
<1>11. CASE LockLapses \/ PassGate \/ PruneOldArchives \/ RequestWrites \/ SchedulerWrites \/ UNCHANGED jobsVars
  <2>1. UNCHANGED <<op, restoreInProgress>>
    BY <1>11
    DEF LockLapses, PassGate, PruneOldArchives, instance, jobVars, RequestWrites, SchedulerWrites, Write, restoreVars, jobVars, jobsVars
  <2> QED
    BY <2>1, GateStays
<1>12. CASE Crash
  <2>1. \A q \in Web : ~ InJob(q)'
    BY <1>12, StopMoves, StepNames, Constants DEF Crash, InServer
  <2> QED
    BY <2>1 DEF JobGate, GateClosed
<1>13. CASE KillCommand
  <2>1. \A q \in Web : op'[q] = op[q]
    BY <1>13, StopMoves, Constants DEF KillCommand
  <2> QED
    BY <1>13, <2>1, GateStays DEF KillCommand
<1> QED
  BY <1>2, <1>3, <1>4, <1>5, <1>6, <1>7, <1>8, <1>9, <1>10, <1>11, <1>12, <1>13, Constants
  DEF JobsNext, Repairs

-------------------------------------------------------------------------------
(* The way back.                                                           *)

\* Past the safety dump, and before the old uploads are gone.
PastSteps == {"tx", "clear", "aside", "place", "tidy"}

\* Nobody comes past the dump but by a dump, or by skipping it.
LEMMA PastTheDump ==
    ASSUME JobsTypeOK, [JobsNext]_jobsVars, NEW p \in Procs
    PROVE  \/ SafetyDump(p) /\ UNCHANGED jobVars
           \/ SkipDump
           \/ /\ op'[p].step \in PastSteps => op[p].step \in PastSteps
              /\ op'[p].step = "tx" => op'[p] = op[p]
<1> DEFINE Stays == /\ op'[p].step \in PastSteps => op[p].step \in PastSteps
                    /\ op'[p].step = "tx" => op'[p] = op[p]
<1> SUFFICES ASSUME ~ (SafetyDump(p) /\ UNCHANGED jobVars), ~ SkipDump PROVE Stays
  OBVIOUS
<1> USE DEF PastSteps
<1>1. ASSUME NEW q \in Procs, NEW s, NEW t, Turns(q, s, t),
             t # "tx", s \in PastSteps \/ t \notin PastSteps
      PROVE  Stays
  BY <1>1 DEF Turns
<1>2. ASSUME NEW q \in Web, Page(q) PROVE Stays
  <2>1. q \in Procs
    BY Constants
  <2>2. CASE DiscardAllPending(q)
    BY <2>1, <2>2, PageMoves, Constants DEF Drops
  <2> QED
    BY <1>1, <1>2, <2>1, <2>2, PageMoves DEF Page, Moves
<1>3. ASSUME NEW q \in Procs, Runs(q) PROVE Stays
  <2>1. CASE Validates(q)
    BY <1>1, <2>1, ValidatesMoves DEF Validates, Moves
  <2>2. CASE SafetyDump(q)
    <3>1. q # p
      BY <1>3, <2>2 DEF Runs
    <3> QED
      BY <2>2, <3>1, AppliesMoves DEF Moves, Turns
  <2>3. CASE Applies(q) /\ ~ SafetyDump(q)
    BY <1>1, <2>3, AppliesMoves DEF Applies, Moves
  <2> QED
    BY <1>3, <2>1, <2>2, <2>3 DEF Runs
<1>4. CASE EndCommand
  BY <1>1, <1>4, CommandMoves, Constants
<1>5. ASSUME NEW q \in {Cli, Boot}, Proceed(q) PROVE Stays
  BY <1>1, <1>5, CommandMoves, Constants DEF Moves
<1>6. CASE Starts
  BY <1>1, <1>6, StartMoves, Constants DEF Starts, Moves
<1>7. CASE op' = op
  BY <1>7
<1>8. CASE Start
  BY <1>1, <1>7, <1>8, StartMoves, Constants DEF Moves
<1>9. ASSUME NEW a \in Archives, Command(a) PROVE Stays
  BY <1>1, <1>7, <1>9, CommandMoves, Constants
<1>10. ASSUME NEW q \in Procs, Fails(q) PROVE Stays
  BY <1>1, <1>10, AppliesMoves DEF Fails, Moves
<1>11. CASE LockLapses \/ PassGate \/ PruneOldArchives \/ RequestWrites \/ SchedulerWrites \/ UNCHANGED jobsVars
  BY <1>7, <1>11
  DEF LockLapses, PassGate, PruneOldArchives, instance, jobVars, RequestWrites, SchedulerWrites, Write, restoreVars, jobsVars
<1>12. ASSUME NEW stopped \in SUBSET Procs, Stop(stopped) PROVE Stays
  BY <1>12, StopMoves
<1>13. CASE Crash \/ KillCommand
  BY <1>12, <1>13, Constants DEF Crash, KillCommand, InServer
<1> QED
  BY <1>2, <1>3, <1>4, <1>5, <1>6, <1>8, <1>9, <1>10, <1>11, <1>13, Constants
  DEF JobsNext, Repairs

\* The dumps change when one is made and when old ones are removed.
LEMMA DumpsChange ==
    ASSUME [JobsNext]_jobsVars, dumps' # dumps
    PROVE  PruneOldArchives \/ \E p \in Procs : SafetyDump(p) /\ Witness(p)
<1>1. ASSUME NEW p \in Web, Page(p) PROVE FALSE
  BY <1>1 DEF Page, Upload, DiscardAllPending, DiscardDropped, RefuseUpload, StagePending,
        Prune, Confirm, BeginJob, EndJob
<1>2. ASSUME NEW p \in Procs, Validates(p) PROVE FALSE
  BY <1>2 DEF Validates, RefuseSecret, PrepareStaging, ExtractUpload, Reject, Validated
<1>3. ASSUME NEW p \in Procs, Applies(p) PROVE SafetyDump(p)
  BY <1>3 DEF Applies, CheckStaging, ApplyTx, ClearOld, MoveAside, PlaceStaged, PutBack, RemoveOld
<1>4. ASSUME NEW p \in Procs, Fails(p) PROVE FALSE
  BY <1>4 DEF Fails, DumpFails, Rollback
<1>5. CASE Starts
  BY <1>5 DEF Starts, PrepareDataDirs, SkipAutoRestore, CheckAutoRestore, WriteMarker, StartFails
<1>6. ASSUME NEW p \in Procs, EndCommand \/ Proceed(p) \/ SkipDump PROVE FALSE
  BY <1>6 DEF EndCommand, Proceed, SkipDump
<1>7. ASSUME NEW p, Repairs(p) PROVE FALSE
  BY <1>7 DEF Repairs, Start, Command
<1>8. CASE \/ LockLapses \/ PassGate \/ RequestWrites \/ SchedulerWrites \/ Crash \/ KillCommand
           \/ UNCHANGED jobsVars
  BY <1>8 DEF LockLapses, PassGate, RequestWrites, SchedulerWrites, Write, Crash, KillCommand, Stop,
        restoreVars, jobsVars
<1> QED
  BY <1>1, <1>2, <1>3, <1>4, <1>5, <1>6, <1>7, <1>8, Constants DEF JobsNext, Runs

\* A dump's contents are lost to another's name or to retention only.
LEMMA HeldStays ==
    ASSUME JobsTypeOK, [JobsNext]_jobsVars
    PROVE  \/ Held \subseteq Held'
           \/ "replaced" \in events'
           \/ PrunedToKeep'
<1>1. CASE dumps' = dumps
  BY <1>1 DEF Held
<1>2. ASSUME NEW p \in Procs, SafetyDump(p), Witness(p)
      PROVE  Held \subseteq Held' \/ "replaced" \in events'
  BY <1>2 DEF SafetyDump, Witness
<1>3. ASSUME PruneOldArchives PROVE Held \subseteq Held' \/ PrunedToKeep'
  BY <1>3, PruneKeeps DEF PruneOldArchives, PrunedToKeep
<1> QED
  BY <1>1, <1>2, <1>3, DumpsChange

\* Where retention has been, as many stay as it keeps.
LEMMA PrunedStays ==
    ASSUME JobsTypeOK, [JobsNext]_jobsVars, PrunedToKeep
    PROVE  PrunedToKeep'
<1>1. "pruned" \in events'
  BY EventsStay DEF PrunedToKeep
<1>2. Keep \in Int /\ Len(dumps["backup"]) \in Nat /\ "backup" \in Dirs
  BY Constants, LenProperties DEF JobsTypeOK, InstanceTypeOK, Dirs
<1>3. CASE dumps' = dumps
  BY <1>1, <1>3 DEF PrunedToKeep
<1>4. ASSUME NEW p \in Procs, SafetyDump(p) PROVE Len(dumps'["backup"]) >= Keep
  <2>1. dumps' \in [Dirs -> Seq(DumpType)] /\ Len(dumps'["backup"]) >= Len(dumps["backup"])
    BY <1>2, <1>4, SaveKeeps DEF SafetyDump
  <2>2. Len(dumps'["backup"]) \in Nat
    BY <1>2, <2>1, LenProperties
  <2> QED
    BY <1>2, <2>1, <2>2 DEF PrunedToKeep
<1>5. PruneOldArchives => Len(dumps'["backup"]) >= Keep
  BY PruneKeeps
<1> QED
  BY <1>1, <1>3, <1>4, <1>5, DumpsChange DEF PrunedToKeep

\* The newest dump has the rows as long as they stay.
LEMMA RowsKeptStays ==
    ASSUME JobsTypeOK, [JobsNext]_jobsVars, RowsKept, rows' = rows
    PROVE  RowsKept'
<1>1. CASE dumps' = dumps
  BY <1>1 DEF RowsKept
<1>2. ASSUME NEW p \in Procs, SafetyDump(p) PROVE RowsKept'
  BY <1>2, SaveKeeps DEF SafetyDump, RowsKept, Copy
<1>3. CASE PruneOldArchives
  <2>1. PICK dir \in Dirs : dumps[dir] # <<>> /\ dumps[dir][Len(dumps[dir])].rows = rows
    BY DEF RowsKept
  <2>2. dumps'[dir] # <<>> /\ dumps'[dir][Len(dumps'[dir])] = dumps[dir][Len(dumps[dir])]
    BY <1>3, <2>1, PruneKeeps
  <2> QED
    BY <2>1, <2>2 DEF RowsKept
<1> QED
  BY <1>1, <1>2, <1>3, DumpsChange

\* Rows change by a commit, or by a write, which tells of a restore it slips past.
LEMMA RowsChange ==
    ASSUME JobsTypeOK, [JobsNext]_jobsVars, rows' # rows
    PROVE  \/ \E p \in Procs : ApplyTx(p) /\ Witness(p)
           \/ /\ (\E p \in Procs : At(p, "tx")) => "slipped" \in events'
              /\ rows'.from = rows.from
<1>1. ASSUME NEW p \in Web, Page(p) PROVE rows' = rows
  BY <1>1 DEF Page, Upload, DiscardAllPending, DiscardDropped, RefuseUpload, StagePending,
        Prune, Confirm, BeginJob, EndJob, instance
<1>2. ASSUME NEW p \in Procs, Validates(p) PROVE rows' = rows
  BY <1>2 DEF Validates, RefuseSecret, PrepareStaging, ExtractUpload, Reject, Validated, instance
<1>3. ASSUME NEW p \in Procs, Applies(p), ~ ApplyTx(p) PROVE rows' = rows
  BY <1>3 DEF Applies, CheckStaging, SafetyDump, ClearOld, MoveAside, PlaceStaged,
        PutBack, RemoveOld, instance
<1>4. ASSUME NEW p \in Procs, Fails(p) PROVE rows' = rows
  BY <1>4 DEF Fails, DumpFails, Rollback, instance
<1>5. Starts => rows' = rows
  BY DEF Starts, PrepareDataDirs, SkipAutoRestore, CheckAutoRestore, WriteMarker, StartFails,
        instance
<1>6. ASSUME NEW p \in Procs, EndCommand \/ Proceed(p) \/ SkipDump PROVE rows' = rows
  BY <1>6 DEF EndCommand, Proceed, SkipDump, instance
<1>7. ASSUME NEW p, Repairs(p) PROVE rows' = rows
  BY <1>7 DEF Repairs, Start, Command
<1>8. LockLapses \/ PassGate \/ PruneOldArchives \/ Crash \/ KillCommand \/ UNCHANGED jobsVars => rows' = rows
  BY DEF LockLapses, PassGate, PruneOldArchives, Crash, KillCommand, Stop, restoreVars, jobsVars, instance
<1>9. ASSUME Write
      PROVE  /\ (\E p \in Procs : At(p, "tx")) => "slipped" \in events'
             /\ rows'.from = rows.from
  BY <1>9 DEF Write, JobsTypeOK, InstanceTypeOK, Rows
<1> QED
  BY <1>1, <1>2, <1>3, <1>4, <1>5, <1>6, <1>7, <1>8, <1>9, Constants
  DEF JobsNext, Runs, RequestWrites, SchedulerWrites

\* A loss is told of by whoever commits over rows that are in no dump.
LEMMA NewLoss ==
    ASSUME JobsTypeOK, [JobsNext]_jobsVars, "lost" \in events', "lost" \notin events
    PROVE  \E p \in Procs : At(p, "tx") /\ ~ RowsKept
<1>1. ASSUME NEW p \in Procs, Witness(p) PROVE At(p, "tx") /\ ~ RowsKept
  <2>1. \A dir \in Dirs : dumps[dir] # <<>> => dumps[dir][Len(dumps[dir])] \in Held
    BY NewestIsHeld DEF JobsTypeOK, InstanceTypeOK, Held
  <2> QED
    BY <1>1, <2>1 DEF Witness, RowsKept
<1>2. ASSUME NEW p, Repairs(p) PROVE FALSE
  BY <1>2 DEF Repairs
<1>3. CASE SkipDump \/ (LockLapses /\ UNCHANGED events) \/ PassGate \/ PruneOldArchives \/ UNCHANGED jobsVars
  BY <1>3 DEF SkipDump, PassGate, PruneOldArchives, jobsVars
<1>4. CASE RequestWrites \/ SchedulerWrites
  BY <1>4 DEF RequestWrites, SchedulerWrites, Write
<1>5. CASE Crash \/ KillCommand
  BY <1>5 DEF Crash, KillCommand, Stop
<1> QED
  BY <1>1, <1>2, <1>3, <1>4, <1>5, Constants DEF JobsNext, Fails

\* Every step keeps the copies.
LEMMA CopiesStep == JobsTypeOK /\ Copies /\ [JobsNext]_jobsVars => Copies'
<1> SUFFICES ASSUME JobsTypeOK, Copies, [JobsNext]_jobsVars PROVE Copies'
  OBVIOUS
<1>1. Excused => Excused'
  BY EventsStay DEF Excused
<1>2. RowsKept /\ rows' = rows => RowsKept'
  BY RowsKeptStays
<1>3. ASSUME NEW p \in Procs, At(p, "tx")' PROVE RowsKept' \/ Excused'
  <2>1. CASE SafetyDump(p)
    <3>1. rows' = rows
      BY <2>1 DEF SafetyDump, instance
    <3> QED
      BY <2>1, <3>1, SaveKeeps DEF SafetyDump, RowsKept, Copy
  <2>2. CASE SkipDump
    BY <2>2 DEF SkipDump, Excused
  <2>3. CASE op'[p] = op[p]
    <3>1. At(p, "tx") /\ (RowsKept \/ Excused)
      BY <1>3, <2>3 DEF At, Copies
    <3>2. ASSUME NEW q \in Procs, ApplyTx(q), Witness(q), rows' # rows PROVE Excused'
      <4>1. q # p
        BY <2>3, <3>1, <3>2, AppliesMoves DEF Moves, Turns, At
      <4>2. Exposed(p)
        BY <3>1, StepNames DEF At, ApplySteps
      <4>3. instance' # instance
        BY <3>2 DEF instance
      <4> QED
        BY <3>2, <4>1, <4>2, <4>3 DEF Witness, Excused
    <3>3. CASE rows' # rows
      BY <3>1, <3>2, <3>3, RowsChange DEF Excused
    <3> QED
      BY <1>1, <1>2, <3>1, <3>3
  <2> QED
    BY <1>3, <2>1, <2>2, <2>3, PastTheDump DEF At
<1>4. WayBack'
  <2> SUFFICES ASSUME "lost" \in events' PROVE Excused'
    BY DEF WayBack, Excused
  <2>1. CASE "lost" \in events
    BY <1>1, <2>1 DEF Copies, WayBack, Excused
  <2>2. CASE "lost" \notin events
    BY <1>1, <2>2, NewLoss DEF Copies
  <2> QED
    BY <2>1, <2>2
<1> QED
  BY <1>3, <1>4 DEF Copies

-------------------------------------------------------------------------------
(* The originals.                                                          *)

\* The upload directory changes only in the renames of a swap, or where there is none.
LEMMA LiveChanges ==
    ASSUME [JobsNext]_jobsVars, live # NoDir, live' # live
    PROVE  \E p \in Procs : op[p].step \in {"aside", "place"}
<1>1. ASSUME NEW p \in Web, Page(p) PROVE live' = live
  BY <1>1 DEF Page, Upload, DiscardAllPending, DiscardDropped, RefuseUpload, StagePending,
        Prune, Confirm, BeginJob, EndJob, instance
<1>2. ASSUME NEW p \in Procs, Validates(p) PROVE live' = live
  BY <1>2 DEF Validates, RefuseSecret, PrepareStaging, ExtractUpload, Reject, Validated, instance
<1>3. ASSUME NEW p \in Procs, Applies(p), op[p].step \notin {"aside", "place"} PROVE live' = live
  BY <1>3 DEF Applies, CheckStaging, SafetyDump, ApplyTx, ClearOld, MoveAside, PlaceStaged,
        PutBack, RemoveOld, instance, At
<1>4. ASSUME NEW p \in Procs, Fails(p) PROVE live' = live
  BY <1>4 DEF Fails, DumpFails, Rollback, instance
<1>5. Starts => live' = live
  BY DEF Starts, PrepareDataDirs, SkipAutoRestore, CheckAutoRestore, WriteMarker, StartFails,
        instance, Contents
<1>6. ASSUME NEW p \in Procs, EndCommand \/ Proceed(p) \/ SkipDump PROVE live' = live
  BY <1>6 DEF EndCommand, Proceed, SkipDump, instance
<1>7. ASSUME NEW p, Repairs(p) PROVE live' = live
  BY <1>7 DEF Repairs, Start, Command, RecoverIncompleteSwap, SwapWasCut
<1>8. \/ LockLapses \/ PassGate \/ PruneOldArchives \/ RequestWrites \/ SchedulerWrites \/ Crash \/ KillCommand
      \/ UNCHANGED jobsVars
      => live' = live
  BY DEF LockLapses, PassGate, PruneOldArchives, instance, jobVars, RequestWrites, SchedulerWrites, Write, Crash, KillCommand, Stop,
        restoreVars, jobsVars, instance
<1> QED
  BY <1>1, <1>2, <1>3, <1>4, <1>5, <1>6, <1>7, <1>8, Constants DEF JobsNext, Runs

\* Every step keeps the originals.
LEMMA OriginalsStep == JobsTypeOK /\ Originals /\ [JobsNext]_jobsVars => Originals'
<1> SUFFICES ASSUME JobsTypeOK, Originals, [JobsNext]_jobsVars PROVE Originals'
  OBVIOUS
<1>1. CASE events \cap {"skipped", "replaced"} # {} \/ PrunedToKeep
  BY <1>1, EventsStay, PrunedStays DEF Originals
<1>2. CASE UploadsOf[Before] \in {d.uploads : d \in Held}
  BY <1>2, HeldStays DEF Originals
<1>3. CASE /\ live = UploadsOf[Before]
           /\ \A p \in Procs : op[p].step \notin PastSteps
  <2>1. live # NoDir
    BY <1>3, Constants
  <2>2. live' = live
    BY <1>3, <2>1, LiveChanges DEF PastSteps
  <2>3. CASE SkipDump
    BY <2>3 DEF SkipDump, Originals
  <2>4. ASSUME NEW p \in Procs, SafetyDump(p) PROVE Originals'
    <3>1. Copy \in Held'
      BY <2>4, SaveKeeps, NewestIsHeld DEF SafetyDump, Held
    <3>2. Copy.uploads = UploadsOf[Before]
      BY <1>3, <2>1 DEF Copy, Contents
    <3> QED
      BY <3>1, <3>2 DEF Originals
  <2>5. CASE \A p \in Procs : op'[p].step \notin PastSteps
    BY <1>3, <2>2, <2>5 DEF Originals, PastSteps
  <2> QED
    BY <1>3, <2>3, <2>4, <2>5, PastTheDump
<1> QED
  BY <1>1, <1>2, <1>3 DEF Originals, PastSteps

-------------------------------------------------------------------------------
(* Rows and uploads.                                                       *)

\* While p works on directories, whoever else changes them or the rows is told of
\* (crowded), but for ordinary writes.
LEMMA OthersLeave ==
    ASSUME JobsTypeOK, Roles, [JobsNext]_jobsVars, "crowded" \notin events',
           NEW p \in Procs, op[p].step \in ApplySteps \cup {"dirs"}, op'[p] = op[p]
    PROVE  UNCHANGED <<live, staging, old>> /\ rows'.from = rows.from
<1> DEFINE Left == UNCHANGED <<live, staging, old>> /\ rows'.from = rows.from
<1> USE DEF ApplySteps
<1>1. Exposed(p)
  BY StepNames, Constants DEF Roles
<1>2. instance' = instance => Left
  BY DEF instance
<1>3. ASSUME NEW q \in Procs, NEW s, NEW t, Turns(q, s, t),
             s # t \/ s \notin ApplySteps \cup {"dirs"}
      PROVE  q # p
  BY <1>3 DEF Turns
<1>4. ASSUME NEW q \in Procs, q # p, Witness(q) PROVE Left
  BY <1>1, <1>2, <1>4 DEF Witness
<1>5. ASSUME NEW q \in Web, Page(q), Witness(q) PROVE Left
  <2>1. q \in Procs
    BY Constants
  <2>2. CASE DiscardAllPending(q)
    BY <1>2, <2>2 DEF DiscardAllPending
  <2> QED
    BY <1>3, <1>4, <1>5, <2>1, <2>2, PageMoves DEF Page, Moves
<1>6. ASSUME NEW q \in Procs, Validates(q), Witness(q) PROVE Left
  <2>1. q # p
    BY <1>3, <1>6, ValidatesMoves DEF Validates, Moves
  <2> QED
    BY <1>4, <1>6, <2>1
<1>7. ASSUME NEW q \in Procs, Applies(q), Witness(q) PROVE Left
  <2>1. q # p
    BY <1>3, <1>7, AppliesMoves DEF Applies, Moves
  <2> QED
    BY <1>4, <1>7, <2>1
<1>8. CASE EndCommand /\ Witness(Cli)
  BY <1>3, <1>4, <1>8, CommandMoves, Constants
<1>9. ASSUME NEW q \in Procs, Proceed(q) \/ SkipDump \/ Fails(q) PROVE Left
  BY <1>2, <1>9 DEF Proceed, SkipDump, Fails, DumpFails, Rollback, instance
<1>10. CASE Starts /\ Witness(Boot)
  <2>1. Boot # p
    BY <1>3, <1>10, StartMoves, Constants DEF Starts, Moves
  <2> QED
    BY <1>4, <1>10, <2>1, Constants
<1>11. CASE Repairs(Boot)
  <2>1. op[Boot].step = "idle"
    BY <1>11, Constants DEF Repairs, Start, Roles
  <2> QED
    BY <1>1, <1>2, <1>11, <2>1 DEF Repairs
<1>12. CASE Repairs(Cli)
  <2>1. op[Cli].step = "idle"
    BY <1>12, Constants DEF Repairs, Command, At
  <2> QED
    BY <1>1, <1>2, <1>12, <2>1 DEF Repairs
<1>13. CASE LockLapses \/ PassGate \/ PruneOldArchives \/ Crash \/ KillCommand \/ UNCHANGED jobsVars
  BY <1>2, <1>13
  DEF LockLapses, PassGate, PruneOldArchives, Crash, KillCommand, Stop, restoreVars, jobsVars, instance
<1>14. CASE RequestWrites \/ SchedulerWrites
  BY <1>14 DEF RequestWrites, SchedulerWrites, Write, JobsTypeOK, InstanceTypeOK, Rows
<1> QED
  BY <1>5, <1>6, <1>7, <1>8, <1>9, <1>10, <1>11, <1>12, <1>13, <1>14, Constants
  DEF JobsNext, Runs

\* What is told of a restore is forgotten by the next commit only.
LEMMA ToldStays ==
    ASSUME [JobsNext]_jobsVars, Told, ~ Told'
    PROVE  \E p \in Procs : Torn(p)'
<1>1. ASSUME NEW p \in Procs, Witness(p) PROVE Torn(p)'
  BY <1>1 DEF Witness, Told
<1>2. ASSUME NEW p, Repairs(p) PROVE FALSE
  BY <1>2 DEF Repairs, Told
<1>3. CASE SkipDump \/ (LockLapses /\ UNCHANGED events) \/ PassGate \/ PruneOldArchives \/ UNCHANGED jobsVars
  BY <1>3 DEF SkipDump, PassGate, PruneOldArchives, jobsVars, Told
<1>4. CASE RequestWrites \/ SchedulerWrites
  BY <1>4 DEF RequestWrites, SchedulerWrites, Write, Told
<1>5. CASE Crash \/ KillCommand
  BY <1>5 DEF Crash, KillCommand, Stop, Told
<1> QED
  BY <1>1, <1>2, <1>3, <1>4, <1>5, Constants DEF JobsNext, Fails

\* A cut stays until it is repaired, which is told of, if nobody is in a swap.
LEMMA CutStays ==
    ASSUME [JobsNext]_jobsVars, SwapWasCut, \A p \in Procs : ~ Torn(p)
    PROVE  \/ SwapWasCut' \/ Told' \/ op[Boot].step = "dirs"
           \/ \E p \in Procs : At(p, "tidy")
<1> DEFINE Same == UNCHANGED <<live, old>>
<1>1. Same => SwapWasCut'
  BY DEF SwapWasCut
<1>2. ASSUME NEW p \in Web, Page(p) PROVE Same
  BY <1>2 DEF Page, Upload, DiscardAllPending, DiscardDropped, RefuseUpload, StagePending,
        Prune, Confirm, BeginJob, EndJob, instance
<1>3. ASSUME NEW p \in Procs, Validates(p) PROVE Same
  BY <1>3 DEF Validates, RefuseSecret, PrepareStaging, ExtractUpload, Reject, Validated, instance
<1>4. ASSUME NEW p \in Procs, Applies(p) PROVE Same \/ At(p, "tidy")
  BY <1>4 DEF Applies, CheckStaging, SafetyDump, ApplyTx, ClearOld, MoveAside, PlaceStaged,
        PutBack, RemoveOld, instance, At, Torn
<1>5. ASSUME NEW p \in Procs, Fails(p) PROVE Same
  BY <1>5 DEF Fails, DumpFails, Rollback, instance
<1>6. Starts => Same \/ op[Boot].step = "dirs"
  BY DEF Starts, PrepareDataDirs, SkipAutoRestore, CheckAutoRestore, WriteMarker, StartFails,
        instance, At
<1>7. ASSUME NEW p \in Procs, EndCommand \/ Proceed(p) \/ SkipDump PROVE Same
  BY <1>7 DEF EndCommand, Proceed, SkipDump, instance
<1>8. ASSUME NEW p, Repairs(p) PROVE Told'
  BY <1>8 DEF Repairs, Told
<1>9. \/ LockLapses \/ PassGate \/ PruneOldArchives \/ RequestWrites \/ SchedulerWrites \/ Crash \/ KillCommand
      \/ UNCHANGED jobsVars
      => Same
  BY DEF LockLapses, PassGate, PruneOldArchives, instance, jobVars, RequestWrites, SchedulerWrites, Write, Crash, KillCommand, Stop,
        restoreVars, jobsVars, instance
<1> HIDE DEF Same
<1> QED
  BY <1>1, <1>2, <1>3, <1>4, <1>5, <1>6, <1>7, <1>8, <1>9, Constants DEF JobsNext, Runs

\* A swap ends with the staged uploads in place, or is told of, or is cut.
LEMMA LeavingSwap ==
    ASSUME JobsTypeOK, Roles, [JobsNext]_jobsVars, NEW p \in Procs, Torn(p), ~ Torn(p)'
    PROVE  PlaceStaged(p) \/ Told' \/ SwapWasCut'
<1> DEFINE Known == PlaceStaged(p) \/ Told' \/ SwapWasCut'
<1> USE DEF TornSteps
<1>1. op[p].step \in TornSteps /\ op'[p].step \notin TornSteps
  BY StepNames
<1>2. ASSUME NEW q \in Procs, NEW s, NEW t, Turns(q, s, t), s \notin TornSteps \/ t \in TornSteps
      PROVE  FALSE
  BY <1>1, <1>2 DEF Turns
<1>3. ASSUME NEW q \in Procs, NEW s, Turns(q, s, "failed"), Witness(q) PROVE Told'
  <2>1. q = p
    BY <1>1, <1>3 DEF Turns
  <2> QED
    BY <1>3, <2>1 DEF Turns, Witness, Told, At
<1>4. ASSUME NEW q \in Web, Page(q) PROVE FALSE
  <2>1. q \in Procs
    BY Constants
  <2>2. CASE DiscardAllPending(q)
    BY <1>1, <2>1, <2>2, PageMoves DEF Drops, At
  <2> QED
    BY <1>2, <1>4, <2>1, <2>2, PageMoves DEF Page, Moves
<1>5. ASSUME NEW q \in Procs, Validates(q) PROVE FALSE
  BY <1>2, <1>5, ValidatesMoves DEF Validates, Moves
<1>6. ASSUME NEW q \in Procs, Applies(q), Witness(q) PROVE Known
  <2>1. CASE MoveAside(q)
    BY <1>2, <1>3, <1>6, <2>1, AppliesMoves
  <2>2. CASE PlaceStaged(q)
    BY <1>1, <2>2, AppliesMoves DEF Moves, Turns
  <2>3. CASE PutBack(q)
    BY <1>3, <1>6, <2>3, AppliesMoves DEF Moves
  <2> QED
    BY <1>2, <1>6, <2>1, <2>2, <2>3, AppliesMoves DEF Applies, Moves
<1>7. ASSUME NEW q \in Procs, Fails(q) PROVE FALSE
  BY <1>2, <1>7, AppliesMoves DEF Fails, Moves
<1>8. ASSUME NEW q \in Procs, EndCommand \/ Proceed(q) \/ SkipDump PROVE FALSE
  BY <1>2, <1>8, CommandMoves, Constants DEF Moves
<1>9. CASE Starts
  BY <1>2, <1>9, StartMoves, Constants DEF Starts, Moves
<1>10. CASE op' = op
  BY <1>1, <1>10
<1>11. CASE Start
  <2>1. op[Boot].step = "idle"
    BY <1>11 DEF Start, Roles
  <2> QED
    BY <1>1, <1>10, <1>11, <2>1, StartMoves, Constants DEF Moves, Turns
<1>12. ASSUME NEW a \in Archives, Command(a) PROVE Known
  BY <1>2, <1>10, <1>12, CommandMoves, Constants
<1>13. ASSUME NEW stopped \in SUBSET Procs, Stop(stopped) PROVE Known
  <2>1. p \in stopped
    BY <1>1, <1>13, StopMoves
  <2>2. CASE SwapWasCut
    BY <1>13, <2>2 DEF Stop, instance, SwapWasCut
  <2>3. CASE ~ SwapWasCut
    BY <1>13, <2>1, <2>3 DEF Stop, Told
  <2> QED
    BY <2>2, <2>3
<1>14. CASE Crash \/ KillCommand
  BY <1>13, <1>14, Constants DEF Crash, KillCommand, InServer
<1>15. CASE LockLapses \/ PassGate \/ PruneOldArchives \/ RequestWrites \/ SchedulerWrites \/ UNCHANGED jobsVars
  BY <1>10, <1>15
  DEF LockLapses, PassGate, PruneOldArchives, instance, jobVars, RequestWrites, SchedulerWrites, Write, restoreVars, jobsVars
<1> QED
  BY <1>4, <1>5, <1>6, <1>7, <1>8, <1>9, <1>11, <1>12, <1>14, <1>15, Constants
  DEF JobsNext, Repairs, Runs

\* A restore comes to its next step from the one before.
LEMMA NextOfRestore ==
    ASSUME JobsTypeOK, [JobsNext]_jobsVars, NEW p \in Procs, op'[p].step \in ApplySteps,
           op'[p] # op[p]
    PROVE  \/ (CheckStaging(p) /\ op'[p].step = "dump") \/ SafetyDump(p) \/ ApplyTx(p)
           \/ ClearOld(p) \/ MoveAside(p) \/ PlaceStaged(p)
           \/ SkipDump /\ p = Cli
<1> DEFINE Comes == \/ (CheckStaging(p) /\ op'[p].step = "dump") \/ SafetyDump(p) \/ ApplyTx(p)
                    \/ ClearOld(p) \/ MoveAside(p) \/ PlaceStaged(p)
                    \/ SkipDump /\ p = Cli
<1> USE DEF ApplySteps
<1>1. ASSUME NEW q \in Procs, NEW s, NEW t, Turns(q, s, t)
      PROVE  q = p /\ t \in ApplySteps
  BY <1>1 DEF Turns
<1>2. ASSUME NEW q \in Web, Page(q) PROVE FALSE
  <2>1. q \in Procs
    BY Constants
  <2>2. CASE DiscardAllPending(q)
    BY <2>1, <2>2, PageMoves, Constants DEF Drops
  <2> QED
    BY <1>1, <1>2, <2>1, <2>2, PageMoves DEF Page, Moves
<1>3. ASSUME NEW q \in Procs, Validates(q) PROVE FALSE
  BY <1>1, <1>3, ValidatesMoves DEF Validates, Moves
<1>4. ASSUME NEW q \in Procs, Applies(q) PROVE Comes
  <2>1. q = p
    BY <1>1, <1>4, AppliesMoves DEF Applies, Moves
  <2>2. CASE PutBack(p) \/ RemoveOld(p)
    BY <2>2, AppliesMoves DEF Moves, Turns
  <2>3. CASE CheckStaging(p)
    BY <2>3, AppliesMoves DEF Moves, Turns
  <2> QED
    BY <1>4, <2>1, <2>2, <2>3 DEF Applies
<1>5. ASSUME NEW q \in Procs, Fails(q) PROVE FALSE
  BY <1>1, <1>5, AppliesMoves DEF Fails, Moves
<1>6. CASE EndCommand
  BY <1>1, <1>6, CommandMoves, Constants
<1>7. ASSUME NEW q \in Procs, Proceed(q) PROVE FALSE
  BY <1>1, <1>7, CommandMoves DEF Moves
<1>8. SkipDump => p = Cli
  BY <1>1, CommandMoves, Constants DEF Moves
<1>9. CASE Starts
  BY <1>1, <1>9, StartMoves, Constants DEF Starts, Moves
<1>10. op' # op
  OBVIOUS
<1>11. CASE Start
  BY <1>1, <1>10, <1>11, StartMoves, Constants DEF Moves
<1>12. ASSUME NEW a \in Archives, Command(a) PROVE FALSE
  BY <1>1, <1>10, <1>12, CommandMoves, Constants
<1>13. ASSUME NEW stopped \in SUBSET Procs, Stop(stopped) PROVE FALSE
  BY <1>13, StopMoves
<1>14. CASE Crash \/ KillCommand
  BY <1>13, <1>14, Constants DEF Crash, KillCommand, InServer
<1>15. CASE LockLapses \/ PassGate \/ PruneOldArchives \/ RequestWrites \/ SchedulerWrites \/ UNCHANGED jobsVars
  BY <1>10, <1>15
  DEF LockLapses, PassGate, PruneOldArchives, instance, jobVars, RequestWrites, SchedulerWrites, Write, restoreVars, jobsVars
<1> QED
  BY <1>2, <1>3, <1>4, <1>5, <1>6, <1>7, <1>8, <1>9, <1>11, <1>12, <1>14, <1>15, Constants
  DEF JobsNext, Repairs, Runs

\* A restore that is let alone works on what was staged for it.
LEMMA AloneStays ==
    ASSUME JobsTypeOK, Roles, [JobsNext]_jobsVars, "crowded" \notin events',
           NEW p \in Procs, Alone(p)
    PROVE  Alone(p)'
<1> SUFFICES ASSUME op'[p].step \in ApplySteps PROVE Alone(p)'
  BY DEF Alone, ApplySteps
<1>1. CASE op'[p] = op[p]
  <2>1. UNCHANGED <<live, staging, old>> /\ rows'.from = rows.from
    BY <1>1, OthersLeave
  <2> QED
    BY <1>1, <2>1 DEF Alone
<1>2. CASE CheckStaging(p) /\ op'[p].step = "dump"
  <2>1. Moves(p, "check", "dump") /\ staging = UploadsOf[op[p].archive] /\ staging' = staging
    BY <1>2, AppliesMoves DEF CheckStaging, Moves, Turns
  <2> QED
    BY <2>1 DEF Moves, Turns, Alone
<1>3. CASE SafetyDump(p) \/ (SkipDump /\ p = Cli)
  <2>1. Moves(p, "dump", "tx") /\ staging' = staging
    BY <1>3, AppliesMoves, CommandMoves DEF SafetyDump, SkipDump, instance
  <2> QED
    BY <2>1 DEF Moves, Turns, Alone
<1>4. CASE ApplyTx(p)
  <2>1. Moves(p, "tx", "clear") /\ staging' = staging /\ rows'.from = op[p].archive
    BY <1>4, AppliesMoves DEF ApplyTx
  <2> QED
    BY <2>1 DEF Moves, Turns, Alone
<1>5. CASE ClearOld(p)
  <2>1. Moves(p, "clear", "aside") /\ staging' = staging /\ rows' = rows
    BY <1>5, AppliesMoves DEF ClearOld
  <2> QED
    BY <2>1 DEF Moves, Turns, Alone
<1>6. CASE MoveAside(p)
  <2>1. /\ op[p].step = "aside" /\ op'[p].step = "place" /\ op'[p].archive = op[p].archive
        /\ staging' = staging /\ rows' = rows
    BY <1>6, AppliesMoves DEF MoveAside, Turns, ApplySteps
  <2> QED
    BY <2>1 DEF Alone
<1>7. CASE PlaceStaged(p)
  <2>1. Moves(p, "place", "tidy") /\ live' = staging /\ rows' = rows
    BY <1>7, AppliesMoves DEF PlaceStaged
  <2> QED
    BY <2>1 DEF Moves, Turns, Alone
<1> QED
  BY <1>1, <1>2, <1>3, <1>4, <1>5, <1>6, <1>7, NextOfRestore

\* The server comes to its directories by its start.
LEMMA ComesToDirs ==
    ASSUME JobsTypeOK, [JobsNext]_jobsVars, op'[Boot].step = "dirs"
    PROVE  Start \/ op'[Boot] = op[Boot]
<1> SUFFICES ASSUME op'[Boot] # op[Boot] PROVE Start
  OBVIOUS
<1>1. ASSUME NEW q \in Procs, NEW s, NEW t, Turns(q, s, t)
      PROVE  q = Boot /\ t = "dirs"
  BY <1>1, Constants DEF Turns
<1>2. ASSUME NEW q \in Web, Page(q) PROVE FALSE
  <2>1. q \in Procs
    BY Constants
  <2>2. CASE DiscardAllPending(q)
    BY <2>1, <2>2, PageMoves, Constants DEF Drops
  <2> QED
    BY <1>1, <1>2, <2>1, <2>2, PageMoves DEF Page, Moves
<1>3. ASSUME NEW q \in Procs, Validates(q) PROVE FALSE
  BY <1>1, <1>3, ValidatesMoves DEF Validates, Moves
<1>4. ASSUME NEW q \in Procs, Applies(q) \/ Fails(q) PROVE FALSE
  BY <1>1, <1>4, AppliesMoves DEF Applies, Fails, Moves
<1>5. CASE EndCommand \/ SkipDump
  BY <1>1, <1>5, CommandMoves, Constants DEF Moves
<1>6. ASSUME NEW q \in Procs, Proceed(q) PROVE FALSE
  BY <1>1, <1>6, CommandMoves DEF Moves
<1>7. CASE Starts
  BY <1>1, <1>7, StartMoves, Constants DEF Starts, Moves
<1>8. ASSUME NEW a \in Archives, Command(a) PROVE FALSE
  BY <1>1, <1>8, CommandMoves, Constants
<1>9. ASSUME NEW stopped \in SUBSET Procs, Stop(stopped) PROVE FALSE
  BY <1>9, StopMoves, Constants
<1>10. CASE Crash \/ KillCommand
  BY <1>9, <1>10, Constants DEF Crash, KillCommand, InServer
<1>11. CASE LockLapses \/ PassGate \/ PruneOldArchives \/ RequestWrites \/ SchedulerWrites \/ UNCHANGED jobsVars
  BY <1>11
  DEF LockLapses, PassGate, PruneOldArchives, instance, jobVars, RequestWrites, SchedulerWrites, Write, restoreVars, jobsVars
<1> QED
  BY <1>2, <1>3, <1>4, <1>5, <1>6, <1>7, <1>8, <1>10, <1>11, Constants DEF JobsNext, Repairs, Runs

\* Every step keeps rows and uploads together, or tells.
LEMMA ApartnessStep == JobsTypeOK /\ Roles /\ Apartness /\ [JobsNext]_jobsVars => Apartness'
<1> SUFFICES ASSUME JobsTypeOK, Roles, Apartness, [JobsNext]_jobsVars, "crowded" \notin events'
             PROVE  /\ \A p \in Procs : Alone(p)'
                    /\ op'[Boot].step = "dirs" => ~ SwapWasCut'
                    /\ (\A p \in Procs : ~ Torn(p)') => MatchedOrTold'
  BY DEF Apartness
<1>1. /\ \A p \in Procs : Alone(p)
      /\ op[Boot].step = "dirs" => ~ SwapWasCut
      /\ (\A p \in Procs : ~ Torn(p)) => MatchedOrTold
  BY EventsStay DEF Apartness
<1>2. \A p \in Procs : Alone(p)'
  BY <1>1, AloneStays
<1>3. ASSUME op'[Boot].step = "dirs" PROVE ~ SwapWasCut'
  <2>1. CASE op'[Boot] = op[Boot]
    <3>1. UNCHANGED <<live, old>>
      BY <1>3, <2>1, OthersLeave, Constants
    <3> QED
      BY <1>1, <1>3, <2>1, <3>1 DEF SwapWasCut
  <2>2. CASE Start
    BY <2>2 DEF Start, RecoverIncompleteSwap, SwapWasCut
  <2> QED
    BY <1>3, <2>1, <2>2, ComesToDirs
<1>4. ASSUME \A p \in Procs : ~ Torn(p)' PROVE MatchedOrTold'
  <2>1. ASSUME NEW p \in Procs, Torn(p) PROVE MatchedOrTold'
    <3>1. CASE PlaceStaged(p)
      <4>1. op[p].step = "place" /\ live' = staging /\ rows' = rows
        BY <3>1 DEF PlaceStaged, At
      <4> QED
        BY <1>1, <4>1 DEF Alone, MatchedOrTold
    <3> QED
      BY <1>4, <2>1, <3>1, LeavingSwap DEF MatchedOrTold
  <2>2. ASSUME \A p \in Procs : ~ Torn(p) PROVE MatchedOrTold'
    <3>1. CASE Told
      BY <1>4, <3>1, ToldStays DEF MatchedOrTold
    <3>2. CASE SwapWasCut
      <4>1. ~ \E p \in Procs : At(p, "tidy")
        <5> SUFFICES ASSUME NEW p \in Procs, At(p, "tidy") PROVE FALSE
          OBVIOUS
        <5>1. live = UploadsOf[op[p].archive] /\ op[p].archive \in Sources
          BY <1>1 DEF Alone, At, JobsTypeOK, Op
        <5> QED
          BY <3>2, <5>1, Constants DEF SwapWasCut
      <4> QED
        BY <1>1, <2>2, <3>2, <4>1, CutStays DEF MatchedOrTold
    <3>3. CASE live = UploadsOf[rows.from]
      <4>1. live # NoDir
        BY <3>3, Constants DEF JobsTypeOK, InstanceTypeOK, Rows
      <4>2. live' = live
        BY <2>2, <4>1, LiveChanges, StepNames DEF TornSteps
      <4>3. ASSUME NEW p \in Procs, ApplyTx(p) PROVE FALSE
        BY <1>4, <4>3, AppliesMoves, StepNames DEF Moves, Turns, TornSteps
      <4>4. rows'.from = rows.from
        BY <4>3, RowsChange
      <4> QED
        BY <3>3, <4>2, <4>4 DEF MatchedOrTold
    <3> QED
      BY <1>1, <2>2, <3>1, <3>2, <3>3 DEF MatchedOrTold
  <2> QED
    BY <2>1, <2>2
<1> QED
  BY <1>2, <1>3, <1>4

-------------------------------------------------------------------------------
(* What is pending.                                                        *)

\* Whoever is past its arrival is alone.
LEMMA OthersWait ==
    ASSUME Roles, Serial, NEW p \in Procs, op[p].step \notin {"idle", "upload"}
    PROVE  \A q \in Procs \ {p} : op[q].step \in {"idle", "upload"}
<1> SUFFICES ASSUME NEW q \in Procs \ {p} PROVE op[q].step \in {"idle", "upload"}
  OBVIOUS
<1>1. CASE At(p, "pending")
  <2>1. p \in Web
    BY <1>1, Constants DEF At, Roles
  <2> QED
    BY <1>1, <2>1 DEF Serial
<1>2. CASE At(q, "pending")
  <2>1. q \in Web
    BY <1>2, Constants DEF At, Roles
  <2> QED
    BY <1>2, <2>1 DEF Serial
<1>3. CASE ~ At(p, "pending") /\ ~ At(q, "pending")
  BY <1>3 DEF Serial, Busy, At
<1> QED
  BY <1>1, <1>2, <1>3

\* A turn of p, which is told of if another is at work.
LEMMA SerialTurn ==
    ASSUME Roles, Serial, NEW p \in Procs, p # Cli, NEW s, NEW t, Turns(p, s, t),
           \/ t \in {"idle", "pending"}
           \/ \A q \in Procs \ {p} : ~ Busy(q),
           s = "idle" => t = "upload" \/ \A q \in Web : ~ At(q, "pending"),
           s # "upload", t = "pending" => s = "valid"
    PROVE  Serial'
<1>1. op'[Cli].step = "idle"
  BY Constants DEF Serial, Turns
<1>2. \A q \in Procs \ {p} : op'[q] = op[q]
  BY DEF Turns
<1>3. ASSUME NEW q \in Procs, NEW r \in Procs, Busy(q)', Busy(r)' PROVE q = r
  BY <1>2, <1>3 DEF Serial, Busy, Turns
<1>4. ASSUME NEW r \in Web, NEW q \in Procs, At(r, "pending")', q # r
      PROVE  op'[q].step \in {"idle", "upload"}
  <2>1. r \in Procs
    BY Constants
  <2>2. CASE r = p
    <3>1. s = "valid"
      BY <1>4, <2>2 DEF Turns, At
    <3>2. op[q].step \in {"idle", "upload"}
      BY <1>4, <2>2, <3>1, OthersWait DEF Turns
    <3> QED
      BY <1>2, <1>4, <2>2, <3>2
  <2>3. CASE r # p
    <3>1. At(r, "pending")
      BY <1>2, <1>4, <2>1, <2>3 DEF At
    <3>2. CASE q = p
      BY <1>4, <2>1, <2>3, <3>1, <3>2 DEF Serial, Turns
    <3>3. CASE q # p
      BY <1>2, <1>4, <3>1, <3>3 DEF Serial
    <3> QED
      BY <3>2, <3>3
  <2> QED
    BY <2>2, <2>3
<1> QED
  BY <1>1, <1>3, <1>4 DEF Serial

\* While p turns, nobody else has anything staged.
LEMMA StagedTurn ==
    ASSUME Roles, Serial, NEW p \in Procs, NEW s, NEW t, Turns(p, s, t),
           s \notin {"idle", "upload"}, Staged(p)'
    PROVE  \A q \in Procs : Staged(q)'
<1> SUFFICES ASSUME NEW q \in Procs \ {p} PROVE Staged(q)'
  OBVIOUS
<1>1. op'[q] = op[q] /\ op[q].step \in {"idle", "upload"}
  BY OthersWait DEF Turns
<1> QED
  BY <1>1 DEF Staged, At

\* A turn that changes neither the uploads nor what was moved aside.
LEMMA CutTurn ==
    ASSUME CutIsUnderWay, UNCHANGED <<live, old>>,
           server' = server \/ server # "down",
           NEW p \in Procs, NEW s, NEW t, Turns(p, s, t), s # "place"
    PROVE  CutIsUnderWay'
<1> SUFFICES ASSUME server' # "down", SwapWasCut'
             PROVE  \E q \in Procs : At(q, "place")' /\ op'[q].moved
  BY DEF CutIsUnderWay
<1>1. server # "down" /\ SwapWasCut
  BY DEF SwapWasCut
<1>2. PICK q \in Procs : At(q, "place") /\ op[q].moved
  BY <1>1 DEF CutIsUnderWay
<1>3. q # p
  BY <1>2 DEF Turns, At
<1> QED
  BY <1>2, <1>3 DEF Turns, At

\* A repair finds nobody with anything staged, and leaves nothing cut.
LEMMA RepairFindsNothing ==
    ASSUME JobsTypeOK, Roles, Serial, CutIsUnderWay, SwapWasCut, RecoverIncompleteSwap, op' = op
    PROVE  Serial' /\ CutIsUnderWay' /\ \A p \in Procs : Staged(p)'
<1>1. Serial'
  BY DEF Serial, Busy, At
<1>2. CutIsUnderWay'
  BY DEF RecoverIncompleteSwap, CutIsUnderWay, SwapWasCut
<1>3. ASSUME NEW p \in Procs PROVE op[p].step \notin {"scan", "valid", "pending"}
  <2>1. CASE server = "down"
    BY <2>1, Constants DEF Roles, Serial
  <2>2. ASSUME NEW q \in Procs, At(q, "place")
        PROVE  op[p].step \notin {"scan", "valid", "pending"}
    BY <2>2, OthersWait DEF At
  <2> QED
    BY <2>1, <2>2 DEF CutIsUnderWay
<1> QED
  BY <1>1, <1>2, <1>3 DEF Staged, At

\* A validation stages the archive's uploads one by one.
LEMMA ValidatesStages ==
    ASSUME JobsTypeOK, NEW p \in Procs, Staged(p), Validates(p)
    PROVE  Staged(p)'
<1>1. /\ op[p].archive \in Sources /\ UploadsOf[op[p].archive] \in SUBSET Files
      /\ op[p].todo \in SUBSET Files
  BY Constants DEF JobsTypeOK, Op
<1>2. CASE RefuseSecret(p) \/ Reject(p)
  BY <1>2, ValidatesMoves DEF Moves, Turns, Staged, At
<1>3. CASE PrepareStaging(p)
  BY <1>3, ValidatesMoves DEF PrepareStaging, Turns, Staged, At
<1>4. CASE ExtractUpload(p)
  <2>1. PICK f \in op[p].todo :
            /\ staging' = Contents(staging) \cup {f}
            /\ op' = [op EXCEPT ![p].todo = op[p].todo \ {f}]
    BY <1>4 DEF ExtractUpload
  <2>2. Turns(p, "scan", "scan") /\ op'[p].archive = op[p].archive
    BY <1>4, ValidatesMoves
  <2>3. op'[p].todo = op[p].todo \ {f}
    BY <2>1 DEF JobsTypeOK, Op
  <2>4. /\ op[p].todo \subseteq UploadsOf[op[p].archive]
        /\ staging = UploadsOf[op[p].archive] \ op[p].todo
    BY <2>2 DEF Staged, Turns, At
  <2>5. Contents(staging) = staging
    BY <1>1, <2>4, Constants DEF Contents
  <2>6. /\ op'[p].todo \subseteq UploadsOf[op'[p].archive]
        /\ staging' = UploadsOf[op'[p].archive] \ op'[p].todo
    BY <2>1, <2>2, <2>3, <2>4, <2>5
  <2> QED
    BY <2>2, <2>6 DEF Staged, Turns, At
<1>5. CASE Validated(p)
  <2>1. Moves(p, "scan", "valid") /\ op[p].todo = {} /\ staging' = staging
    BY <1>5, ValidatesMoves DEF Validated
  <2> QED
    BY <2>1 DEF Moves, Turns, Staged, At
<1> QED
  BY <1>2, <1>3, <1>4, <1>5, Validates(p) DEF Validates

\* Where a step is one of a job that nobody else is beside, what the swap moved
\* aside is put back or on its way.
LEMMA AppliesCut ==
    ASSUME JobsTypeOK, Roles, Serial, CutIsUnderWay, NEW p \in Procs, Applies(p),
           UNCHANGED server
    PROVE  CutIsUnderWay'
<1>1. CASE CheckStaging(p)
  <2>1. UNCHANGED <<live, old>> /\ \E t : Turns(p, "check", t)
    BY <1>1, AppliesMoves DEF CheckStaging, Moves
  <2> QED
    BY <2>1, CutTurn
<1>2. CASE SafetyDump(p)
  <2>1. UNCHANGED <<live, old>> /\ Turns(p, "dump", "tx")
    BY <1>2, AppliesMoves DEF SafetyDump, Moves, instance
  <2> QED
    BY <2>1, CutTurn
<1>3. CASE ApplyTx(p)
  <2>1. UNCHANGED <<live, old>> /\ Turns(p, "tx", "clear")
    BY <1>3, AppliesMoves DEF ApplyTx, Moves
  <2> QED
    BY <2>1, CutTurn
<1>4. CASE ClearOld(p) \/ RemoveOld(p)
  BY <1>4 DEF ClearOld, RemoveOld, CutIsUnderWay, SwapWasCut
<1>5. CASE MoveAside(p)
  <2>1. CASE op'[p].moved /\ Turns(p, "aside", "place")
    BY <2>1 DEF CutIsUnderWay, Turns, At
  <2>2. ASSUME UNCHANGED <<live, old>>, NEW t, Turns(p, "aside", t) PROVE CutIsUnderWay'
    BY <2>2, CutTurn
  <2> QED
    BY <1>5, <2>1, <2>2, AppliesMoves
<1>6. CASE PlaceStaged(p)
  BY <1>6 DEF PlaceStaged, CutIsUnderWay, SwapWasCut
<1>7. CASE PutBack(p)
  <2> SUFFICES ASSUME SwapWasCut', server' # "down" PROVE FALSE
    BY DEF CutIsUnderWay
  <2>1. op[p].step = "place"
    BY <1>7 DEF PutBack, At
  <2>2. SwapWasCut /\ ~ op[p].moved
    BY <1>7 DEF PutBack, SwapWasCut
  <2>3. PICK q \in Procs : At(q, "place") /\ op[q].moved
    BY <2>2 DEF CutIsUnderWay
  <2>4. q = p
    BY <2>1, <2>3, OthersWait DEF At
  <2> QED
    BY <2>2, <2>3, <2>4
<1> QED
  BY <1>1, <1>2, <1>3, <1>4, <1>5, <1>6, <1>7, Applies(p) DEF Applies

\* Every step keeps what is staged for those who wait, or tells of a race.
LEMMA StagingStep == JobsTypeOK /\ Roles /\ Staging /\ [JobsNext]_jobsVars => Staging'
<1> SUFFICES ASSUME JobsTypeOK, Roles, Staging, [JobsNext]_jobsVars, "raced" \notin events'
             PROVE  Serial' /\ CutIsUnderWay' /\ \A p \in Procs : Staged(p)'
  BY DEF Staging
<1> DEFINE Kept == Serial' /\ CutIsUnderWay' /\ \A p \in Procs : Staged(p)'
<1> SUFFICES Kept
  OBVIOUS
<1>1. Serial /\ CutIsUnderWay /\ \A p \in Procs : Staged(p)
  BY EventsStay DEF Staging
<1>2. op[Cli].step = "idle"
  BY <1>1 DEF Serial
<1>3. ASSUME NEW p \in Procs, Witness(p)
      PROVE  \/ op'[p].step \in {"idle", "pending"}
             \/ \A q \in Procs \ {p} : ~ Busy(q)
  BY <1>3 DEF Witness, Busy
<1>4. ASSUME NEW p \in Procs, p # Cli, NEW s, NEW t, Turns(p, s, t), Witness(p),
             s \notin {"idle", "upload"}, t = "pending" => s = "valid", CutIsUnderWay', Staged(p)'
      PROVE  Kept
  <2>1. Serial'
    <3>1. \/ t \in {"idle", "pending"}
          \/ \A q \in Procs \ {p} : ~ Busy(q)
      BY <1>3, <1>4 DEF Turns
    <3> QED
      BY <1>1, <1>4, <3>1, SerialTurn
  <2>2. \A q \in Procs : Staged(q)'
    BY <1>1, <1>4, StagedTurn
  <2> QED
    BY <1>4, <2>1, <2>2
<1>5. ASSUME NEW p \in Procs, p # Cli, NEW s, NEW t, Turns(p, s, t), Witness(p),
             s \notin {"idle", "upload", "place"}, t \notin {"scan", "valid", "pending"},
             server' = server \/ server # "down", UNCHANGED <<live, old>>
      PROVE  Kept
  <2>1. Staged(p)'
    BY <1>5 DEF Turns, Staged, At
  <2>2. CutIsUnderWay'
    BY <1>1, <1>5, CutTurn
  <2> HIDE DEF Kept
  <2> QED
    BY <1>4, <1>5, <2>1, <2>2
<1>6. ASSUME NEW p \in Web, Page(p), Witness(p) PROVE Kept
  <2>1. p \in Procs /\ p # Cli
    BY Constants
  <2>2. UNCHANGED server /\ UNCHANGED <<live, old>>
    BY <1>6 DEF Page, Upload, DiscardAllPending, DiscardDropped, RefuseUpload, StagePending,
          Prune, Confirm, BeginJob, EndJob, jobVars, instance
  <2>3. ASSUME NEW a \in Archives, Upload(p, a) PROVE Kept
    <3>1. Turns(p, "idle", "upload") /\ staging' = staging
      BY <2>3, PageMoves DEF Upload, instance
    <3>2. \A q \in Procs \ {p} : ~ Busy(q)
      BY <1>3, <1>6, <2>1, <3>1 DEF Turns
    <3>3. Serial'
      BY <1>1, <2>1, <3>1, <3>2, SerialTurn
    <3>4. CutIsUnderWay'
      BY <1>1, <2>1, <2>2, <3>1, CutTurn
    <3>5. \A q \in Procs : Staged(q)'
      BY <1>1, <3>1 DEF Turns, Staged, At
    <3> QED
      BY <3>3, <3>4, <3>5
  <2>4. CASE DiscardAllPending(p)
    <3>1. Drops(p) /\ staging' = staging
      BY <2>4, PageMoves DEF DiscardAllPending, instance
    <3>2. op'[p].step \in {"discard", "prepare"}
      BY <3>1 DEF Drops
    <3>3. \A q \in Procs \ {p} : ~ Busy(q)
      BY <1>3, <1>6, <2>1, <3>2
    <3>4. \A q \in Procs \ {p} : op'[q].step = "idle"
      <4> SUFFICES ASSUME NEW q \in Procs \ {p} PROVE op'[q].step = "idle"
        OBVIOUS
      <4>1. CASE At(q, "pending")
        BY <3>1, <4>1, Constants DEF Drops, Roles, At
      <4>2. CASE op[q].step = "idle"
        BY <3>1, <4>2 DEF Drops, At
      <4> QED
        BY <3>3, <4>1, <4>2 DEF Busy, At
    <3>5. Serial'
      BY <2>1, <3>2, <3>4, Constants DEF Serial, Busy, At
    <3>6. CutIsUnderWay'
      <4> SUFFICES ASSUME server' # "down", SwapWasCut' PROVE FALSE
        BY DEF CutIsUnderWay
      <4>1. PICK q \in Procs : At(q, "place")
        BY <1>1, <2>2 DEF CutIsUnderWay, SwapWasCut
      <4> QED
        BY <3>1, <3>3, <4>1 DEF Drops, Busy, At
    <3>7. \A q \in Procs : Staged(q)'
      BY <3>2, <3>4 DEF Staged, At
    <3> QED
      BY <3>5, <3>6, <3>7
  <2>5. CASE StagePending(p)
    <3>1. Moves(p, "valid", "pending") /\ staging' = staging
      BY <2>5, PageMoves DEF StagePending, instance
    <3>2. Staged(p)'
      BY <1>1, <2>1, <3>1 DEF Moves, Turns, Staged, At
    <3>3. CutIsUnderWay'
      BY <1>1, <2>1, <2>2, <3>1, CutTurn DEF Moves
    <3> QED
      BY <1>4, <1>6, <2>1, <3>1, <3>2, <3>3 DEF Moves
  <2> HIDE DEF Kept
  <2>6. ASSUME NEW s, NEW t, Turns(p, s, t),
               s \notin {"idle", "upload", "place"}, t \notin {"scan", "valid", "pending"}
        PROVE  Kept
    BY <1>5, <1>6, <2>1, <2>2, <2>6
  <2>7. CASE DiscardDropped(p)
    BY <2>6, <2>7, PageMoves DEF Moves
  <2>8. CASE RefuseUpload(p)
    BY <2>6, <2>8, PageMoves
  <2>9. CASE Prune(p)
    BY <2>6, <2>9, PageMoves
  <2>10. CASE Confirm(p)
    BY <2>6, <2>10, PageMoves DEF Moves
  <2>11. CASE BeginJob(p)
    BY <2>6, <2>11, PageMoves DEF Moves
  <2>12. CASE EndJob(p)
    BY <2>6, <2>12, PageMoves
  <2> QED
    BY <1>6, <2>3, <2>4, <2>5, <2>7, <2>8, <2>9, <2>10, <2>11, <2>12 DEF Page
<1>7. ASSUME NEW p \in Procs, Runs(p), Witness(p) PROVE Kept
  <2>1. UNCHANGED server
    BY <1>7 DEF Runs, jobVars
  <2>2. CASE Validates(p)
    <3>1. p # Cli
      BY <1>2, <2>2, ValidatesMoves DEF Validates, Moves, Turns
    <3>2. Staged(p)' /\ UNCHANGED <<live, old>>
      BY <1>1, <2>2, ValidatesStages, ValidatesTypes
    <3>3. PICK s \in {"prepare", "scan"}, t \in {"scan", "refused", "valid"} : Turns(p, s, t)
      BY <2>2, ValidatesMoves DEF Validates, Moves
    <3>4. CutIsUnderWay'
      BY <1>1, <2>1, <3>2, <3>3, CutTurn
    <3> QED
      BY <1>4, <1>7, <3>1, <3>2, <3>3, <3>4
  <2>3. CASE Applies(p)
    <3>1. PICK s \in JobSteps, t \in JobSteps : Turns(p, s, t)
      BY <2>3, AppliesMoves DEF Applies, Moves, JobSteps
    <3>2. p # Cli /\ s \notin {"idle", "upload"} /\ t \notin {"scan", "valid", "pending"}
      BY <1>2, <3>1 DEF JobSteps, Turns
    <3>3. Staged(p)'
      BY <3>1, <3>2 DEF Turns, Staged, At
    <3>4. CutIsUnderWay'
      BY <1>1, <2>1, <2>3, AppliesCut
    <3> QED
      BY <1>4, <1>7, <3>1, <3>2, <3>3, <3>4
  <2> QED
    BY <1>7, <2>2, <2>3 DEF Runs
<1>8. ~ EndCommand /\ ~ SkipDump
  BY <1>2, CommandMoves DEF Moves, Turns
<1>9. ASSUME NEW p \in {Cli, Boot}, Proceed(p), Witness(p) PROVE Kept
  <2>1. Turns(p, "valid", "check") /\ p \in Procs
    BY <1>9, CommandMoves, Constants DEF Moves
  <2>2. p # Cli
    BY <1>2, <2>1 DEF Turns
  <2>3. UNCHANGED server /\ UNCHANGED <<live, old>>
    BY <1>9 DEF Proceed, instance, jobVars
  <2> HIDE DEF Kept
  <2> QED
    BY <1>5, <1>9, <2>1, <2>2, <2>3
<1>10. CASE Starts /\ Witness(Boot)
  <2>1. Boot \in Procs /\ Boot # Cli
    BY Constants
  <2>2. op[Boot].step # "idle" => server # "down"
    BY DEF Roles
  <2>3. CASE PrepareDataDirs
    <3>1. Turns(Boot, "dirs", "auto")
      BY <2>3, StartMoves DEF Moves
    <3>2. CutIsUnderWay'
      <4>1. Contents(live) \in SUBSET Files
        BY Constants DEF JobsTypeOK, InstanceTypeOK
      <4>2. Contents(live) # NoDir
        BY <4>1, Constants
      <4> QED
        BY <2>3, <4>2 DEF PrepareDataDirs, CutIsUnderWay, SwapWasCut
    <3>3. Staged(Boot)'
      BY <3>1 DEF Turns, Staged, At
    <3> QED
      BY <1>4, <1>10, <2>1, <3>1, <3>2, <3>3
  <2>4. CASE ~ PrepareDataDirs
    <3>1. UNCHANGED <<live, old>>
      BY <1>10, <2>4 DEF Starts, SkipAutoRestore, CheckAutoRestore, WriteMarker, StartFails,
            instance
    <3>2. PICK s \in {"auto", "done", "failed", "refused"}, t \in {"idle", "prepare"} :
              Turns(Boot, s, t)
      BY <1>10, <2>4, StartMoves DEF Starts
    <3>3. server # "down"
      BY <2>2, <3>2 DEF Turns
    <3> HIDE DEF Kept
    <3> QED
      BY <1>5, <1>10, <2>1, <3>1, <3>2, <3>3
  <2> QED
    BY <2>3, <2>4
<1>11. CASE Repairs(Boot)
  <2>1. Start
    BY <1>11, Constants DEF Repairs
  <2>2. CASE SwapWasCut
    BY <1>1, <2>1, <2>2, RepairFindsNothing DEF Start
  <2>3. CASE ~ SwapWasCut
    <3>1. op[Boot].step = "idle" /\ \A q \in Web : op[q].step = "idle"
      BY <2>1 DEF Start, Roles
    <3>2. Turns(Boot, "idle", "dirs")
      BY <2>1, <2>3, <3>1, StartMoves DEF Moves, Turns
    <3>3. \A q \in Procs \ {Boot} : op'[q].step = "idle"
      BY <1>2, <3>1, <3>2, Constants DEF Turns
    <3>4. Serial'
      BY <3>2, <3>3, Constants DEF Serial, Busy, At, Turns
    <3>5. CutIsUnderWay'
      BY <2>1 DEF Start, RecoverIncompleteSwap, CutIsUnderWay, SwapWasCut
    <3>6. \A q \in Procs : Staged(q)'
      BY <3>2, <3>3 DEF Staged, At, Turns
    <3> QED
      BY <3>4, <3>5, <3>6
  <2> QED
    BY <2>2, <2>3
<1>12. CASE Repairs(Cli)
  <2>1. PICK a \in Archives : Command(a)
    BY <1>12, Constants DEF Repairs
  <2>2. ~ Busy(Cli)'
    BY <1>12 DEF Repairs
  <2>3. SwapWasCut /\ op' = op
    BY <2>1, <2>2, CommandMoves, StepNames DEF Turns
  <2> QED
    BY <1>1, <2>1, <2>3, RepairFindsNothing DEF Command
<1>13. ASSUME NEW p \in Procs, Fails(p) PROVE Kept
  <2>1. PICK s \in {"dump", "tx"} : Turns(p, s, "failed")
    BY <1>13, AppliesMoves DEF Fails, Moves
  <2>2. p # Cli
    BY <1>2, <2>1 DEF Turns
  <2>3. UNCHANGED server /\ UNCHANGED <<live, old>> /\ Witness(p)
    BY <1>13 DEF Fails, DumpFails, Rollback, instance
  <2> HIDE DEF Kept
  <2> QED
    BY <1>5, <1>13, <2>1, <2>2, <2>3
<1>14. CASE UNCHANGED <<op, live, old, staging, server>>
  BY <1>1, <1>14 DEF Serial, CutIsUnderWay, SwapWasCut, Staged, Busy, At
<1>15. CASE LockLapses \/ PassGate \/ PruneOldArchives \/ RequestWrites \/ SchedulerWrites \/ UNCHANGED jobsVars
  <2>1. UNCHANGED <<op, live, old, staging, server>>
    BY <1>15
    DEF LockLapses, PassGate, PruneOldArchives, instance, jobVars, RequestWrites, SchedulerWrites, Write, restoreVars, jobVars, jobsVars
  <2> HIDE DEF Kept
  <2> QED
    BY <1>14, <2>1
<1>16. CASE Crash
  <2>1. \A q \in Procs : op'[q].step = "idle"
    BY <1>2, <1>16, StopMoves, Constants DEF Crash, InServer
  <2> QED
    BY <1>16, <2>1, Constants DEF Crash, Serial, Busy, At, CutIsUnderWay, Staged
<1>17. ~ KillCommand
  BY <1>2 DEF KillCommand, Busy
<1> HIDE DEF Kept
<1>18. (\E p \in Web : (Page(p) \/ Runs(p)) /\ Witness(p)) => Kept
  BY <1>6, <1>7, Constants
<1>19. (Runs(Cli) \/ EndCommand \/ Proceed(Cli)) /\ Witness(Cli) => Kept
  BY <1>7, <1>8, <1>9, Constants
<1>20. (Runs(Boot) \/ Starts \/ Proceed(Boot)) /\ Witness(Boot) => Kept
  BY <1>7, <1>9, <1>10, Constants
<1> QED
  BY <1>8, <1>11, <1>12, <1>13, <1>15, <1>16, <1>17, <1>18, <1>19, <1>20 DEF JobsNext

-------------------------------------------------------------------------------
(* The theorems.                                                           *)

JobsInv == JobsTypeOK /\ Roles /\ JobGate /\ Copies /\ Originals /\ Apartness /\ Staging

\* The initial states satisfy the invariant.
LEMMA JobsInvInit == JobsInit => JobsInv
<1> SUFFICES ASSUME JobsInit PROVE JobsInv
  OBVIOUS
<1>1. \A p \in Procs : op[p].step = "idle"
  BY Constants DEF JobsInit, RestoreInit
<1>2. /\ server = "down" /\ restoreInProgress = FALSE /\ events = {}
      /\ rows.from = Before /\ live = UploadsOf[Before] /\ old = NoDir
  BY DEF JobsInit, RestoreInit
<1>3. JobsTypeOK
  BY JobsInitTypes
<1>4. Roles
  BY <1>1, <1>2, Constants DEF Roles
<1>5. JobGate
  BY <1>1, StepNames, Constants DEF JobGate, GateClosed, JobSteps
<1>6. Copies
  BY <1>1, <1>2 DEF Copies, WayBack, At
<1>7. Originals
  BY <1>1, <1>2 DEF Originals
<1>8. Apartness
  BY <1>1, <1>2, Constants DEF Apartness, Alone, MatchedOrTold
<1>9. Staging
  BY <1>1, <1>2, Constants DEF Staging, Serial, CutIsUnderWay, SwapWasCut, Staged, Busy, At
<1> QED
  BY <1>3, <1>4, <1>5, <1>6, <1>7, <1>8, <1>9 DEF JobsInv

\* Every step keeps the invariant.
LEMMA JobsInvStep == JobsInv /\ [JobsNext]_jobsVars => JobsInv'
  BY JobsTypesStep, RolesStep, GateStep, CopiesStep, OriginalsStep, ApartnessStep, StagingStep
  DEF JobsInv

\* What is known of every instance, its restores and its jobs, in every state
\* (restore.go, recovery.go, jobs.go).
THEOREM JobsInvariant == JobsSpec => []JobsInv
  BY JobsInvInit, JobsInvStep, PTL DEF JobsSpec

\* While a job restores, requests are refused, unless two jobs run
\* (handlers_backup.go:298).
THEOREM GateStaysClosed == JobsSpec => []GateClosed
<1>1. JobsInv => GateClosed
  BY DEF JobsInv, JobGate
<1> QED
  BY <1>1, JobsInvariant, PTL

\* The rows a restore replaces are in a safety dump, but for writes that slip
\* past the gate and dumps that were not asked for (restore.go:250).
THEOREM ThereIsAWayBack == JobsSpec => []WayBack
<1>1. JobsInv => WayBack
  BY DEF JobsInv, Copies
<1> QED
  BY <1>1, JobsInvariant, PTL

\* The uploads the instance had are lost to retention or to a dump of the same
\* second only, while every restore dumps first, even where restores mix
\* (restore.go:250, prune.go:30).
THEOREM OriginalsAreKept == JobsSpec => []OriginalsKept
<1>1. JobsInv => OriginalsKept
  BY DEF JobsInv, Originals, PrunedToKeep, OriginalsKept
<1> QED
  BY <1>1, JobsInvariant, PTL

\* Rows and uploads that do not belong together are told of, unless the process
\* stopped before the first rename or restores mixed (docs/backup-restore.md:155).
THEOREM MixesAreKnown == JobsSpec => []MixIsKnown
<1>1. JobsInv => MixIsKnown
  BY DEF JobsInv, Apartness, MatchedOrTold, SwapWasCut, Told, MixIsKnown
<1> QED
  BY <1>1, JobsInvariant, PTL

\* An upload that awaits its confirmation has its files staged, if one is at work
\* at a time (jobs.go:215).
THEOREM PendingStaysStaged == JobsSpec => []PendingIsStaged
<1>1. JobsInv => PendingIsStaged
  <2> SUFFICES ASSUME JobsInv, "raced" \notin events, NEW p \in Web, At(p, "pending")
               PROVE  staging = UploadsOf[op[p].archive]
    BY DEF PendingIsStaged
  <2>1. Staged(p)
    BY Constants DEF JobsInv, Staging
  <2> QED
    BY <2>1 DEF Staged, At
<1> QED
  BY <1>1, JobsInvariant, PTL

\* A restore that goes through puts in place what was validated, unless another
\* works on the same directories; without the excuse it is refuted by a run
\* (docs/backup-restore.md:196).
THEOREM RestoredAsStaged == JobsSpec => [](RestoresWhatWasStaged \/ "crowded" \in events)
<1>1. JobsInv => RestoresWhatWasStaged \/ "crowded" \in events
  BY DEF JobsInv, Apartness, Alone, RestoresWhatWasStaged, At
<1> QED
  BY <1>1, JobsInvariant, PTL
===============================================================================
