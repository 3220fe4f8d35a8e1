-------------------------------- MODULE Archives --------------------------------
(***************************************************************************)
(* The directory of archives: dumps that write into it, the sweeps that    *)
(* clear it, and a restore on the command line that reads from it twice    *)
(* (src/internal/backup: dump, crypto, index, prune).                      *)
(*                                                                         *)
(* An archive's name is its prefix and the second its dump began.  Dumps   *)
(* of one name meet in one .partial file: the later truncates it, and each *)
(* goes on writing at its own offset.  A file is a sequence of sealed      *)
(* blocks; a block opens only in a file whose header, the salt and the key *)
(* it was sealed with, is of the same dump, and in its own place.          *)
(*                                                                         *)
(* "live" is the database, as the uploaded file its user row names after   *)
(* each commit.  Uploads lie outside the database, and their files are     *)
(* written before the row that names them.                                 *)
(***************************************************************************)
EXTENDS Integers, Sequences, SequencesExt, FiniteSetsExt

CONSTANTS
    Dumps,        \* dumps, numbered in the order they begin
    Files,        \* uploaded files
    Tables,       \* tables, in the order they are dumped
    NoFile,       \* no upload, no file
    Keep,         \* archives to keep per prefix
    MaxTime,      \* bound on the clock
    MaxCommits    \* bound on the commits

ASSUME ArchivesAssumption ==
    /\ Dumps \subseteq Nat \ {0}
    /\ Keep \in Nat \ {0} /\ MaxTime \in Nat \ {0} /\ MaxCommits \in Nat
    /\ Tables \in Seq(ToSet(Tables)) /\ Tables # <<>>
    /\ ToSet(Tables) \cap (Files \cup {"header", "hole", "final"}) = {}
    /\ Files \cap {"header", "hole", "final"} = {} /\ NoFile \notin Files

VARIABLES
    now,        \* the clock, in seconds
    live,       \* the file the user row names, per commit
    uploads,    \* what has become of each uploaded file
    inodes,     \* the blocks of the file a dump created
    partials,   \* .partial name -> whose file it is
    finals,     \* archive name -> whose file it is
    dumps,      \* how far each dump is
    reader,     \* the restore that reads an archive
    shared,     \* files that two dumps have opened
    torn        \* dumps during which a restore exchanged the uploads

dirVars == <<inodes, partials, finals>>
instance == <<now, live, uploads>>
vars == <<instance, dirVars, dumps, reader, shared, torn>>

ArchivePrefixes == {"gosplit-backup", "gosplit-pre-restore"}
Names == ArchivePrefixes \X (1..MaxTime)

NewestRow == live[Len(live)]

-------------------------------------------------------------------------------
(* Blocks and files of blocks.                                             *)

Block(d, what, at) == [dump |-> d, what |-> what, at |-> at]
Header(d) == Block(d, "header", 0)
Hole == Block(0, "hole", 0)

\* The dump whose salt and key the file names.
HeaderOf(file) == file[1].dump

\* A write at an offset; what lies between the end of the file and it is zeros.
WriteAt(file, k, block) ==
    IF k <= Len(file) THEN [file EXCEPT ![k] = block]
    ELSE file \o [i \in 1..(k - 1 - Len(file)) |-> Hole] \o <<block>>

UploadBlocks(file) == {i \in DOMAIN file : file[i].what \in Files}

TableBlocks(file) == {i \in DOMAIN file : file[i].what \in ToSet(Tables)}

TableRead(file, t) ==
    file[CHOOSE i \in DOMAIN file : file[i].what = t].at

HasEveryTable(file) == \A t \in ToSet(Tables) : \E i \in DOMAIN file : file[i].what = t

\* verifyComplete: every table is there, and as many uploads as recorded.
VerifyComplete(file) ==
    /\ HasEveryTable(file)
    /\ Cardinality(UploadBlocks(file)) = file[Len(file)].at

\* The open reader: frames of one key in their order, up to the final one and
\* nothing after it.
Opens(file) ==
    /\ file # <<>>
    /\ file[1] = Header(HeaderOf(file))
    /\ \A i \in DOMAIN file : file[i].dump = HeaderOf(file)
    /\ \A i \in DOMAIN file : file[i].what = "final" <=> i = Len(file)

Scans(file) == Opens(file) /\ VerifyComplete(file)

-------------------------------------------------------------------------------
(* Dumps.                                                                  *)

Kinds == {"asked", "scheduled", "safety"}

NotBegun == [pc |-> "idle", kind |-> "asked", name |-> <<"gosplit-backup", 1>>, file |-> 0,
             snap |-> 0, had |-> FALSE, size |-> 0, todo |-> {}, left |-> <<>>, doomed |-> {}]

Writing == {"opened", "tables", "list", "walk", "rename"}

IsWriting(d) == dumps[d].pc \in Writing

\* Asked for on the page or the command line, the scheduler's, under its lock,
\* or the safety dump of a restore.
MayBegin(d, kind) ==
    /\ dumps[d].pc = "idle"
    /\ \A c \in Dumps : c < d => dumps[c].pc # "idle"
    /\ kind = "scheduled" =>
          \A c \in Dumps : dumps[c].kind = kind => dumps[c].pc \in {"idle", "done", "stopped"}

\* Mutant: the archive is written under its own name.
DumpToDirDirect(d, kind) ==
    LET name == <<IF kind = "safety" THEN "gosplit-pre-restore" ELSE "gosplit-backup", now>>
    IN  /\ MayBegin(d, kind)
        /\ dumps' = [dumps EXCEPT ![d].pc = "opened", ![d].kind = kind, ![d].name = name,
                                  ![d].file = d]
        /\ inodes' = [inodes EXCEPT ![d] = <<>>]
        /\ partials' = [partials EXCEPT ![name] = d]
        /\ finals' = [finals EXCEPT ![name] = d]
        /\ UNCHANGED <<instance, reader, shared, torn>>

\* A .partial of that name is truncated and shared, or a new one is made.
DumpToDir(d, kind) ==
    LET name == <<IF kind = "safety" THEN "gosplit-pre-restore" ELSE "gosplit-backup", now>>
        file == IF partials[name] = 0 THEN d ELSE partials[name]
    IN  /\ MayBegin(d, kind)
        /\ dumps' = [dumps EXCEPT ![d].pc = "opened", ![d].kind = kind, ![d].name = name,
                                  ![d].file = file]
        /\ inodes' = [inodes EXCEPT ![file] = <<>>]
        /\ partials' = [partials EXCEPT ![name] = file]
        /\ shared' = IF file = d THEN shared ELSE shared \cup {file}
        /\ UNCHANGED <<instance, finals, reader, torn>>

Put(d, block) ==
    inodes' = [inodes EXCEPT ![dumps[d].file] = WriteAt(@, dumps[d].size + 1, block)]

\* The first query fixes what the dump sees of the database.  "had": no restore
\* has taken away the file the row names.
Snapshot(d) ==
    /\ dumps[d].pc = "opened"
    /\ dumps' = [dumps EXCEPT ![d].pc = "tables", ![d].snap = Len(live), ![d].size = 1,
                     ![d].had = NewestRow # NoFile /\ uploads[NewestRow] # "gone"]
    /\ Put(d, Header(d))
    /\ UNCHANGED <<instance, partials, finals, reader, shared, torn>>

\* Mutant: each table is read on its own.
SeesLatest(d) == Len(live)

Sees(d) == dumps[d].snap

DumpTable(d) ==
    LET t == Tables[dumps[d].size]
    IN  /\ dumps[d].pc = "tables"
        /\ dumps' = [dumps EXCEPT
               ![d].size = @ + 1, ![d].pc = IF dumps[d].size = Len(Tables) THEN "list" ELSE @]
        /\ Put(d, Block(d, t, Sees(d)))
        /\ UNCHANGED <<instance, partials, finals, reader, shared, torn>>

\* The directory is listed once, and each file opened when its turn comes.
ListUploads(d) ==
    /\ dumps[d].pc = "list"
    /\ dumps' = [dumps EXCEPT ![d].pc = "walk",
                     ![d].todo = {f \in Files : uploads[f] \in {"begun", "whole"}}]
    /\ UNCHANGED <<instance, dirVars, reader, shared, torn>>

ArchiveUpload(d) ==
    /\ dumps[d].pc = "walk"
    /\ \E f \in dumps[d].todo :
          IF uploads[f] = "gone"
          THEN /\ dumps' = [dumps EXCEPT ![d].todo = @ \ {f}]
               /\ UNCHANGED inodes
          ELSE /\ dumps' = [dumps EXCEPT ![d].todo = @ \ {f}, ![d].size = @ + 1]
               /\ Put(d, Block(d, f, uploads[f]))
    /\ UNCHANGED <<instance, partials, finals, reader, shared, torn>>

\* The manifest, and the final frame: how many uploads there are.
WriteManifest(d) ==
    /\ dumps[d].pc = "walk"
    /\ dumps[d].todo = {}
    /\ dumps' = [dumps EXCEPT ![d].pc = "rename", ![d].size = @ + 1]
    /\ Put(d, Block(d, "final", dumps[d].size - 1 - Len(Tables)))
    /\ UNCHANGED <<instance, partials, finals, reader, shared, torn>>

\* The scheduler prunes after its dump, both kinds of archives one after the
\* other; everybody else is done.
Rename(d) ==
    LET name == dumps[d].name
    IN  /\ dumps[d].pc = "rename"
        /\ partials[name] # 0
        /\ finals' = [finals EXCEPT ![name] = partials[name]]
        /\ partials' = [partials EXCEPT ![name] = 0]
        /\ dumps' = [dumps EXCEPT
               ![d].pc = IF dumps[d].kind = "scheduled" THEN "prune" ELSE "done",
               ![d].size = 0, ![d].file = 0,
               ![d].left = IF dumps[d].kind = "scheduled"
                           THEN <<"gosplit-backup", "gosplit-pre-restore">> ELSE <<>>]
        /\ UNCHANGED <<instance, inodes, reader, shared, torn>>

Halted(d) == [NotBegun EXCEPT !.pc = "stopped", !.name = dumps[d].name,
                              !.snap = dumps[d].snap, !.had = dumps[d].had]

\* The dump fails, or its file is not there any more to be renamed.
Fail(d) ==
    /\ IsWriting(d)
    /\ partials' = [partials EXCEPT ![dumps[d].name] = 0]
    /\ dumps' = [dumps EXCEPT ![d] = Halted(d)]
    /\ UNCHANGED <<instance, inodes, finals, reader, shared, torn>>

\* Its process stops.
Stop(d) ==
    /\ IsWriting(d) \/ dumps[d].pc = "prune"
    /\ dumps' = [dumps EXCEPT ![d] = Halted(d)]
    /\ UNCHANGED <<instance, dirVars, reader, shared, torn>>

-------------------------------------------------------------------------------
(* Pruning.                                                                *)

Archives(prefix) == {n \in Names : n[1] = prefix /\ finals[n] # 0}

\* Mutant: the sort is the other way round.
BeyondNewest(prefix) ==
    {n \in Archives(prefix) : Cardinality({m \in Archives(prefix) : m[2] < n[2]}) >= Keep}

Beyond(prefix) ==
    {n \in Archives(prefix) : Cardinality({m \in Archives(prefix) : m[2] > n[2]}) >= Keep}

ListArchives(d) ==
    /\ dumps[d].pc = "prune"
    /\ dumps[d].doomed = {}
    /\ dumps' = IF dumps[d].left = <<>> THEN [dumps EXCEPT ![d].pc = "done"]
                ELSE [dumps EXCEPT ![d].left = Tail(@), ![d].doomed = Beyond(Head(dumps[d].left))]
    /\ UNCHANGED <<instance, dirVars, reader, shared, torn>>

RemoveArchive(d) ==
    /\ dumps[d].pc = "prune"
    /\ \E n \in dumps[d].doomed :
          /\ \A m \in dumps[d].doomed : n[2] <= m[2]
          /\ finals' = [finals EXCEPT ![n] = 0]
          /\ dumps' = [dumps EXCEPT ![d].doomed = @ \ {n}]
    /\ UNCHANGED <<instance, inodes, partials, reader, shared, torn>>

\* The janitor: nobody has written to the file for a day.
SweepStalePartials ==
    \E n \in Names :
        /\ partials[n] # 0
        /\ \A d \in Dumps : IsWriting(d) => dumps[d].file # partials[n]
        /\ partials' = [partials EXCEPT ![n] = 0]
        /\ UNCHANGED <<instance, inodes, finals, dumps, reader, shared, torn>>

-------------------------------------------------------------------------------
(* The command line restores an archive of the directory: a pass that      *)
(* checks it and stages its uploads, then one that reads the rows.         *)

NoReader == [pc |-> "none", name |-> <<"gosplit-backup", 1>>, header |-> 0,
             staged |-> {}, rows |-> {}]

Scan(n) ==
    /\ reader.pc = "none"
    /\ finals[n] # 0
    /\ LET file == inodes[finals[n]]
       IN  /\ Scans(file)
           /\ reader' = [pc |-> "scanned", name |-> n, header |-> HeaderOf(file), rows |-> {},
                         staged |-> {file[i] : i \in UploadBlocks(file)}]
    /\ UNCHANGED <<instance, dirVars, dumps, shared, torn>>

\* Mutant: any archive of that name will do.
SameHeaderAny(file) == TRUE

SameHeader(file) == HeaderOf(file) = reader.header

\* What the second pass asks of the file it reads again: the header of the
\* first, frames that open, and the rows of every table.  It does not count the
\* uploads again.
StillReads(file) == Opens(file) /\ HasEveryTable(file) /\ SameHeader(file)

\* The second pass reads the file again, and the rows are committed.
ForEachRow ==
    LET n    == reader.name
        file == inodes[finals[n]]
        row  == live[TableRead(file, Tables[1])]
    IN  /\ reader.pc = "scanned"
        /\ Len(live) < MaxCommits
        /\ finals[n] # 0
        /\ StillReads(file)
        /\ live' = Append(live, row)
        /\ reader' = [reader EXCEPT !.pc = "committed", !.name = NoReader.name,
                                     !.rows = {file[i] : i \in TableBlocks(file)}]
        /\ UNCHANGED <<now, uploads, dirVars, dumps, shared, torn>>

\* The staged uploads take the place of those that were there.
SwapUploads ==
    /\ reader.pc = "committed"
    /\ uploads' = [f \in Files |-> IF \E b \in reader.staged : b.what = f THEN "whole"
                                   ELSE IF uploads[f] = "unused" THEN "unused" ELSE "gone"]
    /\ torn' = torn \cup {d \in Dumps : IsWriting(d)}
    /\ reader' = [reader EXCEPT !.pc = "restored"]
    /\ UNCHANGED <<now, live, dirVars, dumps, shared>>

\* The archive is gone, or is not what was checked.
RefuseRestore ==
    /\ reader.pc = "scanned"
    /\ finals[reader.name] # 0 => ~ StillReads(inodes[finals[reader.name]])
    /\ reader' = NoReader
    /\ UNCHANGED <<instance, dirVars, dumps, shared, torn>>

-------------------------------------------------------------------------------
(* The instance goes on meanwhile.                                         *)

\* Somebody sends an avatar: the file is created under a new name, ...
CreateFile(f) ==
    /\ uploads[f] = "unused"
    /\ uploads' = [uploads EXCEPT ![f] = "begun"]
    /\ UNCHANGED <<now, live, dirVars, dumps, reader, shared, torn>>

\* ... written, ...
WriteFile(f) ==
    /\ uploads[f] = "begun"
    /\ uploads' = [uploads EXCEPT ![f] = "whole"]
    /\ UNCHANGED <<now, live, dirVars, dumps, reader, shared, torn>>

\* Mutant: the row is saved before the file is written.
MayNameAny(f) == uploads[f] # "unused"

MayName(f) == uploads[f] \in {"whole", "gone"}

\* ... and then the row that names it is saved, in a transaction that may
\* touch every table.
UpdateProfile(f) ==
    /\ MayName(f)
    /\ Len(live) < MaxCommits
    /\ f \notin ToSet(live)
    /\ live' = Append(live, f)
    /\ UNCHANGED <<now, uploads, dirVars, dumps, reader, shared, torn>>

Pass ==
    /\ now < MaxTime
    /\ now' = now + 1
    /\ UNCHANGED <<live, uploads, dirVars, dumps, reader, shared, torn>>

-------------------------------------------------------------------------------
Init ==
    /\ now = 1
    /\ live = <<NoFile>>
    /\ uploads = [f \in Files |-> "unused"]
    /\ inodes = [d \in Dumps |-> <<>>]
    /\ partials = [n \in Names |-> 0]
    /\ finals = [n \in Names |-> 0]
    /\ dumps = [d \in Dumps |-> NotBegun]
    /\ reader = NoReader
    /\ shared = {}
    /\ torn = {}

Next ==
    \/ \E d \in Dumps :
          \/ \E kind \in Kinds : DumpToDir(d, kind)
          \/ Snapshot(d) \/ DumpTable(d) \/ ListUploads(d) \/ ArchiveUpload(d)
          \/ WriteManifest(d) \/ Rename(d) \/ Fail(d) \/ Stop(d)
          \/ ListArchives(d) \/ RemoveArchive(d)
    \/ SweepStalePartials
    \/ \E n \in Names : Scan(n)
    \/ ForEachRow \/ SwapUploads \/ RefuseRestore
    \/ \E f \in Files : CreateFile(f) \/ WriteFile(f) \/ UpdateProfile(f)
    \/ Pass

Spec == Init /\ [][Next]_vars

-------------------------------------------------------------------------------
\* "nothing scanning the directory (the startup auto-restore especially) can
\* ever pick up a half-written archive" (backup/dump.go:168), though a dump is
\* killed, fails, or overlaps others: whatever has an archive's name can be
\* restored, unless two dumps of that name began in one second and met in one
\* file; one of them may then rename the file of a third.
FinalsAreWhole ==
    \A n \in Names :
        finals[n] # 0 /\ (\A f \in shared : dumps[f].name # n) => Scans(inodes[finals[n]])

\* "Every table is read inside ONE consistent snapshot" (backup/dump.go:57) and
\* "that window is accepted because an upload file is immutable once written"
\* (backup/dump.go:318): an archive a restore accepts, even one of a shared
\* file, holds all tables as of one commit, and the whole of the upload its row
\* names, if that was there when the dump began and no restore took it away.
ArchiveIsOneMoment ==
    \A n \in Names :
        LET file == inodes[finals[n]]
            d    == HeaderOf(file)
            row  == live[dumps[d].snap]
        IN  finals[n] # 0 /\ Scans(file) =>
                /\ \A t \in ToSet(Tables) : TableRead(file, t) = dumps[d].snap
                /\ dumps[d].had /\ d \notin torn =>
                      \E i \in DOMAIN file : file[i].what = row /\ file[i].at = "whole"

\* "so the two passes cannot diverge" (backup/index.go:276): the uploads a
\* restore staged in its first pass and the rows it commits in its second are of
\* one dump and of one commit, and the file the restored row names is among the
\* uploads, though another archive takes the name, or another dump writes into
\* the file, between the passes.
PassesAgree ==
    reader.pc \in {"committed", "restored"} =>
        \E d \in Dumps :
            /\ \A b \in reader.staged \cup reader.rows : b.dump = d
            /\ {b.at : b \in reader.rows} = {dumps[d].snap}
            /\ dumps[d].had /\ d \notin torn =>
                  \E b \in reader.staged : b.what = live[dumps[d].snap] /\ b.at = "whole"

\* "keeps the newest `keep` archives matching prefix" (backup/prune.go:24):
\* what a dump has reported as written is there until as many newer ones of its
\* kind are, whoever else dumps and prunes meanwhile.
WrittenIsKept ==
    \A d \in Dumps :
        dumps[d].pc \in {"prune", "done"} =>
            LET n == dumps[d].name
            IN  \/ finals[n] # 0
                \/ Cardinality({m \in Archives(n[1]) : m[2] > n[2]}) >= Keep
================================================================================
