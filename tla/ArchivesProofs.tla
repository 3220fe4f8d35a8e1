---------------------------- MODULE ArchivesProofs ----------------------------
(***************************************************************************)
(* Proofs about Archives, for any number of dumps, uploads, tables and     *)
(* archives to keep.                                                       *)
(*                                                                         *)
(* Shape says what every variable holds, and how much a dump has written   *)
(* by its position.  Places says of every block in every file that it was  *)
(* written by a dump that has seen the database, no further than that dump *)
(* is, and where such a block belongs: so a dump never writes a position   *)
(* twice, whoever else writes into the file.  The rest is                  *)
(*    - Reading: what a restore has staged and read is of one dump;         *)
(*    - Pruning: one dump prunes at a time, what it has doomed has Keep    *)
(*      newer archives, and so has whatever a finished dump misses;        *)
(*    - RowsNameFiles, Carries: the upload of the row a dump sees is       *)
(*      there, is on its list or in every file the dump's end is in;       *)
(*    - Owners, Solo, Whole: files belong to names, and one that no two    *)
(*      dumps share holds what its dump has written and nothing else.      *)
(***************************************************************************)
EXTENDS Archives, SumLemmas, SequenceTheorems, TLAPS

Fields == {"pc", "kind", "name", "file", "snap", "had", "size", "todo", "left", "doomed"}
Positions == {"idle", "opened", "tables", "list", "walk", "rename", "prune", "done", "stopped"}

\* What is known of every dump.
Recorded ==
    /\ DOMAIN dumps = Dumps
    /\ \A d \in Dumps : DOMAIN dumps[d] = Fields

-------------------------------------------------------------------------------
(* What a step does to the dumps.                                          *)

\* Only dump d changes, and only in the fields of S.
Only(d, S) ==
    /\ DOMAIN dumps' = Dumps /\ DOMAIN dumps'[d] = Fields
    /\ \A c \in Dumps \ {d} : dumps'[c] = dumps[c]
    /\ \A x \in Fields \ S : dumps'[d][x] = dumps[d][x]

\* A dump begins (DumpToDir).
LEMMA BeginChanges ==
    ASSUME Recorded, NEW d \in Dumps, NEW kind \in Kinds, DumpToDir(d, kind)
    PROVE  /\ Only(d, {"pc", "kind", "name", "file"})
           /\ dumps[d].pc = "idle" /\ dumps'[d].pc = "opened" /\ dumps'[d].kind = kind
           /\ dumps'[d].name = <<IF kind = "safety" THEN "gosplit-pre-restore"
                                 ELSE "gosplit-backup", now>>
           /\ dumps'[d].file = IF partials[dumps'[d].name] = 0 THEN d
                               ELSE partials[dumps'[d].name]
<1> DEFINE name == <<IF kind = "safety" THEN "gosplit-pre-restore" ELSE "gosplit-backup", now>>
           file == IF partials[name] = 0 THEN d ELSE partials[name]
           next == [dumps[d] EXCEPT !.pc = "opened", !.kind = kind, !.name = name, !.file = file]
<1>1. dumps[d].pc = "idle" /\ dumps' = [dumps EXCEPT ![d] = next]
  BY DEF DumpToDir, MayBegin, Recorded
<1>2. /\ next.pc = "opened" /\ next.kind = kind /\ next.name = name /\ next.file = file
      /\ DOMAIN next = Fields
      /\ \A x \in Fields \ {"pc", "kind", "name", "file"} : next[x] = dumps[d][x]
  BY DEF Recorded, Fields
<1> HIDE DEF next
<1> QED
  BY <1>1, <1>2 DEF Only, Recorded

\* The first query (Snapshot).
LEMMA SnapshotChanges ==
    ASSUME Recorded, NEW d \in Dumps, Snapshot(d)
    PROVE  /\ Only(d, {"pc", "snap", "size", "had"})
           /\ dumps[d].pc = "opened" /\ dumps'[d].pc = "tables" /\ dumps'[d].snap = Len(live)
           /\ dumps'[d].size = 1
           /\ dumps'[d].had = (NewestRow # NoFile /\ uploads[NewestRow] # "gone")
<1> DEFINE had == (NewestRow # NoFile /\ uploads[NewestRow] # "gone")
           next == [dumps[d] EXCEPT !.pc = "tables", !.snap = Len(live), !.size = 1, !.had = had]
<1>1. dumps[d].pc = "opened" /\ dumps' = [dumps EXCEPT ![d] = next]
  BY DEF Snapshot, Recorded
<1>2. /\ next.pc = "tables" /\ next.snap = Len(live) /\ next.size = 1 /\ next.had = had
      /\ DOMAIN next = Fields
      /\ \A x \in Fields \ {"pc", "snap", "size", "had"} : next[x] = dumps[d][x]
  BY DEF Recorded, Fields
<1> HIDE DEF next
<1> QED
  BY <1>1, <1>2 DEF Only, Recorded

\* A table (DumpTable).
LEMMA TableChanges ==
    ASSUME Recorded, NEW d \in Dumps, DumpTable(d)
    PROVE  /\ Only(d, {"pc", "size"})
           /\ dumps[d].pc = "tables" /\ dumps'[d].size = dumps[d].size + 1
           /\ dumps'[d].pc = IF dumps[d].size = Len(Tables) THEN "list" ELSE "tables"
<1> DEFINE next == [dumps[d] EXCEPT !.size = dumps[d].size + 1,
                        !.pc = IF dumps[d].size = Len(Tables) THEN "list" ELSE dumps[d].pc]
<1>1. dumps[d].pc = "tables" /\ dumps' = [dumps EXCEPT ![d] = next]
  BY DEF DumpTable, Recorded
<1>2. /\ next.size = dumps[d].size + 1
      /\ next.pc = IF dumps[d].size = Len(Tables) THEN "list" ELSE dumps[d].pc
      /\ DOMAIN next = Fields
      /\ \A x \in Fields \ {"pc", "size"} : next[x] = dumps[d][x]
  BY DEF Recorded, Fields
<1> HIDE DEF next
<1> QED
  BY <1>1, <1>2 DEF Only, Recorded

\* The list of uploads (ListUploads).
LEMMA ListChanges ==
    ASSUME Recorded, NEW d \in Dumps, ListUploads(d)
    PROVE  /\ Only(d, {"pc", "todo"})
           /\ dumps[d].pc = "list" /\ dumps'[d].pc = "walk"
           /\ dumps'[d].todo = {f \in Files : uploads[f] \in {"begun", "whole"}}
<1> DEFINE todo == {f \in Files : uploads[f] \in {"begun", "whole"}}
           next == [dumps[d] EXCEPT !.pc = "walk", !.todo = todo]
<1>1. dumps[d].pc = "list" /\ dumps' = [dumps EXCEPT ![d] = next]
  BY DEF ListUploads, Recorded
<1>2. /\ next.pc = "walk" /\ next.todo = todo
      /\ DOMAIN next = Fields
      /\ \A x \in Fields \ {"pc", "todo"} : next[x] = dumps[d][x]
  BY DEF Recorded, Fields
<1> HIDE DEF next
<1> QED
  BY <1>1, <1>2 DEF Only, Recorded

\* An upload (ArchiveUpload).
LEMMA UploadChanges ==
    ASSUME Recorded, NEW d \in Dumps, ArchiveUpload(d)
    PROVE  /\ Only(d, {"todo", "size"}) /\ dumps[d].pc = "walk"
           /\ \E f \in dumps[d].todo :
                /\ dumps'[d].todo = dumps[d].todo \ {f}
                /\ \/ /\ uploads[f] = "gone"
                      /\ dumps'[d].size = dumps[d].size /\ inodes' = inodes
                   \/ /\ uploads[f] # "gone" /\ dumps'[d].size = dumps[d].size + 1
                      /\ Put(d, Block(d, f, uploads[f]))
<1>1. PICK f \in dumps[d].todo :
          IF uploads[f] = "gone"
          THEN /\ dumps' = [dumps EXCEPT ![d].todo = @ \ {f}]
               /\ UNCHANGED inodes
          ELSE /\ dumps' = [dumps EXCEPT ![d].todo = @ \ {f}, ![d].size = @ + 1]
               /\ Put(d, Block(d, f, uploads[f]))
  BY DEF ArchiveUpload
<1>2. CASE uploads[f] = "gone"
  <2> DEFINE next == [dumps[d] EXCEPT !.todo = dumps[d].todo \ {f}]
  <2>1. dumps' = [dumps EXCEPT ![d] = next] /\ inodes' = inodes
    BY <1>1, <1>2 DEF Recorded
  <2>2. /\ next.todo = dumps[d].todo \ {f} /\ next.size = dumps[d].size
        /\ DOMAIN next = Fields
        /\ \A x \in Fields \ {"todo", "size"} : next[x] = dumps[d][x]
    BY DEF Recorded, Fields
  <2> HIDE DEF next
  <2> QED
    BY <1>2, <2>1, <2>2 DEF Only, Recorded, ArchiveUpload
<1>3. CASE uploads[f] # "gone"
  <2> DEFINE next == [dumps[d] EXCEPT !.todo = dumps[d].todo \ {f}, !.size = dumps[d].size + 1]
  <2>1. dumps' = [dumps EXCEPT ![d] = next] /\ Put(d, Block(d, f, uploads[f]))
    BY <1>1, <1>3 DEF Recorded
  <2>2. /\ next.todo = dumps[d].todo \ {f} /\ next.size = dumps[d].size + 1
        /\ DOMAIN next = Fields
        /\ \A x \in Fields \ {"todo", "size"} : next[x] = dumps[d][x]
    BY DEF Recorded, Fields
  <2> HIDE DEF next
  <2> QED
    BY <1>3, <2>1, <2>2 DEF Only, Recorded, ArchiveUpload
<1> QED
  BY <1>2, <1>3

\* The end of the file (WriteManifest).
LEMMA ManifestChanges ==
    ASSUME Recorded, NEW d \in Dumps, WriteManifest(d)
    PROVE  /\ Only(d, {"pc", "size"})
           /\ dumps[d].pc = "walk" /\ dumps'[d].pc = "rename" /\ dumps[d].todo = {}
           /\ dumps'[d].size = dumps[d].size + 1
<1> DEFINE next == [dumps[d] EXCEPT !.pc = "rename", !.size = dumps[d].size + 1]
<1>1. /\ dumps[d].pc = "walk" /\ dumps[d].todo = {}
      /\ dumps' = [dumps EXCEPT ![d] = next]
  BY DEF WriteManifest, Recorded
<1>2. /\ next.pc = "rename" /\ next.size = dumps[d].size + 1
      /\ DOMAIN next = Fields
      /\ \A x \in Fields \ {"pc", "size"} : next[x] = dumps[d][x]
  BY DEF Recorded, Fields
<1> HIDE DEF next
<1> QED
  BY <1>1, <1>2 DEF Only, Recorded

\* The archive gets its name (Rename).
LEMMA RenameChanges ==
    ASSUME Recorded, NEW d \in Dumps, Rename(d)
    PROVE  /\ Only(d, {"pc", "size", "file", "left"})
           /\ dumps[d].pc = "rename"
           /\ dumps'[d].pc = IF dumps[d].kind = "scheduled" THEN "prune" ELSE "done"
           /\ dumps'[d].size = 0 /\ dumps'[d].file = 0
           /\ dumps'[d].left \in Seq(ArchivePrefixes)
<1> DEFINE pc == IF dumps[d].kind = "scheduled" THEN "prune" ELSE "done"
           left == IF dumps[d].kind = "scheduled"
                   THEN <<"gosplit-backup", "gosplit-pre-restore">> ELSE <<>>
           next == [dumps[d] EXCEPT !.pc = pc, !.size = 0, !.file = 0, !.left = left]
<1>1. dumps' = [dumps EXCEPT ![d].pc = pc, ![d].size = 0, ![d].file = 0, ![d].left = left]
  BY Zenon DEF Rename
<1>2. dumps[d].pc = "rename"
  BY DEF Rename
<1>3. left \in Seq(ArchivePrefixes)
  <2>1. <<"gosplit-backup", "gosplit-pre-restore">> \in Seq(ArchivePrefixes)
    BY DEF ArchivePrefixes
  <2>2. <<>> \in Seq(ArchivePrefixes)
    OBVIOUS
  <2> QED
    BY <2>1, <2>2, Zenon
<1> HIDE DEF pc, left
<1>4. dumps' = [dumps EXCEPT ![d] = next]
  BY <1>1 DEF Recorded
<1>5. /\ next.pc = pc /\ next.size = 0 /\ next.file = 0 /\ next.left = left
      /\ DOMAIN next = Fields
      /\ \A x \in Fields \ {"pc", "size", "file", "left"} : next[x] = dumps[d][x]
  BY DEF Recorded, Fields
<1> HIDE DEF next
<1>6. /\ Only(d, {"pc", "size", "file", "left"}) /\ dumps'[d].pc = pc
      /\ dumps'[d].size = 0 /\ dumps'[d].file = 0 /\ dumps'[d].left = left
  BY <1>4, <1>5 DEF Only, Recorded
<1> QED
  BY <1>2, <1>3, <1>6 DEF pc

\* A dump ends early (Fail, Stop).
LEMMA HaltChanges ==
    ASSUME Recorded, NEW d \in Dumps, dumps' = [dumps EXCEPT ![d] = Halted(d)]
    PROVE  /\ Only(d, Fields \ {"name", "snap", "had"})
           /\ dumps'[d].pc = "stopped" /\ dumps'[d].kind = "asked" /\ dumps'[d].file = 0
           /\ dumps'[d].size = 0 /\ dumps'[d].todo = {} /\ dumps'[d].left = <<>>
           /\ dumps'[d].doomed = {}
<1> DEFINE next == Halted(d)
<1>1. /\ next.pc = "stopped" /\ next.kind = "asked" /\ next.file = 0 /\ next.size = 0
      /\ next.todo = {} /\ next.left = <<>> /\ next.doomed = {}
      /\ DOMAIN next = Fields
      /\ \A x \in {"name", "snap", "had"} : next[x] = dumps[d][x]
  BY DEF Halted, NotBegun, Fields
<1> HIDE DEF next
<1>2. dumps' = [dumps EXCEPT ![d] = next]
  BY DEF next
<1> QED
  BY <1>1, <1>2 DEF Only, Recorded

\* A list of archives to prune, or the end of pruning (ListArchives).
LEMMA ListArchivesChanges ==
    ASSUME Recorded, NEW d \in Dumps, ListArchives(d)
    PROVE  /\ Only(d, {"pc", "left", "doomed"})
           /\ dumps[d].pc = "prune" /\ dumps[d].doomed = {}
           /\ \/ /\ dumps'[d].pc = "done" /\ dumps'[d].left = dumps[d].left
                 /\ dumps'[d].doomed = {}
              \/ /\ dumps'[d].pc = "prune" /\ dumps[d].left # <<>>
                 /\ dumps'[d].left = Tail(dumps[d].left)
                 /\ dumps'[d].doomed = Beyond(Head(dumps[d].left))
<1>1. dumps[d].pc = "prune" /\ dumps[d].doomed = {}
  BY DEF ListArchives
<1>2. CASE dumps[d].left = <<>>
  <2> DEFINE next == [dumps[d] EXCEPT !.pc = "done"]
  <2>1. dumps' = [dumps EXCEPT ![d] = next]
    BY <1>2 DEF ListArchives, Recorded
  <2>2. /\ next.pc = "done" /\ next.left = dumps[d].left /\ next.doomed = dumps[d].doomed
        /\ DOMAIN next = Fields
        /\ \A x \in Fields \ {"pc", "left", "doomed"} : next[x] = dumps[d][x]
    BY DEF Recorded, Fields
  <2> HIDE DEF next
  <2> QED
    BY <1>1, <2>1, <2>2 DEF Only, Recorded
<1>3. CASE dumps[d].left # <<>>
  <2> DEFINE next == [dumps[d] EXCEPT !.left = Tail(dumps[d].left),
                          !.doomed = Beyond(Head(dumps[d].left))]
  <2>1. dumps' = [dumps EXCEPT ![d] = next]
    BY <1>3 DEF ListArchives, Recorded
  <2>2. /\ next.pc = dumps[d].pc /\ next.left = Tail(dumps[d].left)
        /\ next.doomed = Beyond(Head(dumps[d].left))
        /\ DOMAIN next = Fields
        /\ \A x \in Fields \ {"pc", "left", "doomed"} : next[x] = dumps[d][x]
    BY DEF Recorded, Fields
  <2> HIDE DEF next
  <2> QED
    BY <1>1, <1>3, <2>1, <2>2 DEF Only, Recorded
<1> QED
  BY <1>2, <1>3

\* An archive is removed (RemoveArchive).
LEMMA RemoveChanges ==
    ASSUME Recorded, NEW d \in Dumps, RemoveArchive(d)
    PROVE  /\ Only(d, {"doomed"}) /\ dumps[d].pc = "prune"
           /\ \E n \in dumps[d].doomed :
                /\ finals' = [finals EXCEPT ![n] = 0]
                /\ dumps'[d].doomed = dumps[d].doomed \ {n}
<1>1. PICK n \in dumps[d].doomed :
          /\ finals' = [finals EXCEPT ![n] = 0]
          /\ dumps' = [dumps EXCEPT ![d].doomed = @ \ {n}]
  BY DEF RemoveArchive
<1> DEFINE next == [dumps[d] EXCEPT !.doomed = dumps[d].doomed \ {n}]
<1>2. dumps[d].pc = "prune" /\ dumps' = [dumps EXCEPT ![d] = next]
  BY <1>1 DEF RemoveArchive, Recorded
<1>3. /\ next.doomed = dumps[d].doomed \ {n}
      /\ DOMAIN next = Fields
      /\ \A x \in Fields \ {"doomed"} : next[x] = dumps[d][x]
  BY DEF Recorded, Fields
<1> HIDE DEF next
<1> QED
  BY <1>1, <1>2, <1>3 DEF Only, Recorded

-------------------------------------------------------------------------------
(* Files of blocks.                                                        *)

States == {"unused", "begun", "whole", "gone"}
Whats == ToSet(Tables) \cup Files \cup {"header", "hole", "final"}
Blocks == [dump : Dumps \cup {0}, what : Whats, at : Nat \cup States]

\* g is the file with b as its block k: the block, what was there before, and
\* zeros between.
Written(g, file, k, b) ==
    /\ g \in Seq(Blocks)
    /\ Len(g) = IF k <= Len(file) THEN Len(file) ELSE k
    /\ g[k] = b
    /\ \A i \in 1..Len(g) : \/ i = k
                            \/ i <= Len(file) /\ g[i] = file[i]
                            \/ i > Len(file) /\ g[i] = Hole

\* What a write at an offset leaves in a file (WriteAt).
LEMMA WriteAtOffset ==
    ASSUME NEW file \in Seq(Blocks), NEW k \in Nat \ {0}, NEW b \in Blocks,
           NEW g, g = WriteAt(file, k, b)
    PROVE  Written(g, file, k, b)
<1> USE DEF Written
<1>1. Hole \in Blocks
  BY DEF Hole, Block, Blocks, Whats
<1>2. CASE k <= Len(file)
  <2>1. g = [file EXCEPT ![k] = b]
    BY <1>2 DEF WriteAt
  <2>2. k \in 1..Len(file)
    BY <1>2
  <2> QED
    BY <1>2, <2>1, <2>2, ExceptSeq
<1>3. CASE ~ (k <= Len(file))
  <2> DEFINE n == k - 1 - Len(file)
             zeros == [i \in 1..n |-> Hole]
             padded == file \o zeros
  <2>1. n \in Nat /\ n = k - 1 - Len(file) /\ Len(file) \in Nat
    BY <1>3
  <2> HIDE DEF n
  <2>2. zeros \in Seq(Blocks) /\ Len(zeros) = n /\ \A i \in 1..n : zeros[i] = Hole
    BY <1>1, <2>1
  <2> HIDE DEF zeros
  <2>3. /\ padded \in Seq(Blocks) /\ Len(padded) = Len(file) + n
        /\ \A i \in 1..(Len(file) + n) : padded[i] = IF i <= Len(file) THEN file[i]
                                                    ELSE zeros[i - Len(file)]
    BY <2>2, ConcatProperties
  <2>4. Len(padded) = k - 1
    BY <2>1, <2>3
  <2>5. \A i \in 1..(k - 1) : \/ i <= Len(file) /\ padded[i] = file[i]
                              \/ i > Len(file) /\ padded[i] = Hole
    <3> HIDE DEF padded
    <3> SUFFICES ASSUME NEW i \in 1..(k - 1)
                 PROVE  \/ i <= Len(file) /\ padded[i] = file[i]
                        \/ i > Len(file) /\ padded[i] = Hole
      OBVIOUS
    <3>1. i \in Int /\ 1 <= i /\ i <= Len(file) + n
      BY <2>1
    <3>2. i > Len(file) => i - Len(file) \in 1..n
      BY <2>1, <3>1
    <3>3. padded[i] = IF i <= Len(file) THEN file[i] ELSE zeros[i - Len(file)]
      BY <2>1, <2>3, <3>1
    <3>4. i <= Len(file) \/ i > Len(file)
      BY <2>1, <3>1
    <3>5. ~ (i <= Len(file) /\ i > Len(file))
      BY <2>1, <3>1
    <3> QED
      BY <2>2, <3>2, <3>3, <3>4, <3>5, Zenon
  <2>6. <<b>> \in Seq(Blocks) /\ Len(<<b>>) = 1 /\ <<b>>[1] = b
    OBVIOUS
  <2>7. g = padded \o <<b>>
    BY <1>3 DEF WriteAt, n, zeros
  <2> HIDE DEF padded
  <2>8. /\ g \in Seq(Blocks) /\ Len(g) = k
        /\ \A i \in 1..k : g[i] = IF i <= k - 1 THEN padded[i] ELSE <<b>>[i - (k - 1)]
    BY <2>3, <2>4, <2>6, <2>7, ConcatProperties
  <2>9. g[k] = b /\ \A i \in 1..k : i # k => g[i] = padded[i]
    BY <2>6, <2>8
  <2>10. \A i \in 1..k : i = k \/ i \in 1..(k - 1)
    OBVIOUS
  <2>11. \A i \in 1..k : \/ i = k
                         \/ i <= Len(file) /\ g[i] = file[i]
                         \/ i > Len(file) /\ g[i] = Hole
    BY <2>5, <2>9, <2>10
  <2>12. /\ g \in Seq(Blocks) /\ Len(g) = k /\ g[k] = b
    BY <2>8, <2>9
  <2> QED
    BY <1>3, <2>11, <2>12, Zenon
<1> QED
  BY <1>2, <1>3

-------------------------------------------------------------------------------
(* The shape of the state.                                                 *)

\* A dump that writes has written so much (every action of a dump).
SizeOf(d) ==
    /\ dumps[d].pc = "opened" => dumps[d].size = 0
    /\ dumps[d].pc = "tables" => dumps[d].size \in 1..Len(Tables)
    /\ dumps[d].pc = "list" => dumps[d].size = Len(Tables) + 1
    /\ dumps[d].pc = "walk" => dumps[d].size >= Len(Tables) + 1
    /\ dumps[d].pc = "rename" => dumps[d].size >= Len(Tables) + 2

Sizes == \A d \in Dumps : SizeOf(d)

\* What the fields of a dump hold.
DumpShape(d) ==
    /\ dumps[d].pc \in Positions /\ dumps[d].kind \in Kinds /\ dumps[d].name \in Names
    /\ IsWriting(d) => dumps[d].file \in Dumps
    /\ dumps[d].snap \in Nat /\ dumps[d].size \in Nat
    /\ dumps[d].pc \in {"idle", "prune", "done", "stopped"} => dumps[d].size = 0
    /\ dumps[d].todo \subseteq Files
    /\ dumps[d].left \in Seq(ArchivePrefixes) /\ dumps[d].doomed \subseteq Names

DumpsShape == Recorded /\ \A d \in Dumps : DumpShape(d)

Shape ==
    /\ now \in 1..MaxTime
    /\ live \in Seq(ToSet(live)) /\ live # <<>>
    /\ uploads \in [Files -> States]
    /\ inodes \in [Dumps -> Seq(Blocks)]
    /\ partials \in [Names -> Dumps \cup {0}] /\ finals \in [Names -> Dumps \cup {0}]
    /\ DumpsShape /\ Sizes
    /\ shared \subseteq Dumps

\* A list of rows that gets one more.
LEMMA OneMoreRow ==
    ASSUME NEW l, l \in Seq(ToSet(l)), NEW x
    PROVE  LET m == Append(l, x)
           IN  /\ m \in Seq(ToSet(m)) /\ m # <<>> /\ Len(m) = Len(l) + 1
               /\ \A i \in DOMAIN l : i \in DOMAIN m /\ m[i] = l[i]
               /\ m[Len(l) + 1] = x /\ DOMAIN m = 1..(Len(l) + 1)
<1> DEFINE m == Append(l, x)
           S == ToSet(l) \cup {x}
<1>1. l \in Seq(S) /\ x \in S
  BY SeqMonotonic
<1> HIDE DEF S
<1>2. /\ m \in Seq(S) /\ Len(m) = Len(l) + 1 /\ Len(l) \in Nat
      /\ \A i \in 1..Len(l) : m[i] = l[i]
      /\ m[Len(l) + 1] = x /\ DOMAIN m = 1..(Len(l) + 1) /\ DOMAIN l = 1..Len(l)
  BY <1>1
<1> HIDE DEF m
<1>3. m \in [1..Len(m) -> ToSet(m)] /\ Len(m) \in Nat
  BY <1>2 DEF ToSet
<1>4. m \in Seq(ToSet(m))
  BY <1>3
<1>5. \A i \in DOMAIN l : i \in DOMAIN m /\ m[i] = l[i]
  BY <1>2
<1>6. m # <<>>
  BY <1>2
<1> QED
  BY <1>2, <1>4, <1>5, <1>6 DEF m

\* What writing a block does to the files (Put).
LEMMA PutChanges ==
    ASSUME Shape, NEW d \in Dumps, IsWriting(d), NEW b \in Blocks, Put(d, b)
    PROVE  LET f == dumps[d].file
               k == dumps[d].size + 1
           IN  /\ f \in Dumps /\ k \in Nat \ {0} /\ inodes' \in [Dumps -> Seq(Blocks)]
               /\ \A g \in Dumps \ {f} : inodes'[g] = inodes[g]
               /\ Written(inodes'[f], inodes[f], k, b)
<1> DEFINE f == dumps[d].file
           k == dumps[d].size + 1
           g == WriteAt(inodes[f], k, b)
<1>1. f \in Dumps /\ k \in Nat \ {0} /\ inodes[f] \in Seq(Blocks)
  BY DEF Shape, DumpsShape, DumpShape, IsWriting
<1>2. inodes' = [inodes EXCEPT ![f] = g]
  BY DEF Put
<1>3. g = WriteAt(inodes[f], k, b)
  OBVIOUS
<1> HIDE DEF f, k, g
<1>4. Written(g, inodes[f], k, b)
  BY <1>1, <1>3, WriteAtOffset
<1>5. inodes'[f] = g /\ (\A h \in Dumps \ {f} : inodes'[h] = inodes[h])
      /\ inodes' \in [Dumps -> Seq(Blocks)]
  BY <1>1, <1>2, <1>4 DEF Shape, Written
<1> QED
  BY <1>1, <1>4, <1>5 DEF f, k

\* The blocks that are written are blocks.
LEMMA BlocksWritten ==
    ASSUME Shape, NEW d \in Dumps
    PROVE  /\ Header(d) \in Blocks
           /\ \A i \in DOMAIN Tables : Block(d, Tables[i], Sees(d)) \in Blocks
           /\ \A f \in Files : Block(d, f, uploads[f]) \in Blocks
           /\ \A k \in Nat : Block(d, "final", k) \in Blocks
<1>1. dumps[d].snap \in Nat
  BY DEF Shape, DumpsShape, DumpShape
<1>2. \A f \in Files : uploads[f] \in States
  BY DEF Shape
<1>3. \A i \in DOMAIN Tables : Tables[i] \in ToSet(Tables)
  BY DEF ToSet
<1>4. Header(d) \in Blocks /\ \A k \in Nat : Block(d, "final", k) \in Blocks
  BY DEF Header, Block, Blocks, Whats
<1>5. \A i \in DOMAIN Tables : Block(d, Tables[i], Sees(d)) \in Blocks
  BY <1>1, <1>3 DEF Sees, Block, Blocks, Whats
<1>6. \A f \in Files : Block(d, f, uploads[f]) \in Blocks
  BY <1>2 DEF Block, Blocks, Whats
<1> QED
  BY <1>4, <1>5, <1>6

\* The dump of a step takes a block further.
Writes(d, b) ==
    /\ b \in Blocks /\ b.dump = d
    /\ IsWriting(d) /\ IsWriting(d)' /\ dumps'[d].pc # "opened"
    /\ dumps'[d].size = dumps[d].size + 1
    /\ dumps'[d].todo \subseteq dumps[d].todo
    /\ dumps[d].pc # "opened" => dumps'[d].snap = dumps[d].snap /\ dumps'[d].had = dumps[d].had
    /\ dumps[d].pc = "opened" => dumps'[d].snap = Len(live)
    /\ Only(d, {"pc", "snap", "had", "size", "todo"})
    /\ Put(d, b)
    /\ UNCHANGED <<now, live, uploads, partials, finals, shared, torn>>

\* Each of its actions writes the block that has its place there.
LEMMA SnapshotWrites ==
    ASSUME Shape, NEW d \in Dumps, Snapshot(d)
    PROVE  Writes(d, Header(d)) /\ dumps'[d].pc = "tables"
<1>1. Header(d) \in Blocks /\ Header(d).dump = d
  BY BlocksWritten DEF Header, Block
<1>2. /\ Put(d, Header(d))
      /\ UNCHANGED <<now, live, uploads, partials, finals, shared, torn>>
  BY DEF Snapshot, instance
<1>3. Recorded /\ dumps[d].todo = dumps[d].todo /\ (dumps[d].pc = "opened" => dumps[d].size = 0)
  BY DEF Shape, DumpsShape, DumpShape, Sizes, SizeOf
<1>4. /\ Only(d, {"pc", "snap", "size", "had"})
      /\ dumps[d].pc = "opened" /\ dumps'[d].pc = "tables" /\ dumps'[d].snap = Len(live)
      /\ dumps'[d].size = 1
  BY <1>3, SnapshotChanges
<1>5. dumps'[d].todo = dumps[d].todo /\ Only(d, {"pc", "snap", "had", "size", "todo"})
  BY <1>4 DEF Only, Fields
<1> QED
  BY <1>1, <1>2, <1>3, <1>4, <1>5 DEF Writes, IsWriting, Writing

\* A table.
LEMMA TableWrites ==
    ASSUME Shape, NEW d \in Dumps, DumpTable(d)
    PROVE  /\ Writes(d, Block(d, Tables[dumps[d].size], dumps[d].snap))
           /\ dumps[d].pc = "tables" /\ dumps[d].size \in DOMAIN Tables
           /\ dumps'[d].pc = IF dumps[d].size = Len(Tables) THEN "list" ELSE "tables"
<1> DEFINE b == Block(d, Tables[dumps[d].size], dumps[d].snap)
<1>1. /\ dumps[d].pc = "tables" /\ Put(d, b)
      /\ UNCHANGED <<now, live, uploads, partials, finals, shared, torn>>
  BY DEF DumpTable, instance, Sees
<1>2. Recorded /\ dumps[d].size \in DOMAIN Tables
  BY <1>1, ArchivesAssumption DEF Shape, DumpsShape, DumpShape, Sizes, SizeOf
<1>3. b \in Blocks /\ b.dump = d
  BY <1>2, BlocksWritten DEF Block, Sees
<1> HIDE DEF b
<1>4. /\ Only(d, {"pc", "size"})
      /\ dumps[d].pc = "tables" /\ dumps'[d].size = dumps[d].size + 1
      /\ dumps'[d].pc = IF dumps[d].size = Len(Tables) THEN "list" ELSE "tables"
  BY <1>2, TableChanges
<1>5. /\ dumps'[d].todo = dumps[d].todo /\ dumps'[d].snap = dumps[d].snap
      /\ dumps'[d].had = dumps[d].had /\ Only(d, {"pc", "snap", "had", "size", "todo"})
  BY <1>4 DEF Only, Fields
<1>6. Writes(d, b)
  BY <1>1, <1>3, <1>4, <1>5 DEF Writes, IsWriting, Writing
<1> QED
  BY <1>2, <1>4, <1>6 DEF b

\* An upload, unless it has gone meanwhile.
LEMMA UploadWrites ==
    ASSUME Shape, NEW d \in Dumps, ArchiveUpload(d)
    PROVE  /\ dumps[d].pc = "walk"
           /\ \E f \in dumps[d].todo :
                /\ f \in Files /\ dumps'[d].todo = dumps[d].todo \ {f} /\ dumps'[d].pc = "walk"
                /\ \/ /\ uploads[f] = "gone" /\ Only(d, {"todo"}) /\ inodes' = inodes
                   \/ /\ uploads[f] # "gone" /\ Writes(d, Block(d, f, uploads[f]))
           /\ UNCHANGED <<now, live, uploads, partials, finals, shared, torn>>
<1>1. UNCHANGED <<now, live, uploads, partials, finals, shared, torn>>
  BY DEF ArchiveUpload, instance
<1>2. Recorded /\ dumps[d].todo \subseteq Files
  BY DEF Shape, DumpsShape, DumpShape
<1>3. Only(d, {"todo", "size"}) /\ dumps[d].pc = "walk"
  BY <1>2, UploadChanges
<1>4. PICK f \in dumps[d].todo :
          /\ dumps'[d].todo = dumps[d].todo \ {f}
          /\ \/ /\ uploads[f] = "gone"
                /\ dumps'[d].size = dumps[d].size /\ inodes' = inodes
             \/ /\ uploads[f] # "gone" /\ dumps'[d].size = dumps[d].size + 1
                /\ Put(d, Block(d, f, uploads[f]))
  BY <1>2, UploadChanges
<1>5. dumps'[d].pc = "walk" /\ f \in Files
  BY <1>2, <1>3 DEF Only, Fields
<1>6. CASE uploads[f] = "gone" /\ dumps'[d].size = dumps[d].size /\ inodes' = inodes
  <2>1. Only(d, {"todo"})
    BY <1>3, <1>6 DEF Only, Fields
  <2> QED
    BY <1>1, <1>3, <1>4, <1>5, <1>6, <2>1
<1>7. CASE /\ uploads[f] # "gone" /\ dumps'[d].size = dumps[d].size + 1
           /\ Put(d, Block(d, f, uploads[f]))
  <2> DEFINE b == Block(d, f, uploads[f])
  <2>1. b \in Blocks /\ b.dump = d /\ Put(d, b)
    BY <1>5, <1>7, BlocksWritten DEF Block
  <2> HIDE DEF b
  <2>2. /\ dumps'[d].snap = dumps[d].snap /\ dumps'[d].had = dumps[d].had
        /\ Only(d, {"pc", "snap", "had", "size", "todo"})
    BY <1>3 DEF Only, Fields
  <2>3. Writes(d, b)
    BY <1>1, <1>3, <1>4, <1>5, <1>7, <2>1, <2>2 DEF Writes, IsWriting, Writing
  <2> QED
    BY <1>1, <1>3, <1>4, <1>5, <1>7, <2>3 DEF b
<1> QED
  BY <1>4, <1>6, <1>7

\* The final block.
LEMMA ManifestWrites ==
    ASSUME Shape, NEW d \in Dumps, WriteManifest(d)
    PROVE  /\ Writes(d, Block(d, "final", dumps[d].size - 1 - Len(Tables)))
           /\ dumps[d].pc = "walk" /\ dumps'[d].pc = "rename" /\ dumps[d].todo = {}
<1> DEFINE b == Block(d, "final", dumps[d].size - 1 - Len(Tables))
<1>1. /\ dumps[d].pc = "walk" /\ Put(d, b)
      /\ UNCHANGED <<now, live, uploads, partials, finals, shared, torn>>
  BY DEF WriteManifest, instance
<1>2. Recorded /\ dumps[d].size - 1 - Len(Tables) \in Nat
  BY <1>1, ArchivesAssumption DEF Shape, DumpsShape, DumpShape, Sizes, SizeOf
<1>3. b \in Blocks /\ b.dump = d
  BY <1>2, BlocksWritten DEF Block
<1> HIDE DEF b
<1>4. /\ Only(d, {"pc", "size"})
      /\ dumps'[d].pc = "rename" /\ dumps[d].todo = {}
      /\ dumps'[d].size = dumps[d].size + 1
  BY <1>2, ManifestChanges
<1>5. /\ dumps'[d].todo = dumps[d].todo /\ dumps'[d].snap = dumps[d].snap
      /\ dumps'[d].had = dumps[d].had /\ Only(d, {"pc", "snap", "had", "size", "todo"})
  BY <1>4 DEF Only, Fields
<1>6. Writes(d, b)
  BY <1>1, <1>3, <1>4, <1>5 DEF Writes, IsWriting, Writing
<1> QED
  BY <1>1, <1>4, <1>6 DEF b

\* Enough to look at the dump of a step.
LEMMA DumpsShapeKept ==
    ASSUME Shape, NEW d \in Dumps, NEW S, Only(d, S), DumpShape(d)', SizeOf(d)'
    PROVE  DumpsShape' /\ Sizes'
<1>1. Recorded'
  BY DEF Shape, DumpsShape, Recorded, Only
<1>2. ASSUME NEW c \in Dumps, c # d PROVE DumpShape(c)' /\ SizeOf(c)'
  <2>1. dumps'[c] = dumps[c] /\ DumpShape(c) /\ SizeOf(c)
    BY <1>2 DEF Shape, DumpsShape, Sizes, Only
  <2> QED
    BY <2>1 DEF DumpShape, SizeOf, IsWriting
<1> QED
  BY <1>1, <1>2, Zenon DEF DumpsShape, Sizes

\* A write (Snapshot, DumpTable, ArchiveUpload, WriteManifest) keeps the shape.
LEMMA WritesKeepShape ==
    ASSUME Shape, NEW d \in Dumps, NEW b, Writes(d, b), SizeOf(d)'
    PROVE  Shape'
<1>1. /\ Only(d, {"pc", "snap", "had", "size", "todo"}) /\ IsWriting(d) /\ IsWriting(d)'
      /\ dumps'[d].size = dumps[d].size + 1 /\ dumps'[d].todo \subseteq dumps[d].todo
      /\ dumps[d].pc # "opened" => dumps'[d].snap = dumps[d].snap
      /\ dumps[d].pc = "opened" => dumps'[d].snap = Len(live)
      /\ b \in Blocks /\ Put(d, b)
      /\ UNCHANGED <<now, live, uploads, partials, finals, shared>>
  BY DEF Writes
<1>2. DumpShape(d) /\ Len(live) \in Nat
  BY DEF Shape, DumpsShape
<1>3. /\ dumps'[d].kind = dumps[d].kind /\ dumps'[d].name = dumps[d].name
      /\ dumps'[d].file = dumps[d].file /\ dumps'[d].left = dumps[d].left
      /\ dumps'[d].doomed = dumps[d].doomed
  BY <1>1 DEF Only, Fields
<1>4. DumpShape(d)'
  BY <1>1, <1>2, <1>3 DEF DumpShape, IsWriting, Writing, Positions
<1>5. DumpsShape' /\ Sizes'
  BY <1>1, <1>4, DumpsShapeKept
<1>6. inodes' \in [Dumps -> Seq(Blocks)]
  BY <1>1, PutChanges
<1> QED
  BY <1>1, <1>5, <1>6 DEF Shape

\* Every step keeps the shape: a dump begins, ...
LEMMA BeginKeepsShape ==
    ASSUME Shape, NEW d \in Dumps, NEW kind \in Kinds, DumpToDir(d, kind) PROVE Shape'
<1> DEFINE name == dumps'[d].name
           file == dumps'[d].file
<1>1. /\ Only(d, {"pc", "kind", "name", "file"})
      /\ dumps[d].pc = "idle" /\ dumps'[d].pc = "opened" /\ dumps'[d].kind = kind
      /\ name = <<IF kind = "safety" THEN "gosplit-pre-restore" ELSE "gosplit-backup", now>>
      /\ file = IF partials[name] = 0 THEN d ELSE partials[name]
  BY BeginChanges DEF Shape, DumpsShape
<1>2. /\ inodes' = [inodes EXCEPT ![file] = <<>>]
      /\ partials' = [partials EXCEPT ![name] = file]
      /\ shared' = IF file = d THEN shared ELSE shared \cup {file}
      /\ UNCHANGED <<now, live, uploads, finals, torn>>
  BY <1>1, Zenon DEF DumpToDir, instance
<1>3. name \in Names
  <2>1. "gosplit-pre-restore" \in ArchivePrefixes /\ "gosplit-backup" \in ArchivePrefixes
        /\ now \in 1..MaxTime
    BY DEF ArchivePrefixes, Shape
  <2>2. (IF kind = "safety" THEN "gosplit-pre-restore" ELSE "gosplit-backup") \in ArchivePrefixes
    BY <2>1, Zenon
  <2> QED
    BY <1>1, <2>1, <2>2 DEF Names
<1> HIDE DEF name, file
<1>4. file \in Dumps
  BY <1>1, <1>3 DEF Shape
<1>5. /\ dumps'[d].snap = dumps[d].snap /\ dumps'[d].todo = dumps[d].todo
      /\ dumps'[d].left = dumps[d].left /\ dumps'[d].doomed = dumps[d].doomed
      /\ dumps'[d].size = dumps[d].size
  BY <1>1 DEF Only, Fields
<1>6. DumpShape(d)
  BY DEF Shape, DumpsShape
<1>7. DumpShape(d)' /\ SizeOf(d)'
  BY <1>1, <1>3, <1>4, <1>5, <1>6 DEF DumpShape, SizeOf, Positions, IsWriting, name, file
<1>8. DumpsShape' /\ Sizes'
  BY <1>1, <1>7, DumpsShapeKept
<1>9. inodes' \in [Dumps -> Seq(Blocks)]
  <2>1. <<>> \in Seq(Blocks)
    OBVIOUS
  <2> QED
    BY <1>2, <1>4, <2>1 DEF Shape
<1>10. partials' \in [Names -> Dumps \cup {0}] /\ shared' \subseteq Dumps
  BY <1>2, <1>3, <1>4 DEF Shape
<1> QED
  BY <1>2, <1>8, <1>9, <1>10 DEF Shape

\* ... writes, ...
LEMMA WriteKeepsShape ==
    ASSUME Shape, NEW d \in Dumps,
           Snapshot(d) \/ DumpTable(d) \/ ArchiveUpload(d) \/ WriteManifest(d)
    PROVE  Shape'
<1>1. DumpShape(d) /\ SizeOf(d) /\ Len(Tables) \in Nat \ {0}
  BY ArchivesAssumption DEF Shape, DumpsShape, Sizes
<1>2. ASSUME NEW b, Writes(d, b) PROVE dumps'[d].size = dumps[d].size + 1
  BY <1>2 DEF Writes
<1>3. CASE Snapshot(d)
  <2>1. SizeOf(d)'
    BY <1>1, <1>2, <1>3, SnapshotWrites, SnapshotChanges DEF SizeOf, Shape, DumpsShape
  <2> QED
    BY <1>3, <2>1, SnapshotWrites, WritesKeepShape
<1>4. CASE DumpTable(d)
  <2>1. SizeOf(d)'
    BY <1>1, <1>2, <1>4, TableWrites DEF SizeOf
  <2> QED
    BY <1>4, <2>1, TableWrites, WritesKeepShape
<1>5. CASE ArchiveUpload(d)
  <2>1. PICK f \in dumps[d].todo :
          /\ f \in Files /\ dumps'[d].todo = dumps[d].todo \ {f} /\ dumps'[d].pc = "walk"
          /\ \/ /\ uploads[f] = "gone" /\ Only(d, {"todo"}) /\ inodes' = inodes
             \/ /\ uploads[f] # "gone" /\ Writes(d, Block(d, f, uploads[f]))
    BY <1>5, UploadWrites
  <2>2. /\ dumps[d].pc = "walk"
        /\ UNCHANGED <<now, live, uploads, partials, finals, shared, torn>>
    BY <1>5, UploadWrites
  <2>3. CASE Only(d, {"todo"}) /\ inodes' = inodes
    <3>1. \A x \in Fields \ {"todo"} : dumps'[d][x] = dumps[d][x]
      BY <2>3 DEF Only
    <3>2. DumpShape(d)' /\ SizeOf(d)'
      BY <1>1, <2>1, <2>2, <3>1 DEF DumpShape, SizeOf, Fields, IsWriting
    <3>3. DumpsShape' /\ Sizes'
      BY <2>3, <3>2, DumpsShapeKept
    <3> QED
      BY <2>2, <2>3, <3>3 DEF Shape
  <2>4. CASE Writes(d, Block(d, f, uploads[f]))
    <3>1. SizeOf(d)'
      BY <1>1, <1>2, <2>1, <2>2, <2>4 DEF SizeOf, DumpShape
    <3> QED
      BY <2>4, <3>1, WritesKeepShape
  <2> QED
    BY <2>1, <2>3, <2>4
<1>6. CASE WriteManifest(d)
  <2>1. SizeOf(d)'
    BY <1>1, <1>2, <1>6, ManifestWrites DEF SizeOf, DumpShape
  <2> QED
    BY <1>6, <2>1, ManifestWrites, WritesKeepShape
<1> QED
  BY <1>3, <1>4, <1>5, <1>6

\* ... lists, is renamed, ...
LEMMA ListOrRenameKeepsShape ==
    ASSUME Shape, NEW d \in Dumps, ListUploads(d) \/ Rename(d) PROVE Shape'
<1>1. DumpShape(d) /\ SizeOf(d) /\ Recorded
  BY DEF Shape, DumpsShape, Sizes
<1>2. CASE ListUploads(d)
  <2>1. /\ Only(d, {"pc", "todo"}) /\ dumps[d].pc = "list" /\ dumps'[d].pc = "walk"
        /\ dumps'[d].todo \subseteq Files
    BY <1>1, <1>2, ListChanges
  <2>2. \A x \in Fields \ {"pc", "todo"} : dumps'[d][x] = dumps[d][x]
    BY <2>1 DEF Only
  <2>3. DumpShape(d)' /\ SizeOf(d)'
    BY <1>1, <2>1, <2>2, ArchivesAssumption DEF DumpShape, SizeOf, Fields, IsWriting, Writing, Positions
  <2>4. DumpsShape' /\ Sizes'
    BY <2>1, <2>3, DumpsShapeKept
  <2> QED
    BY <1>2, <2>4 DEF Shape, ListUploads, instance, dirVars
<1>3. CASE Rename(d)
  <2>1. /\ Only(d, {"pc", "size", "file", "left"})
        /\ dumps'[d].pc \in {"prune", "done"} /\ dumps'[d].size = 0
        /\ dumps'[d].left \in Seq(ArchivePrefixes)
    BY <1>1, <1>3, RenameChanges
  <2>2. \A x \in Fields \ {"pc", "size", "file", "left"} : dumps'[d][x] = dumps[d][x]
    BY <2>1 DEF Only
  <2>3. DumpShape(d)' /\ SizeOf(d)'
    BY <1>1, <2>1, <2>2 DEF DumpShape, SizeOf, Fields, IsWriting, Writing, Positions
  <2>4. DumpsShape' /\ Sizes'
    BY <2>1, <2>3, DumpsShapeKept
  <2>5. /\ finals' = [finals EXCEPT ![dumps[d].name] = partials[dumps[d].name]]
        /\ partials' = [partials EXCEPT ![dumps[d].name] = 0]
        /\ UNCHANGED <<now, live, uploads, inodes, shared>>
    BY <1>3 DEF Rename, instance
  <2> QED
    BY <1>1, <2>4, <2>5 DEF Shape, DumpShape
<1> QED
  BY <1>2, <1>3

\* ... fails or stops, ...
LEMMA HaltKeepsShape ==
    ASSUME Shape, NEW d \in Dumps, Fail(d) \/ Stop(d) PROVE Shape'
<1>1. DumpShape(d) /\ SizeOf(d) /\ Recorded
  BY DEF Shape, DumpsShape, Sizes
<1>2. /\ dumps' = [dumps EXCEPT ![d] = Halted(d)]
      /\ UNCHANGED <<now, live, uploads, inodes, finals, shared>>
      /\ partials' = partials \/ partials' = [partials EXCEPT ![dumps[d].name] = 0]
  BY DEF Fail, Stop, instance, dirVars
<1>3. /\ Only(d, Fields \ {"name", "snap", "had"})
      /\ dumps'[d].pc = "stopped" /\ dumps'[d].kind = "asked"
      /\ dumps'[d].size = 0 /\ dumps'[d].todo = {} /\ dumps'[d].left = <<>>
      /\ dumps'[d].doomed = {}
  BY <1>1, <1>2, HaltChanges
<1>4. dumps'[d].name = dumps[d].name /\ dumps'[d].snap = dumps[d].snap
  BY <1>3 DEF Only, Fields
<1>5. DumpShape(d)' /\ SizeOf(d)'
  BY <1>1, <1>3, <1>4 DEF DumpShape, SizeOf, IsWriting, Writing, Positions, Kinds
<1>6. DumpsShape' /\ Sizes'
  BY <1>3, <1>5, DumpsShapeKept
<1>7. partials' \in [Names -> Dumps \cup {0}]
  BY <1>1, <1>2 DEF Shape, DumpShape
<1> QED
  BY <1>2, <1>6, <1>7 DEF Shape

\* ... prunes; the janitor sweeps; ...
LEMMA PruneKeepsShape ==
    ASSUME Shape, SweepStalePartials \/ \E d \in Dumps : ListArchives(d) \/ RemoveArchive(d)
    PROVE  Shape'
<1>1. CASE SweepStalePartials
  <2>1. partials' \in [Names -> Dumps \cup {0}]
    BY <1>1 DEF Shape, SweepStalePartials
  <2>2. UNCHANGED <<now, live, uploads, inodes, finals, dumps, shared>>
    BY <1>1 DEF SweepStalePartials, instance
  <2>3. DumpsShape' /\ Sizes'
    BY <2>2 DEF Shape, DumpsShape, DumpShape, Recorded, Sizes, SizeOf, IsWriting
  <2> QED
    BY <2>1, <2>2, <2>3 DEF Shape
<1>2. ASSUME NEW d \in Dumps, ListArchives(d) PROVE Shape'
  <2>1. DumpShape(d) /\ SizeOf(d) /\ Recorded
    BY DEF Shape, DumpsShape, Sizes
  <2>2. /\ Only(d, {"pc", "left", "doomed"}) /\ dumps[d].pc = "prune"
        /\ \/ dumps'[d].pc = "done" /\ dumps'[d].left = dumps[d].left /\ dumps'[d].doomed = {}
           \/ /\ dumps'[d].pc = "prune" /\ dumps[d].left # <<>>
              /\ dumps'[d].left = Tail(dumps[d].left)
              /\ dumps'[d].doomed = Beyond(Head(dumps[d].left))
    BY <1>2, <2>1, ListArchivesChanges
  <2>3. dumps'[d].left \in Seq(ArchivePrefixes) /\ dumps'[d].doomed \subseteq Names
    <3>1. dumps[d].left \in Seq(ArchivePrefixes)
      BY <2>1 DEF DumpShape
    <3>2. \A prefix : Beyond(prefix) \subseteq Names
      BY DEF Beyond, Archives
    <3>3. dumps[d].left # <<>> => Tail(dumps[d].left) \in Seq(ArchivePrefixes)
      BY <3>1
    <3> QED
      BY <2>2, <3>1, <3>2, <3>3
  <2>4. \A x \in Fields \ {"pc", "left", "doomed"} : dumps'[d][x] = dumps[d][x]
    BY <2>2 DEF Only
  <2>5. dumps'[d].pc \in {"prune", "done"}
    BY <2>2
  <2>6. DumpShape(d)' /\ SizeOf(d)'
    BY <2>1, <2>2, <2>3, <2>4, <2>5 DEF DumpShape, SizeOf, Fields, IsWriting, Writing, Positions
  <2>7. DumpsShape' /\ Sizes'
    BY <2>2, <2>6, DumpsShapeKept
  <2> QED
    BY <1>2, <2>7 DEF Shape, ListArchives, instance, dirVars
<1>3. ASSUME NEW d \in Dumps, RemoveArchive(d) PROVE Shape'
  <2>1. DumpShape(d) /\ SizeOf(d) /\ Recorded
    BY DEF Shape, DumpsShape, Sizes
  <2>2. Only(d, {"doomed"}) /\ dumps[d].pc = "prune"
    BY <1>3, <2>1, RemoveChanges
  <2>3. PICK n \in dumps[d].doomed :
            finals' = [finals EXCEPT ![n] = 0] /\ dumps'[d].doomed = dumps[d].doomed \ {n}
    BY <1>3, <2>1, RemoveChanges
  <2>4. \A x \in Fields \ {"doomed"} : dumps'[d][x] = dumps[d][x]
    BY <2>2 DEF Only
  <2>5. DumpShape(d)' /\ SizeOf(d)'
    BY <2>1, <2>2, <2>3, <2>4 DEF DumpShape, SizeOf, Fields, IsWriting
  <2>6. DumpsShape' /\ Sizes'
    BY <2>2, <2>5, DumpsShapeKept
  <2>7. finals' \in [Names -> Dumps \cup {0}]
    BY <2>3 DEF Shape
  <2> QED
    BY <1>3, <2>6, <2>7 DEF Shape, RemoveArchive, instance
<1> QED
  BY <1>1, <1>2, <1>3

\* What a step of the instance or of the reader does.
Elsewhere ==
    /\ UNCHANGED <<inodes, partials, finals, dumps, shared>>
    /\ \/ \E n \in Names : Scan(n)
       \/ ForEachRow \/ SwapUploads \/ RefuseRestore
       \/ \E f \in Files : CreateFile(f) \/ WriteFile(f) \/ UpdateProfile(f)
       \/ Pass

\* ... and the instance and the reader go on.
LEMMA ElsewhereKeepsShape == ASSUME Shape, Elsewhere PROVE Shape'
<1>1. DumpsShape' /\ Sizes'
  BY DEF Elsewhere, Shape, DumpsShape, DumpShape, Recorded, Sizes, SizeOf, IsWriting
<1>2. UNCHANGED <<inodes, partials, finals, shared>>
  BY DEF Elsewhere
<1>3. live' \in Seq(ToSet(live')) /\ live' # <<>>
  <2>1. live' = live \/ \E x : live' = Append(live, x)
    BY DEF Elsewhere, Scan, ForEachRow, SwapUploads, RefuseRestore, CreateFile, WriteFile, UpdateProfile,
           Pass, instance
  <2>2. live \in Seq(ToSet(live)) /\ live # <<>>
    BY DEF Shape
  <2>3. ASSUME NEW x, live' = Append(live, x) PROVE live' \in Seq(ToSet(live')) /\ live' # <<>>
    <3>1. Append(live, x) \in Seq(ToSet(Append(live, x))) /\ Append(live, x) # <<>>
      BY <2>2, OneMoreRow
    <3> QED
      BY <2>3, <3>1
  <2> QED
    BY <2>1, <2>2, <2>3
<1>4. now' \in 1..MaxTime
  BY ArchivesAssumption DEF Elsewhere, Scan, ForEachRow, SwapUploads, RefuseRestore, CreateFile, WriteFile,
     UpdateProfile, Pass, instance, Shape
<1>5. uploads' \in [Files -> States]
  BY DEF Elsewhere, Scan, ForEachRow, SwapUploads, RefuseRestore, CreateFile, WriteFile,
     UpdateProfile, Pass, instance, Shape, States
<1> QED
  BY <1>1, <1>2, <1>3, <1>4, <1>5 DEF Shape

\* Whatever happens, a dump does it or it happens elsewhere.
LEMMA StepsAre ==
    Next => \/ \E d \in Dumps : \/ \E kind \in Kinds : DumpToDir(d, kind)
                               \/ Snapshot(d) \/ DumpTable(d) \/ ArchiveUpload(d) \/ WriteManifest(d)
                               \/ ListUploads(d) \/ Rename(d)
                               \/ Fail(d) \/ Stop(d)
                               \/ ListArchives(d) \/ RemoveArchive(d)
            \/ SweepStalePartials
            \/ Elsewhere
<1> SUFFICES ASSUME Next,
                    \/ \E n \in Names : Scan(n)
                    \/ ForEachRow \/ SwapUploads \/ RefuseRestore
                    \/ \E f \in Files : CreateFile(f) \/ WriteFile(f) \/ UpdateProfile(f)
                    \/ Pass
             PROVE  Elsewhere
  BY Zenon DEF Next
<1> QED
  BY DEF Elsewhere, Scan, ForEachRow, SwapUploads, RefuseRestore, CreateFile, WriteFile,
     UpdateProfile, Pass, dirVars

\* The shape of the state to begin with (Init).
LEMMA ShapeInit == Init => Shape
<1> SUFFICES ASSUME Init PROVE Shape
  OBVIOUS
<1>1. Len(Tables) \in Nat /\ 1 \in 1..MaxTime
  BY ArchivesAssumption
<1>2. \A d \in Dumps : dumps[d] = NotBegun
  BY DEF Init
<1>3. /\ NotBegun.pc = "idle" /\ NotBegun.kind = "asked" /\ NotBegun.name = <<"gosplit-backup", 1>>
      /\ NotBegun.snap = 0 /\ NotBegun.size = 0 /\ NotBegun.todo = {} /\ NotBegun.left = <<>>
      /\ NotBegun.doomed = {} /\ DOMAIN NotBegun = Fields
  BY DEF NotBegun, Fields
<1>4. <<"gosplit-backup", 1>> \in Names
  BY <1>1 DEF Names, ArchivePrefixes
<1> HIDE DEF NotBegun
<1>5. ASSUME NEW d \in Dumps PROVE DumpShape(d) /\ SizeOf(d)
  <2>1. NotBegun.left \in Seq(ArchivePrefixes) /\ NotBegun.doomed \subseteq Names /\ 0 \in Nat
    BY <1>3
  <2>2. dumps[d] = NotBegun
    BY <1>2
  <2>3. DumpShape(d)
    BY <1>3, <1>4, <2>1, <2>2 DEF DumpShape, IsWriting, Writing, Positions, Kinds
  <2> QED
    BY <1>3, <2>2, <2>3 DEF SizeOf
<1>6. Recorded
  BY <1>2, <1>3 DEF Recorded, Init
<1>7. live \in Seq(ToSet(live)) /\ live # <<>>
  <2>1. <<>> \in Seq(ToSet(<<>>)) /\ live = <<NoFile>>
    BY DEF Init
  <2>2. live = Append(<<>>, NoFile)
    BY <2>1
  <2>3. /\ Append(<<>>, NoFile) \in Seq(ToSet(Append(<<>>, NoFile)))
        /\ Append(<<>>, NoFile) # <<>>
    BY <2>1, OneMoreRow
  <2> QED
    BY <2>2, <2>3, Zenon
<1>8. /\ uploads \in [Files -> States] /\ inodes \in [Dumps -> Seq(Blocks)]
      /\ partials \in [Names -> Dumps \cup {0}] /\ finals \in [Names -> Dumps \cup {0}]
      /\ shared \subseteq Dumps
  BY DEF Init, States
<1>9. now \in 1..MaxTime
  BY <1>1 DEF Init
<1> QED
  BY <1>5, <1>6, <1>7, <1>8, <1>9 DEF Shape, DumpsShape, Sizes

\* ... and of every state: no step writes a value of another kind.
LEMMA ShapeKept == Shape /\ [Next]_vars => Shape'
<1>1. ASSUME Shape, Next PROVE Shape'
  BY <1>1, StepsAre, BeginKeepsShape, WriteKeepsShape, ListOrRenameKeepsShape, HaltKeepsShape,
     PruneKeepsShape, ElsewhereKeepsShape
<1>2. ASSUME Shape, UNCHANGED vars PROVE Shape'
  BY <1>2 DEF vars, instance, dirVars, Shape, DumpsShape, DumpShape, Recorded, Sizes, SizeOf, IsWriting
<1> QED
  BY <1>1, <1>2

\* The state always has the shape the model gives it.
THEOREM ArchivesShape == Spec => []Shape
  BY ShapeInit, ShapeKept, PTL DEF Spec

-------------------------------------------------------------------------------
(* The restore that reads.                                                 *)

\* It reads a name of the directory.
ReaderShape ==
    DOMAIN reader = {"pc", "name", "header", "staged", "rows"} /\ reader.name \in Names

\* There is a first second, so the reader has a name from the start.
LEMMA NoReaderNamed == NoReader.name \in Names
  BY ArchivesAssumption DEF NoReader, Names, ArchivePrefixes

\* Before it reads it has the name of the first second.
LEMMA ReaderInit == Init => ReaderShape
  BY NoReaderNamed DEF Init, ReaderShape, NoReader

\* What each step of the restore makes of its reader.
LEMMA ReaderMoves ==
    ASSUME ReaderShape, [Next]_vars
    PROVE  \/ UNCHANGED reader
           \/ Elsewhere /\ \E n \in Names : Scan(n)
           \/ /\ ForEachRow /\ Elsewhere
              /\ reader.pc = "scanned" /\ reader'.pc = "committed" /\ reader'.name \in Names
              /\ reader'.header = reader.header /\ reader'.staged = reader.staged
              /\ reader'.rows = {inodes[finals[reader.name]][i] :
                                    i \in TableBlocks(inodes[finals[reader.name]])}
              /\ DOMAIN reader' = DOMAIN reader
           \/ /\ SwapUploads /\ Elsewhere
              /\ reader.pc = "committed" /\ reader'.pc = "restored" /\ reader'.name = reader.name
              /\ reader'.header = reader.header /\ reader'.staged = reader.staged
              /\ reader'.rows = reader.rows /\ DOMAIN reader' = DOMAIN reader
           \/ RefuseRestore /\ reader' = NoReader
<1>1. CASE ForEachRow /\ Elsewhere
  <2> DEFINE read == {inodes[finals[reader.name]][i] :
                         i \in TableBlocks(inodes[finals[reader.name]])}
             next == [reader EXCEPT !.pc = "committed", !.name = NoReader.name, !.rows = read]
  <2>1. reader.pc = "scanned" /\ reader' = next
    BY <1>1, Zenon DEF ForEachRow
  <2> HIDE DEF read
  <2>2. /\ next.pc = "committed" /\ next.name = NoReader.name /\ next.rows = read
        /\ next.header = reader.header /\ next.staged = reader.staged
        /\ DOMAIN next = DOMAIN reader
    BY DEF ReaderShape
  <2> HIDE DEF next
  <2>3. /\ reader'.pc = "committed" /\ reader'.name \in Names /\ reader'.rows = read
        /\ reader'.header = reader.header /\ reader'.staged = reader.staged
        /\ DOMAIN reader' = DOMAIN reader
    BY <2>1, <2>2, NoReaderNamed
  <2> QED
    BY <1>1, <2>1, <2>3, Zenon DEF read
<1>2. CASE SwapUploads /\ Elsewhere
  <2> DEFINE next == [reader EXCEPT !.pc = "restored"]
  <2>1. reader.pc = "committed" /\ reader' = next
    BY <1>2 DEF SwapUploads
  <2>2. /\ next.pc = "restored" /\ next.name = reader.name /\ next.rows = reader.rows
        /\ next.header = reader.header /\ next.staged = reader.staged
        /\ DOMAIN next = DOMAIN reader
    BY DEF ReaderShape
  <2> HIDE DEF next
  <2> QED
    BY <1>2, <2>1, <2>2
<1>3. CASE Elsewhere
  <2>1. CASE \E f \in Files : CreateFile(f) \/ WriteFile(f) \/ UpdateProfile(f)
    BY <2>1 DEF CreateFile, WriteFile, UpdateProfile
  <2>2. CASE Pass
    BY <2>2 DEF Pass
  <2>3. CASE RefuseRestore
    BY <2>3 DEF RefuseRestore
  <2> QED
    BY <1>1, <1>2, <1>3, <2>1, <2>2, <2>3, Zenon DEF Elsewhere
<1>4. ASSUME NEW d \in Dumps,
             \/ \E kind \in Kinds : DumpToDir(d, kind)
             \/ Snapshot(d) \/ DumpTable(d) \/ ArchiveUpload(d) \/ WriteManifest(d)
             \/ ListUploads(d) \/ Rename(d)
             \/ Fail(d) \/ Stop(d)
             \/ ListArchives(d) \/ RemoveArchive(d)
      PROVE  UNCHANGED reader
  BY <1>4 DEF DumpToDir, Snapshot, DumpTable, ArchiveUpload, WriteManifest, ListUploads, Rename,
              Fail, Stop, ListArchives, RemoveArchive
<1>5. CASE SweepStalePartials
  BY <1>5 DEF SweepStalePartials
<1>6. CASE UNCHANGED vars
  BY <1>6 DEF vars
<1> QED
  BY <1>3, <1>4, <1>5, <1>6, StepsAre, Zenon

\* ... so it always reads a name of the directory.
LEMMA ReaderKept == ASSUME ReaderShape, [Next]_vars PROVE ReaderShape'
<1>1. CASE UNCHANGED reader
  BY <1>1 DEF ReaderShape
<1>2. ASSUME NEW n \in Names, Scan(n) PROVE ReaderShape'
  BY <1>2 DEF Scan, ReaderShape
<1>3. CASE reader' = NoReader
  BY <1>3, NoReaderNamed DEF ReaderShape, NoReader
<1>4. CASE reader'.name \in Names /\ DOMAIN reader' = DOMAIN reader
  BY <1>4 DEF ReaderShape
<1>5. CASE reader'.name = reader.name /\ DOMAIN reader' = DOMAIN reader
  BY <1>5 DEF ReaderShape
<1> QED
  BY <1>1, <1>2, <1>3, <1>4, <1>5, ReaderMoves, Zenon

-------------------------------------------------------------------------------
(* Pruning.                                                                *)

Newer(n) == {m \in Archives(n[1]) : m[2] > n[2]}

\* There are finitely many names, and every archive has one.
LEMMA ArchivesAreFinite ==
    /\ \A n \in Names : n[1] \in ArchivePrefixes /\ n[2] \in Nat
    /\ IsFiniteSet(Names)
    /\ \A prefix : Archives(prefix) \subseteq Names
<1>1. IsFiniteSet(1..MaxTime)
  BY FS_Interval, ArchivesAssumption
<1>2. IsFiniteSet(ArchivePrefixes)
  <2>1. ArchivePrefixes = {"gosplit-backup"} \cup {"gosplit-pre-restore"}
    BY DEF ArchivePrefixes
  <2> QED
    BY <2>1, FS_Singleton, FS_AddElement
<1>3. IsFiniteSet(Names)
  BY <1>1, <1>2, FS_Product DEF Names
<1>4. \A n \in Names : n[1] \in ArchivePrefixes /\ n[2] \in Nat
  BY ArchivesAssumption DEF Names
<1> QED
  BY <1>3, <1>4 DEF Archives

\* A set of names that has others within has as many.
LEMMA MoreNames ==
    ASSUME NEW A, NEW B \in SUBSET Names, A \subseteq B, Cardinality(A) >= Keep
    PROVE  Cardinality(B) >= Keep
<1>1. IsFiniteSet(B) /\ IsFiniteSet(A) /\ Cardinality(A) <= Cardinality(B)
  BY ArchivesAreFinite, FS_Subset
<1>2. Cardinality(A) \in Nat /\ Cardinality(B) \in Nat
  BY <1>1, FS_CardinalityType
<1> QED
  BY <1>1, <1>2, ArchivesAssumption

\* The sweep leaves as many as it should: of those it will remove, the newest
\* is older than "keep" others (Beyond).
LEMMA BeyondLeavesNewer ==
    ASSUME NEW prefix, NEW n \in Beyond(prefix)
    PROVE  Cardinality(Newer(n) \ Beyond(prefix)) >= Keep
<1> DEFINE C == {T \in SUBSET Newer(n) : \E x \in Beyond(prefix) : T = Newer(x)}
<1>1. /\ Beyond(prefix) \subseteq Archives(prefix) /\ Archives(prefix) \subseteq Names
      /\ \A x \in Beyond(prefix) : x[1] = prefix /\ x[2] \in Nat /\ Cardinality(Newer(x)) >= Keep
  BY ArchivesAreFinite DEF Beyond, Newer, Archives
<1>2. \A x \in Archives(prefix) : x[1] = prefix /\ x[2] \in Nat /\ Newer(x) \subseteq Archives(prefix)
  BY <1>1, ArchivesAreFinite DEF Newer, Archives
<1>3. IsFiniteSet(Newer(n))
  BY <1>1, <1>2, ArchivesAreFinite, FS_Subset
<1>4. Newer(n) \in C
  OBVIOUS
<1>5. C \subseteq SUBSET Newer(n) /\ C # {}
  BY <1>4
<1>6. PICK T \in C : \A U \in SUBSET T : U # T => U \notin C
  <2> HIDE DEF C
  <2> QED
    BY <1>3, <1>5, SmallestSet
<1>7. PICK x \in Beyond(prefix) : T = Newer(x)
  BY <1>6
<1>8. ASSUME NEW y \in Newer(x) \cap Beyond(prefix) PROVE FALSE
  <2>1. y[2] > x[2] /\ y[2] \in Nat /\ x[2] \in Nat /\ y[1] = x[1]
    <3>1. y \in Newer(x) /\ y \in Beyond(prefix)
      BY <1>8
    <3>2. y[2] > x[2]
      BY <3>1 DEF Newer
    <3> QED
      BY <1>1, <3>1, <3>2
  <2>2. Newer(y) \subseteq Newer(x)
    <3> SUFFICES ASSUME NEW z \in Newer(y) PROVE z \in Newer(x)
      OBVIOUS
    <3>1. z \in Archives(x[1]) /\ z[2] > y[2] /\ z[2] \in Nat
      BY <2>1, ArchivesAreFinite DEF Newer
    <3> QED
      BY <2>1, <3>1 DEF Newer
  <2>3. y \in Newer(x) /\ y \notin Newer(y)
    BY <1>8, <2>1 DEF Newer
  <2>4. Newer(y) \in C
    BY <1>6, <1>7, <1>8, <2>2
  <2> QED
    BY <1>6, <1>7, <2>2, <2>3, <2>4
<1>9. Newer(x) \subseteq Newer(n) \ Beyond(prefix)
  BY <1>6, <1>7, <1>8
<1>10. Newer(n) \ Beyond(prefix) \in SUBSET Names
  BY <1>1, <1>2
<1> QED
  BY <1>1, <1>9, <1>10, MoreNames

\* The lock of the scheduler: one of its dumps is at work (MayBegin).
Busy(d) == dumps[d].kind = "scheduled" /\ dumps[d].pc \notin {"idle", "done", "stopped"}

Alone == \A c, d \in Dumps : Busy(c) /\ Busy(d) => c = d

\* What is to be removed is older than "keep" archives that are not.
DoomedOf(d) ==
    /\ dumps[d].pc = "prune" => dumps[d].kind = "scheduled"
    /\ \A n \in dumps[d].doomed :
          dumps[d].pc = "prune" /\ Cardinality(Newer(n) \ dumps[d].doomed) >= Keep

KeptOf(d) ==
    dumps[d].pc \in {"prune", "done"} =>
        finals[dumps[d].name] # 0 \/ Cardinality(Newer(dumps[d].name)) >= Keep

Pruning == Alone /\ \A d \in Dumps : DoomedOf(d) /\ KeptOf(d)

\* What a finished dump misses has been pruned.
LEMMA PruningWritten == ASSUME Pruning PROVE WrittenIsKept
  BY DEF Pruning, KeptOf, WrittenIsKept, Newer

\* Archives that stay, or come, do no harm.
LEMMA MoreArchives ==
    ASSUME Shape, Shape', NEW d \in Dumps, dumps'[d] = dumps[d], DoomedOf(d), KeptOf(d),
           \A n \in Names : finals[n] # 0 => finals'[n] # 0
    PROVE  DoomedOf(d)' /\ KeptOf(d)'
<1>1. /\ \A n : Newer(n) \subseteq Newer(n)' /\ Newer(n)' \in SUBSET Names
  BY DEF Newer, Archives
<1>2. dumps[d].name \in Names /\ dumps[d].doomed \subseteq Names
  BY DEF Shape, DumpsShape, DumpShape
<1>3. \A n : /\ Newer(n) \ dumps[d].doomed \subseteq Newer(n)' \ dumps[d].doomed
            /\ Newer(n)' \ dumps[d].doomed \in SUBSET Names
  BY <1>1
<1>4. \A n : Cardinality(Newer(n)) >= Keep => Cardinality(Newer(n)') >= Keep
  BY <1>1, MoreNames
<1>5. \A n : Cardinality(Newer(n) \ dumps[d].doomed) >= Keep
                => Cardinality(Newer(n)' \ dumps[d].doomed) >= Keep
  BY <1>3, MoreNames
<1>6. DoomedOf(d)'
  BY <1>5 DEF DoomedOf
<1>7. KeptOf(d)'
  BY <1>2, <1>4 DEF KeptOf
<1> QED
  BY <1>6, <1>7

\* A step of one dump that removes no archive.
LEMMA NothingRemoved ==
    ASSUME Shape, Shape', Pruning, NEW d \in Dumps, NEW S, Only(d, S),
           Busy(d)' => Busy(d) \/ \A c \in Dumps \ {d} : ~ Busy(c),
           \A n \in Names : finals[n] # 0 => finals'[n] # 0,
           DoomedOf(d)', KeptOf(d)'
    PROVE  Pruning'
<1>1. ASSUME NEW c \in Dumps, c # d PROVE DoomedOf(c)' /\ KeptOf(c)' /\ Busy(c)' = Busy(c)
  <2>1. dumps'[c] = dumps[c] /\ DoomedOf(c) /\ KeptOf(c)
    BY <1>1 DEF Only, Pruning
  <2> QED
    BY <2>1, MoreArchives DEF Busy
<1>2. Alone'
  BY <1>1 DEF Alone, Pruning
<1> QED
  BY <1>1, <1>2 DEF Pruning

\* A dump that is not pruning has nothing to remove; one that writes has
\* nothing to keep yet.
LEMMA WritingPrunes ==
    ASSUME Shape, Shape', Pruning, NEW d \in Dumps, NEW S, Only(d, S), "doomed" \notin S,
           dumps[d].pc # "prune", dumps'[d].pc \in Writing,
           Busy(d)' => Busy(d) \/ \A c \in Dumps \ {d} : ~ Busy(c), finals' = finals
    PROVE  Pruning'
<1>1. dumps'[d].doomed = dumps[d].doomed
  BY DEF Only, Fields
<1>2. DoomedOf(d)
  BY DEF Pruning
<1>3. DoomedOf(d)' /\ KeptOf(d)'
  BY <1>1, <1>2 DEF DoomedOf, KeptOf, Writing
<1> QED
  BY <1>3, NothingRemoved

\* An archive is removed (RemoveArchive): whatever it counted for counts on
\* those that are newer.
LEMMA RemoveKeepsPruning ==
    ASSUME Shape, Shape', Pruning, NEW d \in Dumps, RemoveArchive(d) PROVE Pruning'
<1>1. Recorded
  BY DEF Shape, DumpsShape
<1>2. Only(d, {"doomed"}) /\ dumps[d].pc = "prune"
  BY <1>1, RemoveChanges
<1>3. PICK n \in dumps[d].doomed :
          finals' = [finals EXCEPT ![n] = 0] /\ dumps'[d].doomed = dumps[d].doomed \ {n}
  BY <1>1, RemoveChanges
<1>4. \A x \in Fields \ {"doomed"} : dumps'[d][x] = dumps[d][x]
  BY <1>2 DEF Only
<1>5. /\ dumps'[d].pc = "prune" /\ dumps'[d].kind = dumps[d].kind
      /\ dumps'[d].name = dumps[d].name
  BY <1>2, <1>4 DEF Fields
<1>6. DoomedOf(d) /\ n \in Names /\ dumps[d].doomed \subseteq Names
  BY <1>3 DEF Pruning, Shape, DumpsShape, DumpShape
<1>7. finals'[n] = 0 /\ \A m \in Names \ {n} : finals'[m] = finals[m]
  BY <1>3, <1>6 DEF Shape
<1>8. \A m : Newer(m)' = Newer(m) \ {n}
  <2>1. \A prefix : Archives(prefix)' = Archives(prefix) \ {n}
    BY <1>7 DEF Archives
  <2> QED
    BY <2>1 DEF Newer
<1>9. \A m : Newer(m) \in SUBSET Names /\ Newer(m)' \in SUBSET Names
  BY <1>8, ArchivesAreFinite DEF Newer
<1>10. DoomedOf(d)'
  <2>1. \A m : Newer(m)' \ dumps'[d].doomed = Newer(m) \ dumps[d].doomed
    BY <1>3, <1>8
  <2> QED
    BY <1>3, <1>5, <1>6, <2>1 DEF DoomedOf
<1>11. Cardinality(Newer(n)') >= Keep
  <2>1. n \notin Newer(n)
    BY <1>6, ArchivesAreFinite DEF Newer
  <2>2. Cardinality(Newer(n) \ dumps[d].doomed) >= Keep
    BY <1>3, <1>6 DEF DoomedOf
  <2>3. Newer(n) \ dumps[d].doomed \subseteq Newer(n)'
    BY <1>3, <1>8, <2>1
  <2> QED
    BY <1>9, <2>2, <2>3, MoreNames
<1>12. ASSUME NEW m \in Names, finals[m] # 0 \/ Cardinality(Newer(m)) >= Keep
       PROVE  finals'[m] # 0 \/ Cardinality(Newer(m)') >= Keep
  <2>1. CASE m = n
    BY <1>11, <2>1
  <2>2. CASE m # n /\ finals[m] # 0
    BY <1>7, <2>2
  <2>3. CASE Cardinality(Newer(m)) >= Keep /\ n \notin Newer(m)
    BY <1>8, <2>3
  <2>4. CASE n \in Newer(m)
    <3>1. n[1] = m[1] /\ n[2] > m[2] /\ n[2] \in Nat /\ m[2] \in Nat
      BY <1>6, <1>12, <2>4, ArchivesAreFinite DEF Newer, Archives
    <3>2. Newer(n) \subseteq Newer(m)
      <4> SUFFICES ASSUME NEW z \in Newer(n) PROVE z \in Newer(m)
        OBVIOUS
      <4>1. z \in Archives(m[1]) /\ z[2] > n[2] /\ z[2] \in Nat
        BY <3>1, ArchivesAreFinite DEF Newer
      <4> QED
        BY <3>1, <4>1 DEF Newer
    <3>3. Newer(n)' \subseteq Newer(m)'
      BY <1>8, <3>2
    <3> QED
      BY <1>9, <1>11, <3>3, MoreNames
  <2> QED
    BY <1>12, <2>1, <2>2, <2>3, <2>4
<1>13. ASSUME NEW c \in Dumps PROVE KeptOf(c)'
  <2>1. dumps'[c].pc = dumps[c].pc /\ dumps'[c].name = dumps[c].name /\ dumps[c].name \in Names
    BY <1>2, <1>5 DEF Only, Shape, DumpsShape, DumpShape
  <2>2. KeptOf(c)
    BY DEF Pruning
  <2> QED
    BY <1>12, <2>1, <2>2 DEF KeptOf
<1>14. ASSUME NEW c \in Dumps, c # d PROVE DoomedOf(c)' /\ Busy(c)' = Busy(c) /\ ~ Busy(c)
  <2>1. dumps'[c] = dumps[c] /\ DoomedOf(c)
    BY <1>2, <1>14 DEF Only, Pruning
  <2>2. Busy(d)
    BY <1>2, <1>6 DEF Busy, DoomedOf
  <2>3. ~ Busy(c)
    BY <1>14, <2>2 DEF Pruning, Alone
  <2>4. dumps[c].pc # "prune"
    BY <2>1, <2>3 DEF Busy, DoomedOf
  <2> QED
    BY <2>1, <2>3, <2>4 DEF DoomedOf, Busy
<1>15. Alone'
  BY <1>14 DEF Alone
<1> QED
  BY <1>10, <1>13, <1>14, <1>15 DEF Pruning

\* The invariant of pruning survives every step (Rename, ListArchives,
\* RemoveArchive, and Fail and Stop between them).
LEMMA PruningKept ==
    ASSUME Shape, Shape', Pruning, Next PROVE Pruning'
<1> USE DEF Writing
<1>1. Recorded
  BY DEF Shape, DumpsShape
<1>2. ASSUME NEW d \in Dumps, NEW kind \in Kinds, DumpToDir(d, kind) PROVE Pruning'
  <2>1. /\ Only(d, {"pc", "kind", "name", "file"}) /\ dumps[d].pc = "idle" /\ dumps'[d].pc = "opened"
        /\ dumps'[d].kind = kind
    BY <1>1, <1>2, BeginChanges
  <2>2. Busy(d)' => \A c \in Dumps \ {d} : ~ Busy(c)
    BY <1>2, <2>1 DEF Busy, DumpToDir, MayBegin
  <2>3. finals' = finals
    BY <1>2 DEF DumpToDir
  <2> QED
    BY <2>1, <2>2, <2>3, WritingPrunes
<1>3. ASSUME NEW d \in Dumps, NEW b, Writes(d, b) PROVE Pruning'
  <2>1. /\ Only(d, {"pc", "snap", "had", "size", "todo"}) /\ IsWriting(d) /\ IsWriting(d)'
        /\ finals' = finals
    BY <1>3 DEF Writes
  <2>2. dumps'[d].kind = dumps[d].kind
    BY <2>1 DEF Only, Fields
  <2>3. Busy(d)' => Busy(d)
    BY <2>1, <2>2 DEF Busy, IsWriting
  <2> QED
    BY <2>1, <2>3, WritingPrunes DEF IsWriting
<1>4. ASSUME NEW d \in Dumps,
             Snapshot(d) \/ DumpTable(d) \/ ArchiveUpload(d) \/ WriteManifest(d) \/ ListUploads(d)
      PROVE  Pruning'
  <2>1. CASE Snapshot(d) \/ DumpTable(d) \/ WriteManifest(d)
    BY <1>3, <2>1, SnapshotWrites, TableWrites, ManifestWrites
  <2>2. CASE ArchiveUpload(d) \/ ListUploads(d)
    <3>1. \/ \E b : Writes(d, b)
          \/ /\ Only(d, {"pc", "todo"}) /\ dumps[d].pc \in {"walk", "list"} /\ dumps'[d].pc = "walk"
             /\ finals' = finals
      <4>1. CASE ListUploads(d)
        BY <1>1, <4>1, ListChanges DEF ListUploads, dirVars
      <4>2. CASE ArchiveUpload(d)
        <5>1. /\ dumps[d].pc = "walk" /\ dumps'[d].pc = "walk" /\ finals' = finals
              /\ Only(d, {"todo"}) \/ \E b : Writes(d, b)
          BY <4>2, UploadWrites
        <5>2. Only(d, {"todo"}) => Only(d, {"pc", "todo"})
          BY DEF Only
        <5> QED
          BY <5>1, <5>2
      <4> QED
        BY <2>2, <4>1, <4>2
    <3>2. CASE /\ Only(d, {"pc", "todo"}) /\ dumps[d].pc \in {"walk", "list"}
               /\ dumps'[d].pc = "walk" /\ finals' = finals
      <4>1. dumps'[d].kind = dumps[d].kind
        BY <3>2 DEF Only, Fields
      <4>2. Busy(d)' => Busy(d)
        BY <3>2, <4>1 DEF Busy
      <4> QED
        BY <3>2, <4>2, WritingPrunes
    <3> QED
      BY <1>3, <3>1, <3>2
  <2> QED
    BY <1>4, <2>1, <2>2
<1>5. ASSUME NEW d \in Dumps, Rename(d) PROVE Pruning'
  <2>1. /\ Only(d, {"pc", "size", "file", "left"}) /\ dumps[d].pc = "rename"
        /\ dumps'[d].pc = IF dumps[d].kind = "scheduled" THEN "prune" ELSE "done"
    BY <1>1, <1>5, RenameChanges
  <2>2. /\ dumps'[d].kind = dumps[d].kind /\ dumps'[d].name = dumps[d].name
        /\ dumps'[d].doomed = dumps[d].doomed /\ dumps[d].name \in Names
    BY <2>1 DEF Only, Fields, Shape, DumpsShape, DumpShape
  <2>3. /\ finals' = [finals EXCEPT ![dumps[d].name] = partials[dumps[d].name]]
        /\ partials[dumps[d].name] # 0
    BY <1>5 DEF Rename
  <2>4. /\ \A n \in Names : finals[n] # 0 => finals'[n] # 0
        /\ finals'[dumps[d].name] # 0
    BY <2>2, <2>3 DEF Shape
  <2>5. DoomedOf(d)
    BY DEF Pruning
  <2>6. DoomedOf(d)' /\ KeptOf(d)'
    BY <2>1, <2>2, <2>4, <2>5 DEF DoomedOf, KeptOf
  <2>7. Busy(d)' => Busy(d)
    BY <2>1, <2>2 DEF Busy
  <2> QED
    BY <2>1, <2>4, <2>6, <2>7, NothingRemoved
<1>6. ASSUME NEW d \in Dumps, Fail(d) \/ Stop(d) PROVE Pruning'
  <2>1. dumps' = [dumps EXCEPT ![d] = Halted(d)] /\ finals' = finals
    BY <1>6 DEF Fail, Stop, dirVars
  <2>2. /\ Only(d, Fields \ {"name", "snap", "had"})
        /\ dumps'[d].pc = "stopped" /\ dumps'[d].doomed = {}
    BY <1>1, <2>1, HaltChanges
  <2>3. DoomedOf(d)' /\ KeptOf(d)' /\ ~ Busy(d)'
    BY <2>2 DEF DoomedOf, KeptOf, Busy
  <2> QED
    BY <2>1, <2>2, <2>3, NothingRemoved
<1>7. ASSUME NEW d \in Dumps, ListArchives(d) PROVE Pruning'
  <2>1. /\ Only(d, {"pc", "left", "doomed"}) /\ dumps[d].pc = "prune"
        /\ \/ dumps'[d].pc = "done" /\ dumps'[d].doomed = {}
           \/ dumps'[d].pc = "prune" /\ dumps'[d].doomed = Beyond(Head(dumps[d].left))
    BY <1>1, <1>7, ListArchivesChanges
  <2>2. finals' = finals
    BY <1>7 DEF ListArchives, dirVars
  <2>3. dumps'[d].kind = dumps[d].kind /\ dumps'[d].name = dumps[d].name
    BY <2>1 DEF Only, Fields
  <2>4. DoomedOf(d) /\ KeptOf(d)
    BY DEF Pruning
  <2>5. \A n : Newer(n)' = Newer(n)
    BY <2>2 DEF Newer, Archives
  <2>6. \A n \in dumps'[d].doomed : dumps'[d].pc = "prune"
                                      /\ Cardinality(Newer(n) \ dumps'[d].doomed) >= Keep
    BY <2>1, BeyondLeavesNewer
  <2>7. DoomedOf(d)'
    BY <2>1, <2>3, <2>4, <2>5, <2>6 DEF DoomedOf
  <2>8. KeptOf(d)'
    BY <2>1, <2>2, <2>3, <2>4, <2>5 DEF KeptOf
  <2>9. Busy(d)' => Busy(d)
    BY <2>1, <2>3 DEF Busy
  <2> QED
    BY <2>1, <2>2, <2>7, <2>8, <2>9, NothingRemoved
<1>8. CASE SweepStalePartials \/ Elsewhere
  <2>1. UNCHANGED <<finals, dumps>>
    BY <1>8 DEF SweepStalePartials, Elsewhere
  <2> QED
    BY <2>1 DEF Pruning, Alone, Busy, DoomedOf, KeptOf, Newer, Archives
<1> QED
  BY <1>2, <1>4, <1>5, <1>6, <1>7, <1>8, StepsAre, RemoveKeepsPruning

\* "keeps the newest `keep` archives matching prefix" (backup/prune.go:24),
\* for any number of dumps, whatever their kinds.
THEOREM NewestAreKept == Spec => []WrittenIsKept
<1>1. Init => Shape /\ Pruning
  <2> SUFFICES ASSUME Init PROVE Pruning
    BY ShapeInit
  <2>1. \A d \in Dumps : dumps[d] = NotBegun
    BY DEF Init
  <2>2. NotBegun.pc = "idle" /\ NotBegun.doomed = {}
    BY DEF NotBegun
  <2> QED
    BY <2>1, <2>2 DEF Pruning, Alone, Busy, DoomedOf, KeptOf
<1>2. Shape /\ Pruning /\ [Next]_vars => (Shape /\ Pruning)'
  <2>1. CASE Shape /\ Pruning /\ Next
    BY <2>1, ShapeKept, PruningKept
  <2>2. CASE Shape /\ Pruning /\ UNCHANGED vars
    <3>1. Pruning'
      BY <2>2 DEF vars, dirVars, Pruning, Alone, Busy, DoomedOf, KeptOf, Newer, Archives
    <3> QED
      BY <2>2, <3>1, ShapeKept
  <2> QED
    BY <2>1, <2>2
<1>3. Shape /\ Pruning => WrittenIsKept
  BY PruningWritten
<1> QED
  BY <1>1, <1>2, <1>3, PTL DEF Spec

-------------------------------------------------------------------------------
(* Where blocks lie.                                                       *)

\* Whoever has seen the database has begun to write, and knows what it saw.
Onward(c) ==
    dumps[c].pc \notin {"idle", "opened"} =>
        /\ dumps'[c].pc \notin {"idle", "opened"}
        /\ dumps'[c].snap = dumps[c].snap /\ dumps'[c].had = dumps[c].had
        /\ IsWriting(c)' => IsWriting(c) /\ dumps[c].size <= dumps'[c].size

\* A step of one dump.
LEMMA OthersStay ==
    ASSUME Shape, NEW d \in Dumps, NEW S, Only(d, S), Onward(d)
    PROVE  \A c \in Dumps : Onward(c)
<1> SUFFICES ASSUME NEW c \in Dumps, c # d PROVE Onward(c)
  OBVIOUS
<1>1. dumps'[c] = dumps[c] /\ dumps[c].size \in Nat
  BY DEF Only, Shape, DumpsShape, DumpShape
<1> QED
  BY <1>1 DEF Onward, IsWriting

\* ... that writes a block.
LEMMA WritesOnward ==
    ASSUME Shape, NEW d \in Dumps, NEW b, Writes(d, b) PROVE \A c \in Dumps : Onward(c)
<1>1. /\ IsWriting(d) /\ IsWriting(d)' /\ dumps'[d].pc # "opened"
      /\ dumps'[d].size = dumps[d].size + 1
      /\ dumps[d].pc # "opened" => dumps'[d].snap = dumps[d].snap /\ dumps'[d].had = dumps[d].had
      /\ Only(d, {"pc", "snap", "had", "size", "todo"})
  BY DEF Writes
<1>2. dumps[d].size \in Nat
  BY DEF Shape, DumpsShape, DumpShape
<1>3. Onward(d)
  BY <1>1, <1>2 DEF Onward, IsWriting, Writing
<1> QED
  BY <1>1, <1>3, OthersStay

\* No step makes a dump forget what it has seen, or write where it has been.
LEMMA DumpsGoOn ==
    ASSUME Shape, Shape', [Next]_vars PROVE \A c \in Dumps : Onward(c)
<1>1. Recorded /\ \A d \in Dumps : dumps[d].size \in Nat /\ dumps'[d].size \in Nat
  BY DEF Shape, DumpsShape, DumpShape
<1>2. ASSUME NEW d \in Dumps, NEW kind \in Kinds, DumpToDir(d, kind) PROVE \A c \in Dumps : Onward(c)
  <2>1. Only(d, {"pc", "kind", "name", "file"}) /\ dumps[d].pc = "idle"
    BY <1>1, <1>2, BeginChanges
  <2> QED
    BY <2>1, OthersStay DEF Onward
<1>3. ASSUME NEW d \in Dumps, Snapshot(d) \/ DumpTable(d) \/ WriteManifest(d)
      PROVE  \A c \in Dumps : Onward(c)
  BY <1>3, SnapshotWrites, TableWrites, ManifestWrites, WritesOnward
<1>4. ASSUME NEW d \in Dumps, ArchiveUpload(d) PROVE \A c \in Dumps : Onward(c)
  <2>1. /\ dumps[d].pc = "walk" /\ dumps'[d].pc = "walk"
        /\ Only(d, {"todo"}) \/ \E b : Writes(d, b)
    BY <1>4, UploadWrites
  <2>2. CASE Only(d, {"todo"})
    <3>1. /\ dumps'[d].snap = dumps[d].snap /\ dumps'[d].had = dumps[d].had
          /\ dumps'[d].size = dumps[d].size
      BY <2>2 DEF Only, Fields
    <3>2. Onward(d)
      BY <1>1, <2>1, <3>1 DEF Onward, IsWriting
    <3> QED
      BY <2>2, <3>2, OthersStay
  <2> QED
    BY <2>1, <2>2, WritesOnward
<1>5. ASSUME NEW d \in Dumps, ListUploads(d) PROVE \A c \in Dumps : Onward(c)
  <2>1. Only(d, {"pc", "todo"}) /\ dumps[d].pc = "list" /\ dumps'[d].pc = "walk"
    BY <1>1, <1>5, ListChanges
  <2>2. /\ dumps'[d].snap = dumps[d].snap /\ dumps'[d].had = dumps[d].had
        /\ dumps'[d].size = dumps[d].size
    BY <2>1 DEF Only, Fields
  <2>3. Onward(d)
    BY <1>1, <2>1, <2>2 DEF Onward, IsWriting, Writing
  <2> QED
    BY <2>1, <2>3, OthersStay
<1>6. ASSUME NEW d \in Dumps, Rename(d) \/ Fail(d) \/ Stop(d) \/ ListArchives(d) \/ RemoveArchive(d)
      PROVE  \A c \in Dumps : Onward(c)
  <2>1. \E S : /\ Only(d, S) /\ "snap" \notin S /\ "had" \notin S
               /\ dumps'[d].pc \in {"prune", "done", "stopped"}
    <3>1. CASE Rename(d)
      <4>1. /\ Only(d, {"pc", "size", "file", "left"})
            /\ dumps'[d].pc = IF dumps[d].kind = "scheduled" THEN "prune" ELSE "done"
        BY <1>1, <3>1, RenameChanges
      <4>2. "snap" \notin {"pc", "size", "file", "left"} /\ "had" \notin {"pc", "size", "file", "left"}
        OBVIOUS
      <4> QED
        BY <4>1, <4>2
    <3>2. CASE Fail(d) \/ Stop(d)
      <4>1. dumps' = [dumps EXCEPT ![d] = Halted(d)]
        BY <3>2 DEF Fail, Stop
      <4>2. Only(d, Fields \ {"name", "snap", "had"}) /\ dumps'[d].pc = "stopped"
        BY <1>1, <4>1, HaltChanges
      <4> QED
        BY <4>2
    <3>3. CASE ListArchives(d)
      <4>1. Only(d, {"pc", "left", "doomed"}) /\ dumps'[d].pc \in {"prune", "done"}
        BY <1>1, <3>3, ListArchivesChanges
      <4>2. "snap" \notin {"pc", "left", "doomed"} /\ "had" \notin {"pc", "left", "doomed"}
        OBVIOUS
      <4> QED
        BY <4>1, <4>2
    <3>4. CASE RemoveArchive(d)
      <4>1. Only(d, {"doomed"}) /\ dumps[d].pc = "prune"
        BY <1>1, <3>4, RemoveChanges
      <4>2. dumps'[d].pc = "prune" /\ "snap" \notin {"doomed"} /\ "had" \notin {"doomed"}
        BY <4>1 DEF Only, Fields
      <4> QED
        BY <4>1, <4>2
    <3> QED
      BY <1>6, <3>1, <3>2, <3>3, <3>4
  <2>2. PICK S : /\ Only(d, S) /\ "snap" \notin S /\ "had" \notin S
                 /\ dumps'[d].pc \in {"prune", "done", "stopped"}
    BY <2>1
  <2>3. dumps'[d].snap = dumps[d].snap /\ dumps'[d].had = dumps[d].had
    BY <2>2 DEF Only, Fields
  <2>4. Onward(d)
    BY <2>2, <2>3 DEF Onward, IsWriting, Writing
  <2> QED
    BY <2>2, <2>4, OthersStay
<1>7. ASSUME UNCHANGED dumps PROVE \A c \in Dumps : Onward(c)
  BY <1>1, <1>7 DEF Onward, IsWriting
<1>8. SweepStalePartials \/ Elsewhere \/ UNCHANGED vars => UNCHANGED dumps
  BY DEF SweepStalePartials, Elsewhere, vars
<1> QED
  BY <1>2, <1>3, <1>4, <1>5, <1>6, <1>7, <1>8, StepsAre

\* What is in the files after a step was there before, or is zeros, unless a
\* dump writes.
Untouched ==
    \A f \in Dumps : \A i \in 1..Len(inodes'[f]) :
        \/ inodes'[f][i] = Hole
        \/ i \in 1..Len(inodes[f]) /\ inodes'[f][i] = inodes[f][i]

\* A step leaves the files alone, truncates one, or is the write of a dump.
LEMMA FilesGoOn ==
    ASSUME Shape, Shape', [Next]_vars
    PROVE  Untouched \/ \E d \in Dumps : \/ Snapshot(d) \/ DumpTable(d) \/ WriteManifest(d)
                                         \/ ArchiveUpload(d) /\ inodes' # inodes
<1>1. ASSUME inodes' = inodes PROVE Untouched
  BY <1>1 DEF Untouched
<1>2. ASSUME NEW d \in Dumps, NEW kind \in Kinds, DumpToDir(d, kind) PROVE Untouched
  <2>1. PICK file : inodes' = [inodes EXCEPT ![file] = <<>>]
    BY <1>2 DEF DumpToDir
  <2>2. \A f \in Dumps : inodes'[f] = inodes[f] \/ inodes'[f] = <<>>
    BY <2>1 DEF Shape
  <2>3. Len(<<>>) = 0
    OBVIOUS
  <2> QED
    BY <2>2, <2>3 DEF Untouched
<1>3. ASSUME NEW d \in Dumps,
             \/ ListUploads(d) \/ Rename(d) \/ Fail(d) \/ Stop(d) \/ ListArchives(d) \/ RemoveArchive(d)
      PROVE  inodes' = inodes
  BY <1>3 DEF ListUploads, Rename, Fail, Stop, ListArchives, RemoveArchive, dirVars
<1>4. SweepStalePartials \/ Elsewhere \/ UNCHANGED vars => inodes' = inodes
  BY DEF SweepStalePartials, Elsewhere, vars, dirVars
<1> QED
  BY <1>1, <1>2, <1>3, <1>4, StepsAre

\* Rows stay where they are; new ones come after them.
LiveGrows == \A i \in DOMAIN live : i \in DOMAIN live' /\ live'[i] = live[i]

\* Commits add rows and change none (UpdateProfile, ForEachRow).
LEMMA RowsStay == ASSUME Shape, [Next]_vars PROVE LiveGrows
<1>1. live' = live \/ \E x : live' = Append(live, x)
  <2>1. ASSUME NEW d \in Dumps,
               \/ \E kind \in Kinds : DumpToDir(d, kind)
               \/ Snapshot(d) \/ DumpTable(d) \/ ArchiveUpload(d) \/ WriteManifest(d)
               \/ ListUploads(d) \/ Rename(d)
               \/ Fail(d) \/ Stop(d)
               \/ ListArchives(d) \/ RemoveArchive(d)
        PROVE  live' = live
    BY <2>1 DEF DumpToDir, Snapshot, DumpTable, ArchiveUpload, WriteManifest, ListUploads, Rename,
                Fail, Stop, ListArchives, RemoveArchive, instance
  <2>2. SweepStalePartials \/ UNCHANGED vars => live' = live
    BY DEF SweepStalePartials, vars, instance
  <2>3. Elsewhere => live' = live \/ \E x : live' = Append(live, x)
    BY DEF Elsewhere, Scan, ForEachRow, SwapUploads, RefuseRestore, CreateFile, WriteFile, UpdateProfile,
           Pass, instance
  <2> QED
    BY <2>1, <2>2, <2>3, StepsAre
<1>2. live \in Seq(ToSet(live))
  BY DEF Shape
<1>3. ASSUME NEW x, live' = Append(live, x) PROVE LiveGrows
  <2>1. \A i \in DOMAIN live : i \in DOMAIN Append(live, x) /\ Append(live, x)[i] = live[i]
    BY <1>2, OneMoreRow
  <2> QED
    BY <1>3, <2>1 DEF LiveGrows
<1> QED
  BY <1>1, <1>3 DEF LiveGrows

\* The place of a block: the header, the tables in their order as the dump saw
\* them, uploads, and the end, which says how many.
InPlace(b, i) ==
    \/ i = 1 /\ b = Header(b.dump)
    \/ i - 1 \in DOMAIN Tables /\ b.what = Tables[i - 1] /\ b.at = dumps[b.dump].snap
    \/ i > Len(Tables) + 1 /\ b.what \in Files
    \/ i > Len(Tables) + 1 /\ b.what = "final" /\ b.at = i - 2 - Len(Tables)

\* The dump of a block has seen the database, and writes after it.
BlockStands(b, i) ==
    b # Hole =>
        /\ b.dump \in Dumps /\ dumps[b.dump].pc \notin {"idle", "opened"}
        /\ dumps[b.dump].snap \in DOMAIN live
        /\ IsWriting(b.dump) => i <= dumps[b.dump].size
        /\ InPlace(b, i)

HasSeen == {"tables", "list", "walk", "rename"}

SnapsAreRows == \A d \in Dumps : dumps[d].pc \in HasSeen => dumps[d].snap \in DOMAIN live

BlocksStand == \A f \in Dumps : \A i \in 1..Len(inodes[f]) : BlockStands(inodes[f][i], i)

Places == SnapsAreRows /\ BlocksStand

\* A block that stands does so after every step.
LEMMA BlockStays ==
    ASSUME Shape, Shape', [Next]_vars, NEW b \in Blocks, NEW i \in Nat, BlockStands(b, i)
    PROVE  BlockStands(b, i)'
<1>1. CASE b = Hole
  BY <1>1 DEF BlockStands
<1>2. CASE b # Hole
  <2>1. b.dump \in Dumps /\ Onward(b.dump) /\ BlockStands(b, i)
    BY <1>2, DumpsGoOn DEF BlockStands
  <2>2. dumps[b.dump].size \in Nat /\ dumps'[b.dump].size \in Nat
    BY <2>1 DEF Shape, DumpsShape, DumpShape
  <2> QED
    BY <1>2, <2>1, <2>2, RowsStay DEF BlockStands, Onward, InPlace, LiveGrows
<1> QED
  BY <1>1, <1>2

\* What the files hold after a write.
LEMMA WriteLeaves ==
    ASSUME Shape, NEW d \in Dumps, NEW b, Writes(d, b)
    PROVE  /\ dumps[d].size + 1 <= Len(inodes'[dumps[d].file])
           /\ inodes'[dumps[d].file][dumps[d].size + 1] = b
           /\ \A f \in Dumps : \A i \in 1..Len(inodes'[f]) :
                 \/ i = dumps[d].size + 1 /\ f = dumps[d].file /\ inodes'[f][i] = b
                 \/ inodes'[f][i] = Hole
                 \/ i \in 1..Len(inodes[f]) /\ inodes'[f][i] = inodes[f][i]
<1> DEFINE k == dumps[d].size + 1
           file == dumps[d].file
<1>1. b \in Blocks /\ Put(d, b) /\ IsWriting(d)
  BY DEF Writes
<1>2. /\ file \in Dumps /\ k \in Nat \ {0} /\ inodes' \in [Dumps -> Seq(Blocks)]
      /\ \A g \in Dumps \ {file} : inodes'[g] = inodes[g]
      /\ Written(inodes'[file], inodes[file], k, b)
  BY <1>1, PutChanges
<1> HIDE DEF k, file
<1>3. \A f \in Dumps : Len(inodes[f]) \in Nat
  BY DEF Shape
<1>4. k <= Len(inodes'[file]) /\ inodes'[file][k] = b
  BY <1>2, <1>3 DEF Written
<1>5. ASSUME NEW f \in Dumps, NEW i \in 1..Len(inodes'[f])
      PROVE  \/ i = k /\ f = file /\ inodes'[f][i] = b
             \/ inodes'[f][i] = Hole
             \/ i \in 1..Len(inodes[f]) /\ inodes'[f][i] = inodes[f][i]
  <2>1. CASE f # file
    BY <1>2, <2>1
  <2>2. CASE f = file
    <3>1. \/ i = k /\ inodes'[f][k] = b
          \/ i <= Len(inodes[f]) /\ inodes'[f][i] = inodes[f][i]
          \/ inodes'[f][i] = Hole
      BY <1>2, <2>2 DEF Written
    <3>2. i <= Len(inodes[f]) => i \in 1..Len(inodes[f])
      BY <1>3
    <3> QED
      BY <2>2, <3>1, <3>2, Zenon
  <2> QED
    BY <2>1, <2>2
<1> QED
  BY <1>4, <1>5 DEF k, file

\* The blocks that were there stand.
LEMMA OldBlocksStand ==
    ASSUME Shape, Shape', [Next]_vars, Places,
           NEW f \in Dumps, NEW i \in 1..Len(inodes[f]), inodes'[f][i] = inodes[f][i]
    PROVE  BlockStands(inodes[f][i], i)'
<1>1. inodes[f][i] \in Blocks /\ i \in Nat /\ BlockStands(inodes[f][i], i)
  BY DEF Shape, Places, BlocksStand
<1>2. \A x \in Blocks : BlockStands(x, i) => BlockStands(x, i)'
  BY <1>1, BlockStays
<1>3. PICK x \in Blocks : x = inodes[f][i]
  BY <1>1
<1> QED
  BY <1>1, <1>2, <1>3

\* A dump writes a block that stands.
LEMMA WriteStands ==
    ASSUME Shape, Shape', [Next]_vars, Places, NEW d \in Dumps, NEW b, Writes(d, b), b # Hole,
           NEW k, k = dumps[d].size + 1, InPlace(b, k)', dumps'[d].snap \in DOMAIN live'
    PROVE  Places'
<1>1. /\ b.dump = d /\ IsWriting(d)' /\ dumps'[d].pc # "opened" /\ dumps'[d].size = k
      /\ Only(d, {"pc", "snap", "had", "size", "todo"})
  BY DEF Writes
<1>2. BlockStands(b, k)'
  <2>1. dumps'[d].pc \notin {"idle", "opened"} /\ k <= dumps'[d].size
    BY <1>1 DEF IsWriting, Writing, Shape, DumpsShape, DumpShape
  <2> QED
    BY <1>1, <2>1 DEF BlockStands
<1>3. \A i : BlockStands(Hole, i)'
  BY DEF BlockStands
<1>4. BlocksStand'
  <2> SUFFICES ASSUME NEW f \in Dumps, NEW i \in 1..Len(inodes'[f])
               PROVE  BlockStands(inodes[f][i], i)'
    BY DEF BlocksStand
  <2>1. CASE i \in 1..Len(inodes[f]) /\ inodes'[f][i] = inodes[f][i]
    BY <2>1, OldBlocksStand
  <2>2. CASE inodes'[f][i] = Hole
    BY <1>3, <2>2 DEF BlockStands, Hole, Block
  <2>3. CASE i = k /\ inodes'[f][i] = b
    BY <1>2, <2>3 DEF BlockStands
  <2> QED
    BY <2>1, <2>2, <2>3, WriteLeaves
<1>5. SnapsAreRows'
  <2>1. ASSUME NEW c \in Dumps, c # d, dumps'[c].pc \in HasSeen PROVE dumps'[c].snap \in DOMAIN live'
    BY <1>1, <2>1, RowsStay DEF Only, Places, SnapsAreRows, LiveGrows
  <2> QED
    BY <2>1 DEF SnapsAreRows
<1> QED
  BY <1>4, <1>5 DEF Places

\* What is known of a dump changes with its own steps only.
LEMMA OwnStep ==
    ASSUME Shape, [Next]_vars, NEW c \in Dumps, dumps'[c] # dumps[c]
    PROVE  \/ \E kind \in Kinds : DumpToDir(c, kind)
           \/ Snapshot(c) \/ DumpTable(c) \/ ArchiveUpload(c) \/ WriteManifest(c)
           \/ ListUploads(c) \/ Rename(c)
           \/ Fail(c) \/ Stop(c)
           \/ ListArchives(c) \/ RemoveArchive(c)
<1>1. ASSUME NEW d \in Dumps, NEW S, Only(d, S) PROVE d = c
  BY <1>1 DEF Only
<1>2. Recorded
  BY DEF Shape, DumpsShape
<1>3. ASSUME NEW d \in Dumps, NEW kind \in Kinds, DumpToDir(d, kind) PROVE d = c
  BY <1>1, <1>2, <1>3, BeginChanges
<1>4. ASSUME NEW d \in Dumps,
             \/ Snapshot(d) \/ DumpTable(d) \/ ArchiveUpload(d) \/ WriteManifest(d)
             \/ ListUploads(d) \/ Rename(d)
      PROVE  d = c
  BY <1>1, <1>2, <1>4, SnapshotChanges, TableChanges, UploadChanges, ManifestChanges, ListChanges,
     RenameChanges
<1>5. ASSUME NEW d \in Dumps, Fail(d) \/ Stop(d) PROVE d = c
  BY <1>1, <1>2, <1>5, HaltChanges DEF Fail, Stop
<1>6. ASSUME NEW d \in Dumps, ListArchives(d) \/ RemoveArchive(d) PROVE d = c
  BY <1>1, <1>2, <1>6, ListArchivesChanges, RemoveChanges
<1>7. ~ (SweepStalePartials \/ Elsewhere \/ UNCHANGED vars)
  BY DEF SweepStalePartials, Elsewhere, vars
<1> QED
  BY <1>3, <1>4, <1>5, <1>6, <1>7, StepsAre

\* A dump sees the database once (Snapshot).
LEMMA SeenComes ==
    ASSUME Shape, Shape', [Next]_vars, NEW c \in Dumps, dumps'[c].pc \in HasSeen, ~ Snapshot(c)
    PROVE  dumps[c].pc \in HasSeen /\ dumps'[c].snap = dumps[c].snap /\ dumps'[c].had = dumps[c].had
<1>1. Onward(c) /\ IsWriting(c)' /\ dumps[c].pc \in Positions /\ Recorded
  BY DumpsGoOn DEF HasSeen, IsWriting, Writing, Shape, DumpsShape, DumpShape
<1>2. CASE dumps[c].pc \notin {"idle", "opened"}
  BY <1>1, <1>2 DEF Onward, HasSeen, IsWriting, Writing
<1>3. CASE dumps[c].pc \in {"idle", "opened"}
  <2>1. dumps'[c] # dumps[c]
    BY <1>3 DEF HasSeen
  <2>2. (\E kind \in Kinds : DumpToDir(c, kind)) \/ Fail(c) \/ Stop(c)
    BY <1>3, <2>1, OwnStep DEF DumpTable, ArchiveUpload, WriteManifest, ListUploads, Rename, ListArchives,
       RemoveArchive
  <2>3. dumps'[c].pc \in {"opened", "stopped"}
    BY <1>1, <2>2, BeginChanges, HaltChanges DEF Fail, Stop
  <2> QED
    BY <2>3 DEF HasSeen
<1> QED
  BY <1>2, <1>3

\* Nor does a dump begin to walk the uploads but with their list.
LEMMA WalkGoesOn ==
    ASSUME Shape, [Next]_vars, NEW c \in Dumps, dumps'[c].pc = "walk"
    PROVE  ListUploads(c) \/ (dumps[c].pc = "walk" /\ (dumps'[c] = dumps[c] \/ ArchiveUpload(c)))
<1>1. Recorded
  BY DEF Shape, DumpsShape
<1>2. ASSUME NEW kind \in Kinds, DumpToDir(c, kind) PROVE FALSE
  BY <1>1, <1>2, BeginChanges
<1>3. ~ (Snapshot(c) \/ DumpTable(c) \/ WriteManifest(c) \/ Rename(c))
  BY <1>1, SnapshotChanges, TableChanges, ManifestChanges, RenameChanges
<1>4. ~ (Fail(c) \/ Stop(c))
  BY <1>1, HaltChanges DEF Fail, Stop
<1>5. ~ ListArchives(c)
  BY <1>1, ListArchivesChanges
<1>6. ~ RemoveArchive(c)
  BY <1>1, RemoveChanges DEF Only, Fields
<1>7. ArchiveUpload(c) => dumps[c].pc = "walk"
  BY DEF ArchiveUpload
<1> QED
  BY <1>2, <1>3, <1>4, <1>5, <1>6, <1>7, OwnStep

\* Blocks stand in every step.
LEMMA PlacesKept == ASSUME Shape, Shape', [Next]_vars, Places PROVE Places'
<1> DEFINE n == Len(Tables)
<1>1. n \in Nat \ {0} /\ DOMAIN Tables = 1..n /\ DOMAIN live = 1..Len(live) /\ Len(live) \in DOMAIN live
      /\ \A d \in Dumps : SizeOf(d) /\ dumps[d].size \in Nat
  BY ArchivesAssumption DEF Shape, DumpsShape, DumpShape, Sizes
<1> HIDE DEF n
<1>2. ASSUME NEW d \in Dumps, Snapshot(d) PROVE Places'
  <2>1. Writes(d, Header(d)) /\ dumps[d].pc = "opened"
    BY <1>2, SnapshotWrites DEF Snapshot
  <2>2. dumps'[d].snap = Len(live) /\ dumps[d].size + 1 = 1
    BY <1>1, <2>1 DEF Writes, SizeOf
  <2>3. dumps'[d].snap \in DOMAIN live'
    BY <1>1, <2>2, RowsStay DEF LiveGrows
  <2>4. Header(d) # Hole /\ InPlace(Header(d), 1)'
    BY DEF Header, Hole, Block, InPlace
  <2> QED
    BY <2>1, <2>2, <2>3, <2>4, WriteStands
<1>3. ASSUME NEW d \in Dumps, DumpTable(d) PROVE Places'
  <2>0. PICK k, b : k = dumps[d].size + 1 /\ b = Block(d, Tables[dumps[d].size], dumps[d].snap)
    OBVIOUS
  <2>1. Writes(d, b) /\ dumps[d].pc = "tables" /\ dumps[d].size \in DOMAIN Tables
    BY <1>3, <2>0, TableWrites
  <2>2. b.dump = d /\ b.what = Tables[dumps[d].size] /\ b.at = dumps[d].snap /\ b # Hole
    BY <2>0, <2>1, ArchivesAssumption DEF Block, Hole, ToSet
  <2>3. dumps'[d].snap = dumps[d].snap
    BY <2>1 DEF Writes
  <2>4. dumps'[d].snap \in DOMAIN live'
    BY <2>1, <2>3, RowsStay DEF Places, SnapsAreRows, LiveGrows, HasSeen
  <2>5. k - 1 = dumps[d].size
    BY <1>1, <2>0
  <2>6. InPlace(b, k)'
    BY <2>1, <2>2, <2>3, <2>5 DEF InPlace
  <2> QED
    BY <2>0, <2>1, <2>2, <2>4, <2>6, WriteStands
<1>4. ASSUME NEW d \in Dumps, NEW b, Writes(d, b), dumps[d].pc = "walk",
             b.what \in Files \/ (b.what = "final" /\ b.at = dumps[d].size - 1 - n)
      PROVE  Places'
  <2>0. PICK k : k = dumps[d].size + 1
    OBVIOUS
  <2>1. dumps[d].size >= n + 1
    BY <1>1, <1>4 DEF SizeOf, n
  <2>2. b # Hole
    BY <1>4, ArchivesAssumption DEF Block, Hole
  <2>3. dumps'[d].snap = dumps[d].snap
    BY <1>4 DEF Writes
  <2>4. dumps'[d].snap \in DOMAIN live'
    BY <1>4, <2>3, RowsStay DEF Places, SnapsAreRows, LiveGrows, HasSeen
  <2>5. k > n + 1 /\ dumps[d].size - 1 - n = k - 2 - n
    BY <1>1, <2>0, <2>1
  <2>6. InPlace(b, k)'
    BY <1>4, <2>5 DEF InPlace, n
  <2> QED
    BY <1>4, <2>0, <2>2, <2>4, <2>6, WriteStands
<1>5. ASSUME NEW d \in Dumps, WriteManifest(d) PROVE Places'
  <2>1. Writes(d, Block(d, "final", dumps[d].size - 1 - n)) /\ dumps[d].pc = "walk"
    BY <1>5, ManifestWrites DEF n
  <2> QED
    BY <1>4, <2>1 DEF Block
<1>6. ASSUME NEW d \in Dumps, ArchiveUpload(d), inodes' # inodes PROVE Places'
  <2>1. PICK f \in Files : Writes(d, Block(d, f, uploads[f]))
    BY <1>6, UploadWrites
  <2>2. dumps[d].pc = "walk" /\ Block(d, f, uploads[f]).what \in Files
    BY <1>6, UploadWrites DEF Block
  <2> QED
    BY <1>4, <2>1, <2>2
<1>7. CASE Untouched
  <2>1. BlocksStand'
    <3> SUFFICES ASSUME NEW f \in Dumps, NEW i \in 1..Len(inodes'[f])
                 PROVE  BlockStands(inodes[f][i], i)'
      BY DEF BlocksStand
    <3>1. CASE i \in 1..Len(inodes[f]) /\ inodes'[f][i] = inodes[f][i]
      BY <3>1, OldBlocksStand
    <3>2. CASE inodes'[f][i] = Hole
      BY <3>2 DEF BlockStands, Hole, Block
    <3> QED
      BY <1>7, <3>1, <3>2 DEF Untouched
  <2>2. CASE \E d \in Dumps : Snapshot(d)
    BY <1>2, <2>2
  <2>3. CASE ~ \E d \in Dumps : Snapshot(d)
    <3>1. ASSUME NEW c \in Dumps, dumps'[c].pc \in HasSeen PROVE dumps'[c].snap \in DOMAIN live'
      <4>1. dumps[c].pc \in HasSeen /\ dumps'[c].snap = dumps[c].snap
        BY <2>3, <3>1, SeenComes
      <4> QED
        BY <4>1, RowsStay DEF Places, SnapsAreRows, LiveGrows
    <3> QED
      BY <2>1, <3>1 DEF Places, SnapsAreRows
  <2> QED
    BY <2>2, <2>3
<1> QED
  BY <1>2, <1>3, <1>5, <1>6, <1>7, FilesGoOn

\* Files are numbered from 1.
LEMMA FilesAreLists ==
    ASSUME Shape, NEW f \in Dumps
    PROVE  DOMAIN inodes[f] = 1..Len(inodes[f]) /\ Len(inodes[f]) \in Nat
<1>1. inodes[f] \in Seq(Blocks)
  BY DEF Shape
<1> QED
  BY <1>1

\* What is read as a table was written as that table, by the dump whose block
\* it is.
LEMMA TablesAreRead ==
    ASSUME Shape, Places, NEW f \in Dumps, NEW t \in ToSet(Tables),
           \E i \in DOMAIN inodes[f] : inodes[f][i].what = t
    PROVE  \E d \in Dumps :
              /\ TableRead(inodes[f], t) = dumps[d].snap /\ dumps[d].snap \in DOMAIN live
              /\ \E i \in DOMAIN inodes[f] : inodes[f][i].dump = d
<1> DEFINE j == CHOOSE i \in DOMAIN inodes[f] : inodes[f][i].what = t
           b == inodes[f][j]
<1>1. j \in DOMAIN inodes[f] /\ b.what = t /\ TableRead(inodes[f], t) = b.at
  BY DEF TableRead
<1> HIDE DEF j
<1>2. BlockStands(b, j)
  BY <1>1, FilesAreLists DEF Places, BlocksStand
<1>3. t \notin Files \cup {"header", "hole", "final"}
  BY ArchivesAssumption
<1>4. b # Hole /\ b # Header(b.dump)
  BY <1>1, <1>3 DEF Hole, Header, Block
<1>5. b.dump \in Dumps /\ dumps[b.dump].snap \in DOMAIN live /\ InPlace(b, j)
  BY <1>2, <1>4 DEF BlockStands
<1>6. b.at = dumps[b.dump].snap
  BY <1>1, <1>3, <1>4, <1>5 DEF InPlace
<1> QED
  BY <1>1, <1>5, <1>6

-------------------------------------------------------------------------------
(* Rows and the uploads they name.                                         *)

\* The file a row names has been written (UpdateProfile).
RowsNameFiles ==
    \A i \in DOMAIN live :
        live[i] # NoFile => live[i] \in Files /\ uploads[live[i]] \in {"whole", "gone"}

\* A file that is whole, or gone, stays one of both; a whole one goes with an
\* exchange of the uploads only.
UploadsGoOn ==
    \A f \in Files :
        /\ uploads[f] \in {"whole", "gone"} => uploads'[f] \in {"whole", "gone"}
        /\ uploads[f] = "whole" => uploads'[f] = "whole" \/ SwapUploads

\* Dumps change neither the database nor the uploads.
LEMMA StepsElsewhere ==
    ASSUME [Next]_vars
    PROVE  Elsewhere \/ UNCHANGED <<live, uploads, torn>>
<1>1. ASSUME NEW d \in Dumps,
             \/ \E kind \in Kinds : DumpToDir(d, kind)
             \/ Snapshot(d) \/ DumpTable(d) \/ ArchiveUpload(d) \/ WriteManifest(d)
             \/ ListUploads(d) \/ Rename(d)
             \/ Fail(d) \/ Stop(d)
             \/ ListArchives(d) \/ RemoveArchive(d)
      PROVE  UNCHANGED <<live, uploads, torn>>
  BY <1>1 DEF DumpToDir, Snapshot, DumpTable, ArchiveUpload, WriteManifest, ListUploads, Rename,
              Fail, Stop, ListArchives, RemoveArchive, instance
<1>2. SweepStalePartials \/ UNCHANGED vars => UNCHANGED <<live, uploads, torn>>
  BY DEF SweepStalePartials, vars, instance
<1> QED
  BY <1>1, <1>2, StepsAre

\* Only the exchange of a restore takes a whole upload away (SwapUploads).
LEMMA UploadsChange == ASSUME Shape, [Next]_vars PROVE UploadsGoOn
<1>1. CASE UNCHANGED uploads
  BY <1>1 DEF UploadsGoOn
<1>2. ASSUME NEW f \in Files, CreateFile(f) PROVE UploadsGoOn
  BY <1>2 DEF CreateFile, UploadsGoOn, Shape
<1>3. ASSUME NEW f \in Files, WriteFile(f) PROVE UploadsGoOn
  BY <1>3 DEF WriteFile, UploadsGoOn, Shape
<1>4. CASE SwapUploads
  BY <1>4 DEF UploadsGoOn, SwapUploads
<1>5. Elsewhere => \/ UNCHANGED uploads
                   \/ SwapUploads
                   \/ \E f \in Files : CreateFile(f) \/ WriteFile(f)
  BY DEF Elsewhere, Scan, ForEachRow, RefuseRestore, UpdateProfile, Pass, instance
<1> QED
  BY <1>1, <1>2, <1>3, <1>4, <1>5, StepsElsewhere

\* A row is saved after its file is written, and a restored row was one before
\* (UpdateProfile, ForEachRow).
LEMMA RowsKept ==
    ASSUME Shape, Shape', Places, ReaderShape, RowsNameFiles, [Next]_vars
    PROVE  RowsNameFiles'
<1>1. ASSUME NEW x \in Files \cup {NoFile}, x \in Files => uploads[x] \in {"whole", "gone"},
             live' = Append(live, x)
      PROVE  RowsNameFiles'
  <2>1. live \in Seq(ToSet(live))
    BY DEF Shape
  <2>2. /\ DOMAIN live' = 1..(Len(live) + 1) /\ live'[Len(live) + 1] = x
        /\ \A i \in DOMAIN live : live'[i] = live[i]
    BY <1>1, <2>1, OneMoreRow
  <2>3. ASSUME NEW i \in DOMAIN live' PROVE i \in DOMAIN live \/ i = Len(live) + 1
    BY <2>1, <2>2
  <2> QED
    BY <1>1, <2>2, <2>3, UploadsChange DEF RowsNameFiles, UploadsGoOn
<1>2. CASE UNCHANGED live
  BY <1>2, UploadsChange DEF RowsNameFiles, UploadsGoOn
<1>3. ASSUME ForEachRow PROVE RowsNameFiles'
  <2> DEFINE f == finals[reader.name]
             file == inodes[f]
             at == TableRead(file, Tables[1])
  <2>1. live' = Append(live, live[at]) /\ f # 0 /\ HasEveryTable(file)
    BY <1>3, Zenon DEF ForEachRow, StillReads
  <2>2. f \in Dumps
    BY <2>1 DEF Shape, ReaderShape
  <2>3. Tables[1] \in ToSet(Tables)
    BY ArchivesAssumption DEF ToSet
  <2>4. \E i \in DOMAIN file : file[i].what = Tables[1]
    BY <2>1, <2>3 DEF HasEveryTable
  <2>5. at \in DOMAIN live
    <3> HIDE DEF f
    <3> QED
      BY <2>2, <2>3, <2>4, TablesAreRead
  <2> HIDE DEF at
  <2>6. live[at] # NoFile => live[at] \in Files /\ uploads[live[at]] \in {"whole", "gone"}
    BY <2>5 DEF RowsNameFiles
  <2>7. live[at] \in Files \cup {NoFile} /\ (live[at] \in Files => live[at] # NoFile)
    BY <2>6, ArchivesAssumption
  <2> QED
    BY <1>1, <2>1, <2>6, <2>7
<1>4. ASSUME NEW f \in Files, UpdateProfile(f) PROVE RowsNameFiles'
  BY <1>1, <1>4 DEF UpdateProfile, MayName
<1>5. Elsewhere => UNCHANGED live \/ ForEachRow \/ \E f \in Files : UpdateProfile(f)
  BY DEF Elsewhere, Scan, SwapUploads, RefuseRestore, CreateFile, WriteFile, Pass, instance
<1> QED
  BY <1>2, <1>3, <1>4, <1>5, StepsElsewhere

\* Where a block of a file comes from.
Origin(f, i) ==
    \/ inodes'[f][i] = Hole
    \/ i \in 1..Len(inodes[f]) /\ inodes'[f][i] = inodes[f][i]
    \/ \E c \in Dumps :
          /\ i = dumps[c].size + 1 /\ IsWriting(c)
          /\ \/ Snapshot(c) /\ inodes'[f][i] = Header(c)
             \/ DumpTable(c) /\ dumps[c].size \in DOMAIN Tables
                /\ inodes'[f][i] = Block(c, Tables[dumps[c].size], dumps[c].snap)
             \/ ArchiveUpload(c)
                /\ \E u \in Files : /\ inodes'[f][i] = Block(c, u, uploads[u])
                                    /\ dumps'[c].todo = dumps[c].todo \ {u}
             \/ WriteManifest(c)
                /\ inodes'[f][i] = Block(c, "final", dumps[c].size - 1 - Len(Tables))

\* Every block of a file was there, is zeros, or was written by the step.
LEMMA Origins ==
    ASSUME Shape, Shape', [Next]_vars, NEW f \in Dumps, NEW i \in 1..Len(inodes'[f])
    PROVE  Origin(f, i)
<1>1. CASE Untouched
  BY <1>1 DEF Untouched, Origin
<1>2. ASSUME NEW c \in Dumps, NEW b, Writes(c, b),
             ~ (inodes'[f][i] = Hole \/ (i \in 1..Len(inodes[f]) /\ inodes'[f][i] = inodes[f][i]))
      PROVE  i = dumps[c].size + 1 /\ IsWriting(c) /\ inodes'[f][i] = b
  BY <1>2, WriteLeaves DEF Writes
<1>3. ASSUME NEW c \in Dumps, Snapshot(c) PROVE Origin(f, i)
  BY <1>2, <1>3, SnapshotWrites DEF Origin
<1>4. ASSUME NEW c \in Dumps, DumpTable(c) PROVE Origin(f, i)
  BY <1>2, <1>4, TableWrites DEF Origin
<1>5. ASSUME NEW c \in Dumps, WriteManifest(c) PROVE Origin(f, i)
  BY <1>2, <1>5, ManifestWrites DEF Origin
<1>6. ASSUME NEW c \in Dumps, ArchiveUpload(c), inodes' # inodes PROVE Origin(f, i)
  <2>1. PICK u \in Files : dumps'[c].todo = dumps[c].todo \ {u} /\ Writes(c, Block(c, u, uploads[u]))
    BY <1>6, UploadWrites
  <2> QED
    BY <1>2, <1>6, <2>1 DEF Origin
<1> QED
  BY <1>1, <1>3, <1>4, <1>5, <1>6, FilesGoOn

\* A block a dump has written now is the next of that dump, and the final one
\* is its manifest's.
LEMMA OwnOrigin ==
    ASSUME Shape, Shape', [Next]_vars, NEW f \in Dumps, NEW i \in 1..Len(inodes'[f]),
           NEW d \in Dumps, inodes'[f][i].dump = d
    PROVE  \/ i \in 1..Len(inodes[f]) /\ inodes'[f][i] = inodes[f][i]
           \/ /\ i = dumps[d].size + 1 /\ IsWriting(d)
              /\ inodes'[f][i].what = "final" => WriteManifest(d)
<1>1. inodes'[f][i] # Hole
  BY ArchivesAssumption DEF Hole, Block
<1>2. SUFFICES ASSUME ~ (i \in 1..Len(inodes[f]) /\ inodes'[f][i] = inodes[f][i])
               PROVE  /\ i = dumps[d].size + 1 /\ IsWriting(d)
                      /\ inodes'[f][i].what = "final" => WriteManifest(d)
  OBVIOUS
<1>3. PICK c \in Dumps :
          /\ i = dumps[c].size + 1 /\ IsWriting(c)
          /\ \/ Snapshot(c) /\ inodes'[f][i] = Header(c)
             \/ DumpTable(c) /\ dumps[c].size \in DOMAIN Tables
                /\ inodes'[f][i] = Block(c, Tables[dumps[c].size], dumps[c].snap)
             \/ ArchiveUpload(c)
                /\ \E u \in Files : /\ inodes'[f][i] = Block(c, u, uploads[u])
                                    /\ dumps'[c].todo = dumps[c].todo \ {u}
             \/ WriteManifest(c)
                /\ inodes'[f][i] = Block(c, "final", dumps[c].size - 1 - Len(Tables))
  BY <1>1, <1>2, Origins, Zenon DEF Origin
<1>4. CASE Snapshot(c) /\ inodes'[f][i] = Header(c)
  BY <1>3, <1>4 DEF Header, Block
<1>5. CASE DumpTable(c) /\ dumps[c].size \in DOMAIN Tables
           /\ inodes'[f][i] = Block(c, Tables[dumps[c].size], dumps[c].snap)
  <2>1. Tables[dumps[c].size] \in ToSet(Tables)
    BY <1>5 DEF ToSet
  <2>2. inodes'[f][i].dump = c /\ inodes'[f][i].what = Tables[dumps[c].size]
    BY <1>5 DEF Block
  <2> QED
    BY <1>3, <2>1, <2>2, ArchivesAssumption
<1>6. ASSUME NEW u \in Files, inodes'[f][i] = Block(c, u, uploads[u])
      PROVE  inodes'[f][i].dump = c /\ inodes'[f][i].what # "final"
  BY <1>6, ArchivesAssumption DEF Block
<1>7. CASE WriteManifest(c) /\ inodes'[f][i] = Block(c, "final", dumps[c].size - 1 - Len(Tables))
  BY <1>3, <1>7 DEF Block
<1> QED
  BY <1>3, <1>4, <1>5, <1>6, <1>7

-------------------------------------------------------------------------------
(* What a final block says has been carried.                               *)

\* No restore took the upload of its row away from the dump.
Spared(d) == dumps[d].had /\ d \notin torn

Row(d) == live[dumps[d].snap]

\* What d has at position p of a file is the whole of the upload of its row.
KeptAt(d, p) ==
    \A f \in Dumps :
        p \in 1..Len(inodes[f]) /\ inodes[f][p].dump = d =>
            inodes[f][p].what = Row(d) /\ inodes[f][p].at = "whole"

Carried(d, last) == \E p \in (Len(Tables) + 2)..last : KeptAt(d, p)

\* A dump that has seen the database finds the upload of its row, lists it, and
\* has carried it before it says how many it has carried.
RowIsWhole(d) == dumps[d].pc \in HasSeen => Row(d) \in Files /\ uploads[Row(d)] = "whole"

RowIsWalked(d) == dumps[d].pc = "walk" => Row(d) \in dumps[d].todo \/ Carried(d, dumps[d].size)

EndIsTrue(d) ==
    \A f \in Dumps : \A q \in 1..Len(inodes[f]) :
        inodes[f][q].dump = d /\ inodes[f][q].what = "final" => Carried(d, q - 1)

CarriesOf(d) == Spared(d) => RowIsWhole(d) /\ RowIsWalked(d) /\ EndIsTrue(d)

Carries == \A d \in Dumps : CarriesOf(d)

\* What a dump has seen, and that a restore came between, is not forgotten.
LEMMA SparedBefore ==
    ASSUME Shape, Shape', [Next]_vars, NEW d \in Dumps, dumps[d].pc \notin {"idle", "opened"}
    PROVE  Spared(d)' => Spared(d)
<1>1. dumps'[d].had = dumps[d].had
  BY DumpsGoOn DEF Onward
<1>2. torn \subseteq torn'
  <2>1. Elsewhere => torn \subseteq torn'
    BY DEF Elsewhere, Scan, ForEachRow, SwapUploads, RefuseRestore, CreateFile, WriteFile, UpdateProfile, Pass
  <2> QED
    BY <2>1, StepsElsewhere
<1> QED
  BY <1>1, <1>2, Zenon DEF Spared

\* A row stays the row a dump saw.
LEMMA RowStays ==
    ASSUME Shape, Shape', [Next]_vars, NEW d \in Dumps, dumps[d].pc \notin {"idle", "opened"},
           dumps[d].snap \in DOMAIN live
    PROVE  Row(d)' = Row(d)
<1>1. dumps'[d].snap = dumps[d].snap
  BY DumpsGoOn DEF Onward
<1> QED
  BY <1>1, RowsStay DEF Row, LiveGrows

\* A dump writes each position once (every action that writes).
LEMMA KeptStays ==
    ASSUME Shape, Shape', [Next]_vars, Places, NEW d \in Dumps, dumps[d].pc \notin {"idle", "opened"},
           NEW p \in Nat, IsWriting(d) => p <= dumps[d].size, KeptAt(d, p)
    PROVE  KeptAt(d, p)'
<1> SUFFICES ASSUME NEW f \in Dumps, p \in 1..Len(inodes'[f]), inodes'[f][p].dump = d
             PROVE  inodes'[f][p].what = Row(d)' /\ inodes'[f][p].at = "whole"
  BY DEF KeptAt
<1>1. d # 0 /\ dumps[d].size \in Nat
  BY ArchivesAssumption DEF Shape, DumpsShape, DumpShape
<1>2. inodes'[f][p] # Hole
  BY <1>1 DEF Hole, Block
<1>3. ~ (p = dumps[d].size + 1 /\ IsWriting(d))
  BY <1>1
<1>4. p \in 1..Len(inodes[f]) /\ inodes'[f][p] = inodes[f][p]
  BY <1>3, OwnOrigin
<1>5. BlockStands(inodes[f][p], p)
  BY <1>4 DEF Places, BlocksStand
<1>6. dumps[d].snap \in DOMAIN live
  BY <1>2, <1>4, <1>5 DEF BlockStands
<1>7. Row(d)' = Row(d)
  BY <1>6, RowStays
<1> QED
  BY <1>4, <1>7 DEF KeptAt

\* ... so what it has carried it has carried.
LEMMA CarriedStays ==
    ASSUME Shape, Shape', [Next]_vars, Places, NEW d \in Dumps, dumps[d].pc \notin {"idle", "opened"},
           NEW m \in Int, NEW k \in Int, IsWriting(d) => m <= dumps[d].size, m <= k, Carried(d, m)
    PROVE  Carried(d, k)'
<1>1. Len(Tables) \in Nat /\ dumps[d].size \in Nat
  BY ArchivesAssumption DEF Shape, DumpsShape, DumpShape
<1>2. PICK p \in (Len(Tables) + 2)..m : KeptAt(d, p)
  BY DEF Carried
<1>3. p \in Nat /\ p \in (Len(Tables) + 2)..k /\ (IsWriting(d) => p <= dumps[d].size)
  BY <1>1
<1>4. KeptAt(d, p)'
  BY <1>2, <1>3, KeptStays
<1> QED
  BY <1>3, <1>4 DEF Carried

\* The upload of its row is there when a dump sees the database, and while it
\* writes; only a restore takes it away (Snapshot, SwapUploads).
LEMMA RowStaysWhole ==
    ASSUME Shape, Shape', [Next]_vars, Places, RowsNameFiles, Carries, NEW d \in Dumps, Spared(d)'
    PROVE  RowIsWhole(d)'
<1> SUFFICES ASSUME dumps'[d].pc \in HasSeen
             PROVE  Row(d)' \in Files /\ uploads'[Row(d)'] = "whole"
  BY DEF RowIsWhole
<1>1. CASE Snapshot(d)
  <2>1. Recorded /\ Len(live) \in DOMAIN live
    BY DEF Shape, DumpsShape
  <2>2. /\ dumps'[d].snap = Len(live) /\ UNCHANGED <<live, uploads>>
        /\ dumps'[d].had = (NewestRow # NoFile /\ uploads[NewestRow] # "gone")
    BY <1>1, <2>1, SnapshotChanges DEF Snapshot, instance
  <2>3. dumps'[d].had
    BY Zenon DEF Spared
  <2>4. NewestRow # NoFile /\ uploads[NewestRow] # "gone"
    BY <2>2, <2>3, Zenon
  <2>5. Row(d)' = NewestRow
    BY <2>2 DEF Row, NewestRow
  <2> QED
    BY <2>1, <2>2, <2>4, <2>5 DEF RowsNameFiles, NewestRow
<1>2. CASE ~ Snapshot(d)
  <2>1. dumps[d].pc \in HasSeen
    BY <1>2, SeenComes
  <2>2. dumps[d].pc \notin {"idle", "opened"} /\ dumps[d].snap \in DOMAIN live /\ IsWriting(d)
    BY <2>1 DEF HasSeen, IsWriting, Writing, Places, SnapsAreRows
  <2>3. Row(d) \in Files /\ uploads[Row(d)] = "whole"
    BY <2>1, <2>2, SparedBefore DEF Carries, CarriesOf, RowIsWhole
  <2>4. ~ SwapUploads
    <3>1. d \notin torn'
      BY Zenon DEF Spared
    <3> QED
      BY <2>2, <3>1 DEF SwapUploads
  <2>5. Row(d)' = Row(d)
    BY <2>2, RowStays
  <2> QED
    BY <2>3, <2>4, <2>5, UploadsChange DEF UploadsGoOn
<1> QED
  BY <1>1, <1>2

\* It is on the list of the uploads, and leaves it for the file (ListUploads,
\* ArchiveUpload).
LEMMA RowStaysWalked ==
    ASSUME Shape, Shape', [Next]_vars, Places, Carries, NEW d \in Dumps, Spared(d)'
    PROVE  RowIsWalked(d)'
<1> SUFFICES ASSUME dumps'[d].pc = "walk"
             PROVE  Row(d)' \in dumps'[d].todo \/ Carried(d, dumps[d].size)'
  BY DEF RowIsWalked
<1> DEFINE n == Len(Tables)
<1>1. /\ n \in Nat /\ dumps[d].size \in Nat /\ dumps'[d].size \in Nat /\ SizeOf(d)
      /\ Recorded /\ d # 0
  BY ArchivesAssumption DEF Shape, DumpsShape, DumpShape, Sizes
<1> HIDE DEF n
<1>2. ListUploads(d) \/ (dumps[d].pc = "walk" /\ (dumps'[d] = dumps[d] \/ ArchiveUpload(d)))
  BY WalkGoesOn
<1>3. dumps[d].pc \in HasSeen
  BY <1>2 DEF ListUploads, HasSeen
<1>4. dumps[d].pc \notin {"idle", "opened"} /\ dumps[d].snap \in DOMAIN live
  BY <1>3 DEF HasSeen, Places, SnapsAreRows
<1>5. RowIsWhole(d) /\ RowIsWalked(d) /\ Row(d)' = Row(d)
  BY <1>4, SparedBefore, RowStays DEF Carries, CarriesOf
<1>6. Row(d) \in Files /\ uploads[Row(d)] = "whole"
  BY <1>3, <1>5 DEF RowIsWhole
<1>7. CASE ListUploads(d)
  <2>1. dumps'[d].todo = {f \in Files : uploads[f] \in {"begun", "whole"}}
    BY <1>1, <1>7, ListChanges
  <2> QED
    BY <1>5, <1>6, <2>1
<1>8. ASSUME Carried(d, dumps[d].size), dumps[d].size <= dumps'[d].size
      PROVE  Carried(d, dumps[d].size)'
  <2>1. PICK m \in Int, k \in Int : m = dumps[d].size /\ k = dumps'[d].size
    BY <1>1
  <2>2. Carried(d, k)'
    BY <1>4, <1>8, <2>1, CarriedStays
  <2> QED
    BY <2>1, <2>2 DEF Carried
<1>9. CASE dumps[d].pc = "walk" /\ dumps'[d] = dumps[d]
  BY <1>1, <1>5, <1>8, <1>9 DEF RowIsWalked
<1>10. CASE dumps[d].pc = "walk" /\ ArchiveUpload(d)
  <2>1. PICK f \in dumps[d].todo :
            /\ f \in Files /\ dumps'[d].todo = dumps[d].todo \ {f}
            /\ \/ uploads[f] = "gone" /\ Only(d, {"todo"})
               \/ Writes(d, Block(d, f, uploads[f]))
    BY <1>10, UploadWrites
  <2>2. CASE f # Row(d)
    <3>1. dumps[d].size <= dumps'[d].size
      BY <1>1, <2>1 DEF Only, Fields, Writes
    <3> QED
      BY <1>5, <1>8, <1>10, <2>1, <2>2, <3>1 DEF RowIsWalked
  <2>3. CASE f = Row(d)
    <3>0. PICK k \in Nat : k = dumps[d].size + 1
      BY <1>1
    <3>1. PICK b : b = Block(d, f, uploads[f]) /\ k = dumps[d].size + 1
      BY <3>0
    <3>2. Writes(d, b) /\ b.what = Row(d) /\ b.at = "whole"
      BY <1>6, <2>1, <2>3, <3>1 DEF Block
    <3>3. dumps'[d].size = k /\ k >= n + 2
      BY <1>1, <1>10, <3>1, <3>2 DEF Writes, SizeOf, n
    <3>4. KeptAt(d, k)'
      <4> SUFFICES ASSUME NEW g \in Dumps, k \in 1..Len(inodes'[g]), inodes'[g][k].dump = d
                   PROVE  inodes'[g][k].what = Row(d)' /\ inodes'[g][k].at = "whole"
        BY DEF KeptAt
      <4>1. inodes'[g][k] # Hole
        BY <1>1 DEF Hole, Block
      <4>2. CASE inodes'[g][k] = b
        BY <1>5, <3>2, <4>2
      <4>3. CASE k \in 1..Len(inodes[g]) /\ inodes'[g][k] = inodes[g][k]
        <5>1. BlockStands(inodes[g][k], k)
          BY <4>3 DEF Places, BlocksStand
        <5>2. k <= dumps[d].size
          BY <1>10, <4>1, <4>3, <5>1 DEF BlockStands, IsWriting, Writing
        <5> QED
          BY <1>1, <3>1, <5>2
      <4> QED
        BY <3>1, <3>2, <4>1, <4>2, <4>3, WriteLeaves
    <3>5. k \in (n + 2)..k
      BY <1>1, <3>3
    <3>6. Carried(d, k)'
      BY <3>4, <3>5 DEF Carried, n
    <3> QED
      BY <3>3, <3>6 DEF Carried
  <2> QED
    BY <2>2, <2>3
<1> QED
  BY <1>2, <1>7, <1>9, <1>10

\* The end is written when the list is empty (WriteManifest).
LEMMA EndStaysTrue ==
    ASSUME Shape, Shape', [Next]_vars, Places, Carries, NEW d \in Dumps, Spared(d)'
    PROVE  EndIsTrue(d)'
<1> SUFFICES ASSUME NEW f \in Dumps, NEW q \in 1..Len(inodes'[f]),
                    inodes'[f][q].dump = d, inodes'[f][q].what = "final"
             PROVE  Carried(d, q - 1)'
  BY DEF EndIsTrue
<1>1. d # 0 /\ dumps[d].size \in Nat /\ q \in Nat /\ q - 1 \in Int /\ q - 1 <= q - 1
  BY ArchivesAssumption DEF Shape, DumpsShape, DumpShape
<1>2. inodes'[f][q] # Hole
  BY <1>1 DEF Hole, Block
<1>3. CASE q \in 1..Len(inodes[f]) /\ inodes'[f][q] = inodes[f][q]
  <2>1. BlockStands(inodes[f][q], q)
    BY <1>3 DEF Places, BlocksStand
  <2>2. dumps[d].pc \notin {"idle", "opened"} /\ (IsWriting(d) => q <= dumps[d].size)
    BY <1>2, <1>3, <2>1 DEF BlockStands
  <2>3. Carried(d, q - 1)
    BY <1>3, <2>2, SparedBefore DEF Carries, CarriesOf, EndIsTrue
  <2>4. IsWriting(d) => q - 1 <= dumps[d].size
    BY <1>1, <2>2
  <2> QED
    BY <1>1, <2>2, <2>3, <2>4, CarriedStays
<1>4. CASE WriteManifest(d) /\ q = dumps[d].size + 1
  <2>1. dumps[d].pc = "walk" /\ dumps[d].todo = {}
    BY <1>4 DEF WriteManifest
  <2>2. Carried(d, dumps[d].size)
    BY <2>1, SparedBefore DEF Carries, CarriesOf, RowIsWalked
  <2>3. dumps[d].size = q - 1
    BY <1>1, <1>4
  <2> QED
    BY <1>1, <2>1, <2>2, <2>3, CarriedStays
<1>5. \/ q \in 1..Len(inodes[f]) /\ inodes'[f][q] = inodes[f][q]
      \/ WriteManifest(d) /\ q = dumps[d].size + 1
  BY OwnOrigin
<1> QED
  BY <1>3, <1>4, <1>5

\* What is true of the end of an archive, of its tables and of its header is
\* what a restore relies on: its blocks are of one dump, which has seen the
\* database, and the upload of the row that dump saw is among them (Scan).
LEMMA WhatIsScanned ==
    ASSUME Shape, Places, Carries, NEW f \in Dumps, Scans(inodes[f]),
           NEW d, d = HeaderOf(inodes[f])
    PROVE  /\ d \in Dumps /\ dumps[d].pc \notin {"idle", "opened"}
           /\ dumps[d].snap \in DOMAIN live
           /\ \A i \in DOMAIN inodes[f] : inodes[f][i].dump = d
           /\ Spared(d) => \E i \in UploadBlocks(inodes[f]) :
                              inodes[f][i].what = Row(d) /\ inodes[f][i].at = "whole"
<1>1. DOMAIN inodes[f] = 1..Len(inodes[f]) /\ Len(inodes[f]) \in Nat /\ inodes[f] \in Seq(Blocks)
  BY FilesAreLists DEF Shape
<1>2. /\ inodes[f] # <<>> /\ inodes[f][1] = Header(d)
      /\ \A i \in DOMAIN inodes[f] : inodes[f][i].dump = d
      /\ \A i \in DOMAIN inodes[f] : inodes[f][i].what = "final" <=> i = Len(inodes[f])
  BY DEF Scans, Opens
<1>3. Len(inodes[f]) \in 1..Len(inodes[f]) /\ 1 \in 1..Len(inodes[f])
  BY <1>1, <1>2
<1>4. d \in Dumps /\ dumps[d].pc \notin {"idle", "opened"} /\ dumps[d].snap \in DOMAIN live
  <2>1. BlockStands(inodes[f][1], 1)
    BY <1>3 DEF Places, BlocksStand
  <2>2. inodes[f][1] # Hole /\ inodes[f][1].dump = d
    BY <1>2 DEF Header, Hole, Block
  <2> QED
    BY <2>1, <2>2 DEF BlockStands
<1>5. ASSUME Spared(d)
      PROVE  \E i \in UploadBlocks(inodes[f]) :
                inodes[f][i].what = Row(d) /\ inodes[f][i].at = "whole"
  <2>1. EndIsTrue(d)
    BY <1>4, <1>5 DEF Carries, CarriesOf
  <2>2. PICK q \in 1..Len(inodes[f]) : q = Len(inodes[f])
    BY <1>3
  <2>3. inodes[f][q].dump = d /\ inodes[f][q].what = "final"
    BY <1>1, <1>2, <2>2
  <2>4. PICK p \in (Len(Tables) + 2)..(q - 1) : KeptAt(d, p)
    BY <2>1, <2>3 DEF EndIsTrue, Carried
  <2>5. /\ p \in 1..Len(inodes[f]) /\ p # Len(inodes[f]) /\ p # 1
        /\ p - 1 \notin DOMAIN Tables
    BY <1>1, <2>2, ArchivesAssumption
  <2>6. inodes[f][p].dump = d /\ inodes[f][p].what # "final"
    BY <1>1, <1>2, <2>5
  <2>7. inodes[f][p].what = Row(d) /\ inodes[f][p].at = "whole"
    BY <2>4, <2>5, <2>6 DEF KeptAt
  <2>8. inodes[f][p] # Hole
    BY <1>4, <2>6, ArchivesAssumption DEF Hole, Block
  <2>9. BlockStands(inodes[f][p], p)
    BY <2>5 DEF Places, BlocksStand
  <2>10. inodes[f][p].what \in Files
    BY <2>5, <2>6, <2>8, <2>9 DEF BlockStands, InPlace
  <2> QED
    BY <1>1, <2>5, <2>7, <2>10 DEF UploadBlocks
<1> QED
  BY <1>2, <1>4, <1>5

\* ... and its tables are of the one commit that dump saw (ForEachRow).
LEMMA WhatIsRead ==
    ASSUME Shape, Places, NEW f \in Dumps, Opens(inodes[f]), NEW d, d = HeaderOf(inodes[f]),
           NEW i \in TableBlocks(inodes[f])
    PROVE  inodes[f][i].dump = d /\ inodes[f][i].at = dumps[d].snap
<1> DEFINE b == inodes[f][i]
<1>1. i \in DOMAIN inodes[f] /\ b.what \in ToSet(Tables) /\ b.dump = d
  BY DEF TableBlocks, Opens
<1>2. BlockStands(b, i)
  BY <1>1, FilesAreLists DEF Places, BlocksStand
<1>3. b.what \notin Files \cup {"header", "hole", "final"}
  BY <1>1, ArchivesAssumption
<1>4. b # Hole /\ b # Header(b.dump)
  BY <1>3 DEF Hole, Header, Block
<1>5. InPlace(b, i)
  BY <1>2, <1>4 DEF BlockStands
<1> QED
  BY <1>1, <1>3, <1>4, <1>5 DEF InPlace

\* What a restore scans is one moment (Scan).
LEMMA MomentOfAnArchive ==
    ASSUME Shape, Places, Carries PROVE ArchiveIsOneMoment
<1> SUFFICES ASSUME NEW name \in Names, NEW f, f = finals[name], f # 0, Scans(inodes[f]),
                    NEW d, d = HeaderOf(inodes[f])
             PROVE  /\ \A t \in ToSet(Tables) : TableRead(inodes[f], t) = dumps[d].snap
                    /\ dumps[d].had /\ d \notin torn =>
                          \E i \in DOMAIN inodes[f] :
                             inodes[f][i].what = live[dumps[d].snap] /\ inodes[f][i].at = "whole"
  BY DEF ArchiveIsOneMoment
<1>1. f \in Dumps
  BY DEF Shape
<1>2. /\ \A i \in DOMAIN inodes[f] : inodes[f][i].dump = d
      /\ Spared(d) => \E i \in UploadBlocks(inodes[f]) :
                         inodes[f][i].what = Row(d) /\ inodes[f][i].at = "whole"
  BY <1>1, WhatIsScanned
<1>3. ASSUME NEW t \in ToSet(Tables) PROVE TableRead(inodes[f], t) = dumps[d].snap
  <2>1. \E i \in DOMAIN inodes[f] : inodes[f][i].what = t
    BY DEF Scans, VerifyComplete, HasEveryTable
  <2>2. PICK c \in Dumps : /\ TableRead(inodes[f], t) = dumps[c].snap
                           /\ \E i \in DOMAIN inodes[f] : inodes[f][i].dump = c
    BY <1>1, <2>1, TablesAreRead
  <2> QED
    BY <1>2, <2>2
<1> QED
  BY <1>2, <1>3, Zenon DEF Spared, UploadBlocks, Row

\* All this together keeps itself.
Moment == Shape /\ Places /\ ReaderShape /\ RowsNameFiles /\ Carries

\* Nothing is written yet.
LEMMA MomentInit == Init => Moment
<1> SUFFICES ASSUME Init PROVE Moment
  OBVIOUS
<1>1. \A d \in Dumps : dumps[d].pc = "idle" /\ ~ dumps[d].had
  BY DEF Init, NotBegun
<1>2. \A f \in Dumps : inodes[f] = <<>>
  BY DEF Init
<1>3. Places
  BY <1>1, <1>2 DEF Places, SnapsAreRows, HasSeen, BlocksStand
<1>4. RowsNameFiles
  BY DEF Init, RowsNameFiles
<1>5. Carries
  BY <1>1, Zenon DEF Carries, CarriesOf, Spared
<1> QED
  BY <1>3, <1>4, <1>5, ShapeInit, ReaderInit DEF Moment

\* Each part is kept with the help of the others.
LEMMA MomentKept == ASSUME Moment, [Next]_vars PROVE Moment'
<1>1. Shape /\ Places /\ ReaderShape /\ RowsNameFiles /\ Carries
  BY DEF Moment
<1>2. Shape'
  BY <1>1, ShapeKept
<1>3. Places' /\ ReaderShape' /\ RowsNameFiles'
  BY <1>1, <1>2, PlacesKept, ReaderKept, RowsKept
<1>4. Carries'
  <2> SUFFICES ASSUME NEW d \in Dumps, Spared(d)'
               PROVE  (RowIsWhole(d) /\ RowIsWalked(d) /\ EndIsTrue(d))'
    BY DEF Carries, CarriesOf
  <2> QED
    BY <1>1, <1>2, RowStaysWhole, RowStaysWalked, EndStaysTrue
<1> QED
  BY <1>2, <1>3, <1>4 DEF Moment

\* An archive a restore accepts is one moment of the instance, whatever else
\* writes, renames, prunes, restores or stops meanwhile: all tables as of one
\* commit, and the whole of the upload its row names (Snapshot, DumpTable,
\* ListUploads, ArchiveUpload, WriteManifest, and Scan and ForEachRow that
\* accept it).
THEOREM ArchivesAreOneMoment == Spec => []ArchiveIsOneMoment
<1>1. Moment => ArchiveIsOneMoment
  BY MomentOfAnArchive DEF Moment
<1> QED
  BY <1>1, MomentInit, MomentKept, PTL DEF Spec

-------------------------------------------------------------------------------
(* The two passes of a restore.                                            *)

\* What the first pass of a restore has staged is of the one dump d, which saw
\* a commit of the database, and holds the upload of the row d saw.
StagedFrom(d) ==
    /\ d \in Dumps /\ dumps[d].pc \notin {"idle", "opened"} /\ dumps[d].snap \in DOMAIN live
    /\ \A b \in reader.staged : b.dump = d
    /\ Spared(d) => \E b \in reader.staged : b.what = Row(d) /\ b.at = "whole"

\* What the second has read is of d too, and of that one commit.
OneCommit(rows, d) == (\A b \in rows : b.dump = d) /\ {b.at : b \in rows} = {dumps[d].snap}

ReadFrom(d) == OneCommit(reader.rows, d)

Reading ==
    reader.pc # "none" =>
        /\ StagedFrom(reader.header)
        /\ reader.pc # "scanned" => reader.pc \in {"committed", "restored"} /\ ReadFrom(reader.header)

\* What was staged stays that, whatever becomes of the archive and of the dump.
LEMMA StagedStays ==
    ASSUME Shape, Shape', [Next]_vars, NEW d, StagedFrom(d), UNCHANGED reader.staged
    PROVE  StagedFrom(d)' /\ dumps'[d].snap = dumps[d].snap
<1>1. d \in Dumps /\ dumps[d].pc \notin {"idle", "opened"} /\ dumps[d].snap \in DOMAIN live
  BY DEF StagedFrom
<1>2. dumps'[d].pc \notin {"idle", "opened"} /\ dumps'[d].snap = dumps[d].snap
  BY <1>1, DumpsGoOn DEF Onward
<1>3. dumps'[d].snap \in DOMAIN live'
  BY <1>1, <1>2, RowsStay DEF LiveGrows
<1>4. Row(d)' = Row(d)
  BY <1>1, RowStays
<1>5. Spared(d)' => Spared(d)
  BY <1>1, SparedBefore
<1>6. Spared(d)' => \E b \in reader'.staged : b.what = Row(d)' /\ b.at = "whole"
  BY <1>4, <1>5, Zenon DEF StagedFrom
<1>7. \A b \in reader'.staged : b.dump = d
  BY Zenon DEF StagedFrom
<1> QED
  BY <1>1, <1>2, <1>3, <1>6, <1>7 DEF StagedFrom

\* A first pass stages the uploads of what it scans (Scan).
LEMMA ScanStages ==
    ASSUME Shape, Places, Carries, NEW n \in Names, Scan(n), Elsewhere PROVE Reading'
<1> DEFINE f == finals[n]
<1>1. f \in Dumps /\ Scans(inodes[f])
  BY DEF Scan, Shape
<1>2. /\ reader'.pc = "scanned" /\ reader'.header = HeaderOf(inodes[f])
      /\ reader'.staged = {inodes[f][i] : i \in UploadBlocks(inodes[f])}
  BY DEF Scan
<1> HIDE DEF f
<1>3. PICK d : d = HeaderOf(inodes[f])
  OBVIOUS
<1>4. /\ d \in Dumps /\ dumps[d].pc \notin {"idle", "opened"} /\ dumps[d].snap \in DOMAIN live
      /\ \A i \in DOMAIN inodes[f] : inodes[f][i].dump = d
      /\ Spared(d) => \E i \in UploadBlocks(inodes[f]) :
                         inodes[f][i].what = Row(d) /\ inodes[f][i].at = "whole"
  BY <1>1, <1>3, WhatIsScanned
<1>5. UNCHANGED <<dumps, live, torn>>
  BY DEF Scan, Elsewhere, instance
<1>6. (Spared(d)' <=> Spared(d)) /\ Row(d)' = Row(d)
  BY <1>5 DEF Spared, Row
<1>7. \A b \in reader'.staged : b.dump = d
  BY <1>2, <1>4 DEF UploadBlocks
<1>8. Spared(d)' => \E b \in reader'.staged : b.what = Row(d)' /\ b.at = "whole"
  BY <1>2, <1>4, <1>6
<1>9. StagedFrom(d)'
  BY <1>4, <1>5, <1>7, <1>8 DEF StagedFrom
<1> QED
  BY <1>2, <1>3, <1>9 DEF Reading

\* A second pass reads the tables of the file it finds, whosever it is by now,
\* and goes on if its header is that of the first (ForEachRow).
LEMMA SecondPassReads ==
    ASSUME Shape, Places, ReaderShape, ForEachRow,
           NEW d, d = reader.header,
           NEW rows, rows = {inodes[finals[reader.name]][i] :
                                i \in TableBlocks(inodes[finals[reader.name]])}
    PROVE  OneCommit(rows, d)
<1> DEFINE f == finals[reader.name]
<1>1. f # 0 /\ StillReads(inodes[f])
  BY Zenon DEF ForEachRow
<1>2. f \in Dumps
  BY <1>1 DEF Shape, ReaderShape
<1>3. Opens(inodes[f]) /\ HasEveryTable(inodes[f]) /\ d = HeaderOf(inodes[f])
  BY <1>1 DEF StillReads, SameHeader
<1>4. rows = {inodes[f][i] : i \in TableBlocks(inodes[f])}
  OBVIOUS
<1> HIDE DEF f
<1>5. ASSUME NEW b \in rows PROVE b.dump = d /\ b.at = dumps[d].snap
  <2>1. PICK i \in TableBlocks(inodes[f]) : b = inodes[f][i]
    BY <1>4
  <2> QED
    BY <1>2, <1>3, <2>1, WhatIsRead
<1>6. PICK b : b \in rows
  <2>1. Tables[1] \in ToSet(Tables)
    BY ArchivesAssumption DEF ToSet
  <2>2. PICK i \in DOMAIN inodes[f] : inodes[f][i].what = Tables[1]
    BY <1>3, <2>1 DEF HasEveryTable
  <2> QED
    BY <1>4, <2>1, <2>2 DEF TableBlocks
<1> QED
  BY <1>5, <1>6 DEF OneCommit

\* Whatever is between the passes, and after them.
LEMMA ReadingKept == ASSUME Moment, Reading, [Next]_vars PROVE Reading'
<1> DEFINE read == {inodes[finals[reader.name]][i] :
                       i \in TableBlocks(inodes[finals[reader.name]])}
<1>0. PICK d : d = reader.header
  OBVIOUS
<1>1. Shape /\ Places /\ ReaderShape /\ Carries
  BY DEF Moment
<1>2. Shape'
  BY MomentKept DEF Moment
<1>3. ASSUME reader.pc # "none", reader'.header = d, reader'.staged = reader.staged
      PROVE  StagedFrom(d)' /\ dumps'[d].snap = dumps[d].snap
  <2>1. StagedFrom(d)
    BY <1>0, <1>3 DEF Reading
  <2> QED
    BY <1>1, <1>2, <1>3, <2>1, StagedStays
<1>4. CASE UNCHANGED reader
  <2>1. CASE reader.pc = "none"
    BY <1>4, <2>1 DEF Reading
  <2>2. CASE reader.pc # "none"
    <3>1. StagedFrom(d)' /\ dumps'[d].snap = dumps[d].snap
      BY <1>0, <1>3, <1>4, <2>2
    <3>2. reader.pc # "scanned" => reader.pc \in {"committed", "restored"} /\ ReadFrom(d)
      BY <1>0, <2>2 DEF Reading
    <3>3. ReadFrom(d) => ReadFrom(d)'
      BY <1>4, <3>1 DEF ReadFrom, OneCommit
    <3> QED
      BY <1>0, <1>4, <3>1, <3>2, <3>3 DEF Reading
  <2> QED
    BY <2>1, <2>2
<1>5. CASE Elsewhere /\ \E n \in Names : Scan(n)
  BY <1>1, <1>5, ScanStages
<1>6. ASSUME ForEachRow, reader.pc = "scanned", reader'.pc = "committed",
             reader'.header = reader.header, reader'.staged = reader.staged, reader'.rows = read
      PROVE  Reading'
  <2>1. StagedFrom(d)' /\ dumps'[d].snap = dumps[d].snap
    BY <1>0, <1>3, <1>6
  <2>2. PICK rows : rows = read
    OBVIOUS
  <2>3. OneCommit(rows, d)
    BY <1>0, <1>1, <1>6, <2>2, SecondPassReads, Zenon
  <2>4. reader'.rows = rows
    BY <1>6, <2>2
  <2>5. ReadFrom(d)'
    BY <2>1, <2>3, <2>4 DEF ReadFrom, OneCommit
  <2> QED
    BY <1>0, <1>6, <2>1, <2>5 DEF Reading
<1>7. ASSUME reader.pc = "committed", reader'.pc = "restored", reader'.header = reader.header,
             reader'.staged = reader.staged, reader'.rows = reader.rows
      PROVE  Reading'
  <2>1. StagedFrom(d)' /\ dumps'[d].snap = dumps[d].snap
    BY <1>0, <1>3, <1>7
  <2>2. ReadFrom(d)
    BY <1>0, <1>7 DEF Reading
  <2>3. ReadFrom(d)'
    BY <1>7, <2>1, <2>2 DEF ReadFrom, OneCommit
  <2> QED
    BY <1>0, <1>7, <2>1, <2>3 DEF Reading
<1>8. CASE reader' = NoReader
  BY <1>8 DEF NoReader, Reading
<1> QED
  BY <1>1, <1>4, <1>5, <1>6, <1>7, <1>8, ReaderMoves, Zenon

\* "so the two passes cannot diverge" (backup/index.go:276): what a restore has
\* staged and the rows it commits are of one dump and one commit, the upload of
\* the restored row among the staged, whatever is written, renamed and pruned
\* between its passes (Scan, SameHeader, ForEachRow, SwapUploads).
THEOREM PassesNeverDiverge == Spec => []PassesAgree
<1> DEFINE Inv == Moment /\ Reading
<1>1. Init => Inv
  BY MomentInit DEF Init, Reading, NoReader
<1>2. Inv /\ [Next]_vars => Inv'
  BY MomentKept, ReadingKept
<1>3. Inv => PassesAgree
  BY DEF Reading, StagedFrom, ReadFrom, OneCommit, PassesAgree, Spared, Row
<1> QED
  BY <1>1, <1>2, <1>3, PTL DEF Spec

-------------------------------------------------------------------------------
(* Whose file it is.                                                       *)

\* f is the file of a dump of that name.
Begun(f, n) == f \in Dumps /\ dumps[f].pc # "idle" /\ dumps[f].name = n

\* Every file is known by the name of the dump that created it, and a dump
\* writes into its own file or into a shared one of its name (DumpToDir).
Owners ==
    /\ \A n \in Names : partials[n] # 0 => Begun(partials[n], n)
    /\ \A n \in Names : finals[n] # 0 => Begun(finals[n], n)
    /\ \A d \in Dumps : IsWriting(d) => /\ dumps[d].file \in shared \cup {d}
                                        /\ Begun(dumps[d].file, dumps[d].name)
    /\ \A f \in shared : f \in Dumps /\ dumps[f].pc # "idle"

\* A dump keeps its name once it has begun.
LEMMA NamesStay ==
    ASSUME Shape, [Next]_vars, NEW c \in Dumps, dumps[c].pc # "idle"
    PROVE  dumps'[c].pc # "idle" /\ dumps'[c].name = dumps[c].name
<1>1. Recorded
  BY DEF Shape, DumpsShape
<1>2. CASE Snapshot(c) \/ DumpTable(c) \/ ListUploads(c) \/ ArchiveUpload(c) \/ WriteManifest(c)
  <2>1. /\ Only(c, {"pc", "snap", "size", "had"}) \/ Only(c, {"pc", "size"})
           \/ Only(c, {"pc", "todo"}) \/ Only(c, {"todo", "size"})
        /\ dumps'[c].pc # "idle"
    <3>1. Snapshot(c) => Only(c, {"pc", "snap", "size", "had"}) /\ dumps'[c].pc # "idle"
      BY <1>1, SnapshotChanges
    <3>2. DumpTable(c) => Only(c, {"pc", "size"}) /\ dumps'[c].pc # "idle"
      BY <1>1, TableChanges
    <3>3. ListUploads(c) => Only(c, {"pc", "todo"}) /\ dumps'[c].pc # "idle"
      BY <1>1, ListChanges
    <3>4. ArchiveUpload(c) => Only(c, {"todo", "size"}) /\ dumps'[c].pc # "idle"
      BY <1>1, UploadChanges DEF Only, Fields
    <3>5. WriteManifest(c) => Only(c, {"pc", "size"}) /\ dumps'[c].pc # "idle"
      BY <1>1, ManifestChanges
    <3> QED
      BY <1>2, <3>1, <3>2, <3>3, <3>4, <3>5
  <2> QED
    BY <2>1 DEF Only, Fields
<1>3. CASE Rename(c) \/ ListArchives(c)
  BY <1>1, <1>3, RenameChanges, ListArchivesChanges DEF Only, Fields
<1>4. CASE RemoveArchive(c)
  BY <1>1, <1>4, RemoveChanges DEF Only, Fields
<1>5. CASE Fail(c) \/ Stop(c)
  BY <1>1, <1>5, HaltChanges DEF Fail, Stop, Only, Fields
<1>6. ASSUME NEW kind \in Kinds, DumpToDir(c, kind) PROVE FALSE
  BY <1>1, <1>6, BeginChanges
<1>7. CASE dumps'[c] = dumps[c]
  BY <1>7
<1> QED
  BY <1>2, <1>3, <1>4, <1>5, <1>6, <1>7, OwnStep

\* ... and its file while it writes.
LEMMA WritingGoesOn ==
    ASSUME Shape, [Next]_vars, NEW c \in Dumps, IsWriting(c)'
    PROVE  \/ \E kind \in Kinds : DumpToDir(c, kind)
           \/ IsWriting(c) /\ dumps'[c].file = dumps[c].file /\ dumps'[c].name = dumps[c].name
<1>1. Recorded
  BY DEF Shape, DumpsShape
<1>2. CASE Snapshot(c) \/ DumpTable(c) \/ WriteManifest(c)
  <2>1. \E b : Writes(c, b)
    BY <1>2, SnapshotWrites, TableWrites, ManifestWrites
  <2> QED
    BY <2>1 DEF Writes, Only, Fields
<1>3. CASE ArchiveUpload(c)
  <2>1. Only(c, {"todo", "size"}) /\ dumps[c].pc = "walk"
    BY <1>1, <1>3, UploadChanges
  <2> QED
    BY <2>1 DEF Only, Fields, IsWriting, Writing
<1>4. CASE ListUploads(c)
  BY <1>1, <1>4, ListChanges DEF Only, Fields, IsWriting, Writing
<1>5. ~ (Rename(c) \/ ListArchives(c))
  BY <1>1, RenameChanges, ListArchivesChanges DEF IsWriting, Writing
<1>6. ~ RemoveArchive(c)
  BY <1>1, RemoveChanges DEF Only, Fields, IsWriting, Writing
<1>7. ~ (Fail(c) \/ Stop(c))
  BY <1>1, HaltChanges DEF Fail, Stop, IsWriting, Writing
<1>8. CASE dumps'[c] = dumps[c]
  BY <1>8 DEF IsWriting
<1> QED
  BY <1>2, <1>3, <1>4, <1>5, <1>6, <1>7, <1>8, OwnStep

\* A file belongs to a name for good.
LEMMA BegunStays ==
    ASSUME Shape, [Next]_vars, NEW f, NEW n, Begun(f, n) PROVE Begun(f, n)'
BY NamesStay DEF Begun

\* What happens to the directory.
LEMMA DirectoryChanges ==
    ASSUME Shape, [Next]_vars, NEW n \in Names
    PROVE  /\ \/ partials'[n] \in {partials[n], 0}
              \/ \E d \in Dumps, kind \in Kinds : DumpToDir(d, kind) /\ n = dumps'[d].name
           /\ \/ finals'[n] \in {finals[n], 0}
              \/ \E d \in Dumps : Rename(d) /\ n = dumps[d].name /\ finals'[n] = partials[n]
           /\ shared' = shared \/ \E d \in Dumps, kind \in Kinds : DumpToDir(d, kind)
<1>1. partials \in [Names -> Dumps \cup {0}] /\ finals \in [Names -> Dumps \cup {0}] /\ Recorded
  BY DEF Shape, DumpsShape
<1>2. ASSUME NEW d \in Dumps, NEW kind \in Kinds, DumpToDir(d, kind)
      PROVE  finals' = finals /\ (n # dumps'[d].name => partials'[n] = partials[n])
  <2>1. finals' = finals
    BY <1>2 DEF DumpToDir
  <2>2. PICK name, file : /\ name = <<IF kind = "safety" THEN "gosplit-pre-restore"
                                      ELSE "gosplit-backup", now>>
                          /\ partials' = [partials EXCEPT ![name] = file]
    BY <1>2 DEF DumpToDir
  <2>3. dumps'[d].name = name
    BY <1>1, <1>2, <2>2, BeginChanges
  <2> QED
    BY <1>1, <2>1, <2>2, <2>3
<1>3. ASSUME NEW d \in Dumps, Snapshot(d) \/ DumpTable(d) \/ WriteManifest(d) \/ ArchiveUpload(d)
                              \/ ListUploads(d) \/ Stop(d) \/ ListArchives(d)
      PROVE  UNCHANGED <<partials, finals, shared>>
  BY <1>3 DEF Snapshot, DumpTable, WriteManifest, ArchiveUpload, ListUploads, Stop, ListArchives, dirVars
<1>4. ASSUME NEW d \in Dumps, Rename(d)
      PROVE  /\ partials'[n] \in {partials[n], 0} /\ shared' = shared
             /\ finals'[n] = finals[n] \/ (n = dumps[d].name /\ finals'[n] = partials[n])
  BY <1>1, <1>4 DEF Rename
<1>5. ASSUME NEW d \in Dumps, Fail(d) \/ RemoveArchive(d)
      PROVE  /\ partials'[n] \in {partials[n], 0} /\ finals'[n] \in {finals[n], 0}
             /\ shared' = shared
  BY <1>1, <1>5 DEF Fail, RemoveArchive
<1>6. SweepStalePartials => /\ partials'[n] \in {partials[n], 0}
                            /\ UNCHANGED <<finals, shared>>
  BY <1>1 DEF SweepStalePartials
<1>7. Elsewhere \/ UNCHANGED vars => UNCHANGED <<partials, finals, shared>>
  BY DEF Elsewhere, vars, dirVars
<1> QED
  BY <1>2, <1>3, <1>4, <1>5, <1>6, <1>7, StepsAre

\* A dump begins with a file of its own, or with another dump's that it shares
\* from now on (DumpToDir).
LEMMA BeginTakes ==
    ASSUME Shape, Owners, [Next]_vars, NEW d \in Dumps, NEW kind \in Kinds, DumpToDir(d, kind)
    PROVE  \E file \in Dumps :
              /\ dumps[d].pc = "idle" /\ dumps'[d].pc = "opened" /\ dumps'[d].file = file
              /\ dumps'[d].name \in Names
              /\ partials' = [partials EXCEPT ![dumps'[d].name] = file]
              /\ inodes' = [inodes EXCEPT ![file] = <<>>]
              /\ \/ /\ file = d /\ shared' = shared
                    /\ partials[dumps'[d].name] = 0
                 \/ /\ file # d /\ shared' = shared \cup {file}
                    /\ partials[dumps'[d].name] = file /\ Begun(file, dumps'[d].name)
<1> DEFINE name == <<IF kind = "safety" THEN "gosplit-pre-restore" ELSE "gosplit-backup", now>>
           file == IF partials[name] = 0 THEN d ELSE partials[name]
<1>1. /\ partials' = [partials EXCEPT ![name] = file]
      /\ inodes' = [inodes EXCEPT ![file] = <<>>]
      /\ shared' = IF file = d THEN shared ELSE shared \cup {file}
  BY DEF DumpToDir
<1>2. Recorded /\ partials \in [Names -> Dumps \cup {0}] /\ d # 0
  BY ArchivesAssumption DEF Shape, DumpsShape
<1>3. name \in Names
  BY DEF Shape, Names, ArchivePrefixes
<1>4. /\ dumps[d].pc = "idle" /\ dumps'[d].pc = "opened" /\ dumps'[d].name = name
      /\ dumps'[d].file = file
  BY <1>2, BeginChanges
<1> HIDE DEF name
<1>5. partials[name] # 0 => Begun(partials[name], name)
  BY <1>3 DEF Owners
<1>6. partials[name] # 0 => partials[name] # d /\ partials[name] \in Dumps
  BY <1>4, <1>5 DEF Begun
<1>7. file \in Dumps
  BY <1>6
<1>8. CASE partials[name] = 0
  BY <1>1, <1>3, <1>4, <1>7, <1>8
<1>9. CASE partials[name] # 0
  BY <1>1, <1>3, <1>4, <1>5, <1>6, <1>7, <1>9
<1> QED
  BY <1>8, <1>9

\* Files stay with their names in every step (DumpToDir, Rename).
LEMMA OwnersKept == ASSUME Shape, Shape', Owners, [Next]_vars PROVE Owners'
<1>1. ASSUME NEW f, NEW n, Begun(f, n) PROVE Begun(f, n)'
  BY <1>1, BegunStays
<1>2. ASSUME NEW d \in Dumps, NEW kind \in Kinds, DumpToDir(d, kind)
      PROVE  /\ shared \subseteq shared' /\ \A f \in shared' : f \in shared \/ (f \in Dumps /\ dumps[f].pc # "idle")
             /\ partials'[dumps'[d].name] # 0 => Begun(partials[dumps[d].name], dumps[d].name)'
             /\ dumps'[d].file \in shared' \cup {d} /\ Begun(dumps[d].file, dumps[d].name)'
  <2>1. PICK file \in Dumps :
            /\ dumps'[d].pc = "opened" /\ dumps'[d].file = file
            /\ dumps'[d].name \in Names
            /\ partials' = [partials EXCEPT ![dumps'[d].name] = file]
            /\ \/ file = d /\ shared' = shared
               \/ shared' = shared \cup {file} /\ Begun(file, dumps'[d].name)
    BY <1>2, BeginTakes
  <2>2. partials'[dumps'[d].name] = file
    BY <2>1 DEF Shape
  <2>3. PICK n : n = dumps'[d].name
    OBVIOUS
  <2>4. Begun(file, n)'
    BY <1>1, <2>1, <2>3 DEF Begun
  <2>5. Begun(partials[dumps[d].name], dumps[d].name)' /\ Begun(dumps[d].file, dumps[d].name)'
    BY <2>1, <2>2, <2>3, <2>4 DEF Begun
  <2> QED
    BY <2>1, <2>5 DEF Begun
<1>3. shared \subseteq shared' /\ \A f \in shared' : f \in Dumps /\ dumps'[f].pc # "idle"
  <2>1. shared \subseteq shared' /\ \A f \in shared' : f \in Dumps /\ dumps[f].pc # "idle"
    <3>1. CASE shared' = shared
      BY <3>1 DEF Owners
    <3>2. shared' = shared \/ \E d \in Dumps, kind \in Kinds : DumpToDir(d, kind)
      <4>1. NoReader.name \in Names
        BY NoReaderNamed
      <4> QED
        BY <4>1, DirectoryChanges
    <3> QED
      BY <1>2, <3>1, <3>2 DEF Owners
  <2> QED
    BY <2>1, NamesStay
<1>4. ASSUME NEW n \in Names, partials'[n] # 0 PROVE Begun(partials[n], n)'
  <2>1. CASE partials'[n] = partials[n]
    <3>1. PICK f : f = partials[n]
      OBVIOUS
    <3>2. Begun(f, n)'
      BY <1>1, <1>4, <2>1, <3>1 DEF Owners
    <3> QED
      BY <2>1, <3>1, <3>2 DEF Begun
  <2>2. ASSUME NEW d \in Dumps, NEW kind \in Kinds, DumpToDir(d, kind), n = dumps'[d].name
        PROVE  Begun(partials[n], n)'
    BY <1>2, <1>4, <2>2 DEF Begun
  <2> QED
    BY <1>4, <2>1, <2>2, DirectoryChanges
<1>5. ASSUME NEW n \in Names, finals'[n] # 0 PROVE Begun(finals[n], n)'
  <2>1. finals'[n] = finals[n] \/ finals'[n] = partials[n]
    BY <1>5, DirectoryChanges
  <2>2. PICK f : f = finals'[n]
    OBVIOUS
  <2>3. Begun(f, n)'
    BY <1>1, <1>5, <2>1, <2>2 DEF Owners
  <2> QED
    BY <2>2, <2>3 DEF Begun
<1>6. ASSUME NEW d \in Dumps, IsWriting(d)'
      PROVE  dumps'[d].file \in shared' \cup {d} /\ Begun(dumps[d].file, dumps[d].name)'
  <2>1. CASE IsWriting(d) /\ dumps'[d].file = dumps[d].file /\ dumps'[d].name = dumps[d].name
    <3>1. PICK f, n : f = dumps[d].file /\ n = dumps[d].name
      OBVIOUS
    <3>2. f \in shared \cup {d} /\ Begun(f, n)'
      BY <1>1, <2>1, <3>1 DEF Owners
    <3> QED
      BY <1>3, <2>1, <3>1, <3>2 DEF Begun
  <2> QED
    BY <1>2, <1>6, <2>1, WritingGoesOn
<1> QED
  BY <1>3, <1>4, <1>5, <1>6 DEF Owners

-------------------------------------------------------------------------------
(* Archives nobody shares are whole.                                       *)

Unshared(n) == \A f \in shared : dumps[f].name # n

\* A dump that shares its file with nobody has the .partial of its name, and
\* has written all of it; the final block is there once the dump is done.
SoloOf(d) ==
    IsWriting(d) /\ Unshared(dumps[d].name) =>
        /\ dumps[d].file = d /\ partials[dumps[d].name] = d
        /\ Len(inodes[d]) = dumps[d].size
        /\ \A i \in 1..Len(inodes[d]) :
              /\ inodes[d][i].dump = d
              /\ inodes[d][i].what = "final" <=> dumps[d].pc = "rename" /\ i = dumps[d].size

Solo == \A d \in Dumps : SoloOf(d)

WholeOf(n) ==
    finals[n] # 0 /\ Unshared(n) => ~ IsWriting(finals[n]) /\ Scans(inodes[finals[n]])

Whole == \A n \in Names : WholeOf(n)

\* A name that nobody shares was not shared before.
LEMMA UnsharedBefore ==
    ASSUME Shape, Shape', Owners, Owners', [Next]_vars, NEW n, Unshared(n)'
    PROVE  /\ Unshared(n) /\ shared \subseteq shared'
           /\ \A f : Begun(f, n) => f \notin shared'
<1>1. shared \subseteq shared'
  <2>1. ASSUME NEW d \in Dumps, NEW kind \in Kinds, DumpToDir(d, kind) PROVE shared \subseteq shared'
    BY <2>1 DEF DumpToDir
  <2> QED
    BY <2>1, DirectoryChanges, NoReaderNamed
<1>2. \A f \in shared : f \in Dumps /\ dumps[f].pc # "idle"
  BY DEF Owners
<1>3. \A f \in shared' : dumps'[f].name # n
  BY DEF Unshared
<1> QED
  BY <1>1, <1>2, <1>3, NamesStay DEF Unshared, Begun

\* The file of a dump that nobody shares is written by that dump only, and not
\* truncated.
LEMMA FileStays ==
    ASSUME Shape, Shape', Owners, [Next]_vars, NEW f \in Dumps, dumps[f].pc # "idle",
           f \notin shared, f \notin shared'
    PROVE  \/ inodes'[f] = inodes[f]
           \/ Snapshot(f) \/ DumpTable(f) \/ WriteManifest(f) \/ ArchiveUpload(f)
<1>1. ASSUME NEW d \in Dumps, NEW kind \in Kinds, DumpToDir(d, kind) PROVE inodes'[f] = inodes[f]
  <2>1. PICK file \in Dumps :
            /\ dumps[d].pc = "idle"
            /\ inodes' = [inodes EXCEPT ![file] = <<>>]
            /\ file = d \/ shared' = shared \cup {file}
    BY <1>1, BeginTakes
  <2>2. file # f
    BY <2>1
  <2> QED
    BY <2>1, <2>2 DEF Shape
<1>2. ASSUME NEW d \in Dumps, NEW b, Writes(d, b), d # f PROVE inodes'[f] = inodes[f]
  <2>1. IsWriting(d) /\ Put(d, b)
    BY <1>2 DEF Writes
  <2>2. dumps[d].file # f
    BY <1>2, <2>1 DEF Owners
  <2> QED
    BY <2>1, <2>2 DEF Put, Shape
<1>3. ASSUME NEW d \in Dumps, Snapshot(d) \/ DumpTable(d) \/ WriteManifest(d), d # f
      PROVE  inodes'[f] = inodes[f]
  BY <1>2, <1>3, SnapshotWrites, TableWrites, ManifestWrites
<1>4. ASSUME NEW d \in Dumps, ArchiveUpload(d), d # f PROVE inodes'[f] = inodes[f]
  <2>1. inodes' = inodes \/ \E b : Writes(d, b)
    BY <1>4, UploadWrites
  <2> QED
    BY <1>2, <1>4, <2>1
<1>5. ASSUME NEW d \in Dumps,
             \/ ListUploads(d) \/ Rename(d) \/ Fail(d) \/ Stop(d) \/ ListArchives(d) \/ RemoveArchive(d)
      PROVE  inodes' = inodes
  BY <1>5 DEF ListUploads, Rename, Fail, Stop, ListArchives, RemoveArchive, dirVars
<1>6. SweepStalePartials \/ Elsewhere \/ UNCHANGED vars => inodes' = inodes
  BY DEF SweepStalePartials, Elsewhere, vars, dirVars
<1> QED
  BY <1>1, <1>3, <1>4, <1>5, <1>6, StepsAre

\* A dump writes its final block as the last (Snapshot, DumpTable,
\* ArchiveUpload, WriteManifest).
LEMMA FinalIsLast ==
    ASSUME Shape, NEW d \in Dumps,
           Snapshot(d) \/ DumpTable(d) \/ WriteManifest(d) \/ (ArchiveUpload(d) /\ inodes' # inodes)
    PROVE  \E b : /\ Writes(d, b) /\ dumps[d].pc # "rename"
                  /\ b.what = "final" <=> dumps'[d].pc = "rename"
<1>1. CASE Snapshot(d)
  <2>1. PICK b : b = Header(d)
    OBVIOUS
  <2>2. Writes(d, b) /\ dumps[d].pc = "opened" /\ dumps'[d].pc = "tables"
    BY <1>1, <2>1, SnapshotWrites DEF Snapshot
  <2> QED
    BY <2>1, <2>2 DEF Header, Block
<1>2. CASE DumpTable(d)
  <2>1. PICK b : b = Block(d, Tables[dumps[d].size], dumps[d].snap)
    OBVIOUS
  <2>2. /\ Writes(d, b) /\ dumps[d].size \in DOMAIN Tables /\ dumps[d].pc = "tables"
        /\ dumps'[d].pc # "rename"
    BY <1>2, <2>1, TableWrites
  <2>3. b.what # "final"
    BY <2>1, <2>2, ArchivesAssumption DEF Block, ToSet
  <2> QED
    BY <2>2, <2>3
<1>3. CASE WriteManifest(d)
  <2>1. PICK b : b = Block(d, "final", dumps[d].size - 1 - Len(Tables))
    OBVIOUS
  <2>2. Writes(d, b) /\ dumps[d].pc = "walk" /\ dumps'[d].pc = "rename"
    BY <1>3, <2>1, ManifestWrites
  <2> QED
    BY <2>1, <2>2 DEF Block
<1>4. CASE ArchiveUpload(d) /\ inodes' # inodes
  <2>1. PICK f \in Files : Writes(d, Block(d, f, uploads[f]))
    BY <1>4, UploadWrites
  <2>2. dumps[d].pc = "walk" /\ dumps'[d].pc = "walk"
    BY <1>4, UploadWrites
  <2>3. Block(d, f, uploads[f]).what # "final"
    BY ArchivesAssumption DEF Block
  <2> QED
    BY <2>1, <2>2, <2>3
<1> QED
  BY <1>1, <1>2, <1>3, <1>4

\* What a dump that shares its file with nobody has finished can be restored
\* (Rename, Scan).
LEMMA FinishedScans ==
    ASSUME Shape, Places, Solo, NEW d \in Dumps, dumps[d].pc = "rename", Unshared(dumps[d].name)
    PROVE  Scans(inodes[d])
<1> DEFINE n == Len(Tables)
<1>1. n \in Nat \ {0} /\ DOMAIN Tables = 1..n /\ SizeOf(d) /\ dumps[d].size \in Nat /\ d # 0
  BY ArchivesAssumption DEF Shape, DumpsShape, DumpShape, Sizes
<1> HIDE DEF n
<1>2. PICK file, m : file = inodes[d] /\ m = dumps[d].size
  OBVIOUS
<1>3. file \in Seq(Blocks) /\ DOMAIN file = 1..Len(file)
  BY <1>2, FilesAreLists DEF Shape
<1>4. /\ Len(file) = m
      /\ \A i \in 1..m : file[i].dump = d /\ (file[i].what = "final" <=> i = m)
  BY <1>2 DEF Solo, SoloOf, IsWriting, Writing
<1>5. m \in Nat /\ m >= n + 2 /\ file # <<>>
  BY <1>1, <1>2, <1>3, <1>4 DEF SizeOf, n
<1>6. \A i \in 1..m : file[i] # Hole /\ InPlace(file[i], i)
  <2> SUFFICES ASSUME NEW i \in 1..m PROVE file[i] # Hole /\ InPlace(file[i], i)
    OBVIOUS
  <2>1. file[i] # Hole
    BY <1>1, <1>4 DEF Hole, Block
  <2>2. BlockStands(file[i], i)
    BY <1>2, <1>4 DEF Places, BlocksStand
  <2> QED
    BY <2>1, <2>2 DEF BlockStands
<1>7. file[1] = Header(d)
  <2>1. 1 \in 1..m /\ 1 - 1 \notin DOMAIN Tables /\ ~ (1 > n + 1)
    BY <1>1, <1>5
  <2> QED
    BY <1>4, <1>6, <2>1 DEF InPlace, n
<1>8. Opens(file)
  BY <1>3, <1>4, <1>5, <1>7 DEF Opens, HeaderOf, Header, Block
<1>9. ASSUME NEW t \in ToSet(Tables) PROVE \E i \in DOMAIN file : file[i].what = t
  <2>1. PICK j \in 1..n : Tables[j] = t
    BY <1>1 DEF ToSet
  <2>2. j + 1 \in 1..m /\ j + 1 # 1 /\ ~ (j + 1 > n + 1) /\ (j + 1) - 1 = j
    BY <1>1, <1>5
  <2>3. file[j + 1].what = t
    BY <1>6, <2>1, <2>2 DEF InPlace, n
  <2> QED
    BY <1>3, <1>4, <2>2, <2>3
<1>10. Cardinality(UploadBlocks(file)) = file[m].at
  <2>1. ASSUME NEW i \in 1..m PROVE file[i].what \in Files <=> i >= n + 2 /\ i <= m - 1
    <3>1. CASE i = 1
      BY <1>1, <1>7, <3>1, ArchivesAssumption DEF Header, Block
    <3>2. CASE i # 1 /\ i <= n + 1
      <4>1. file[i].what \in ToSet(Tables)
        <5>1. i - 1 \in 1..n /\ ~ (i > n + 1)
          BY <1>1, <3>2
        <5> QED
          BY <1>1, <1>6, <3>2, <5>1 DEF InPlace, ToSet, n
      <4> QED
        BY <1>1, <3>2, <4>1, ArchivesAssumption
    <3>3. CASE i > n + 1
      <4>1. i # 1 /\ i - 1 \notin DOMAIN Tables /\ i >= n + 2
        BY <1>1, <3>3
      <4>2. file[i].what \in Files \/ file[i].what = "final"
        BY <1>6, <4>1 DEF InPlace
      <4>3. "final" \notin Files
        BY ArchivesAssumption
      <4> QED
        BY <1>4, <1>5, <4>1, <4>2, <4>3
    <3> QED
      BY <1>1, <3>1, <3>2, <3>3
  <2>2. UploadBlocks(file) = (n + 2)..(m - 1)
    <3>1. \A i \in (n + 2)..(m - 1) : i \in 1..m
      BY <1>1, <1>5
    <3>2. \A i : i \in UploadBlocks(file) <=> i \in 1..m /\ file[i].what \in Files
      BY <1>3, <1>4 DEF UploadBlocks
    <3>3. \A i : i \in UploadBlocks(file) <=> i \in (n + 2)..(m - 1)
      BY <1>1, <1>5, <2>1, <3>1, <3>2
    <3> QED
      BY <3>3
  <2>3. Cardinality((n + 2)..(m - 1)) = m - 2 - n
    <3>1. n + 2 \in Int /\ m - 1 \in Int
      BY <1>1, <1>5
    <3>2. Cardinality((n + 2)..(m - 1)) = IF n + 2 > m - 1 THEN 0 ELSE (m - 1) - (n + 2) + 1
      BY <3>1, FS_Interval
    <3> QED
      BY <1>1, <1>5, <3>2
  <2>4. file[m].at = m - 2 - n
    <3>1. m \in 1..m /\ m # 1 /\ m - 1 \notin DOMAIN Tables /\ file[m].what = "final"
      BY <1>1, <1>4, <1>5
    <3>2. "final" \notin Files
      BY ArchivesAssumption
    <3> QED
      BY <1>6, <3>1, <3>2 DEF InPlace, n
  <2> QED
    BY <2>2, <2>3, <2>4
<1> QED
  BY <1>2, <1>4, <1>8, <1>9, <1>10 DEF Scans, VerifyComplete, HasEveryTable

\* What a dump has to itself stays so while nobody begins in its second
\* (DumpToDir), and only its own blocks go there.
LEMMA SoloKept ==
    ASSUME Shape, Shape', Owners, Owners', Solo, [Next]_vars PROVE Solo'
<1> SUFFICES ASSUME NEW d \in Dumps, IsWriting(d)', NEW n, n = dumps'[d].name, Unshared(n)'
             PROVE  /\ dumps'[d].file = d /\ partials'[n] = d
                    /\ Len(inodes'[d]) = dumps'[d].size
                    /\ \A i \in 1..Len(inodes'[d]) :
                          /\ inodes'[d][i].dump = d
                          /\ inodes'[d][i].what = "final" <=>
                                dumps'[d].pc = "rename" /\ i = dumps'[d].size
  BY DEF Solo, SoloOf, Unshared
<1>0. /\ Unshared(n) /\ shared \subseteq shared' /\ n \in Names
      /\ \A f : Begun(f, n) => f \notin shared'
  BY UnsharedBefore DEF Shape, DumpsShape, DumpShape
<1>1. ASSUME NEW kind \in Kinds, DumpToDir(d, kind)
      PROVE  /\ dumps'[d].file = d /\ partials'[n] = d
             /\ Len(inodes'[d]) = dumps'[d].size /\ Len(inodes'[d]) = 0
  <2>1. PICK file \in Dumps :
            /\ dumps'[d].pc = "opened" /\ dumps'[d].file = file
            /\ partials' = [partials EXCEPT ![n] = file]
            /\ inodes' = [inodes EXCEPT ![file] = <<>>]
            /\ \/ file = d
               \/ shared' = shared \cup {file} /\ Begun(file, n)
    BY <1>1, BeginTakes
  <2>2. file = d
    BY <1>0, <2>1
  <2>3. dumps'[d].size = 0
    BY <2>1 DEF Shape, Sizes, SizeOf
  <2> QED
    BY <1>0, <2>1, <2>2, <2>3 DEF Shape
<1>2. CASE ~ \E kind \in Kinds : DumpToDir(d, kind)
  <2>1. IsWriting(d) /\ dumps'[d].file = dumps[d].file /\ dumps[d].name = n
    BY <1>2, WritingGoesOn
  <2>2. /\ dumps[d].file = d /\ partials[n] = d
        /\ Len(inodes[d]) = dumps[d].size
        /\ \A i \in 1..Len(inodes[d]) :
              /\ inodes[d][i].dump = d
              /\ inodes[d][i].what = "final" <=> dumps[d].pc = "rename" /\ i = dumps[d].size
    BY <1>0, <2>1 DEF Solo, SoloOf
  <2>3. dumps[d].pc # "idle" /\ Begun(d, n) /\ d \notin shared' /\ d \notin shared /\ d # 0
    BY <1>0, <2>1, ArchivesAssumption DEF IsWriting, Writing, Begun
  <2>4. partials'[n] = d
    <3>1. ASSUME NEW c \in Dumps, NEW kind \in Kinds, DumpToDir(c, kind) PROVE partials'[n] = d
      <4>1. PICK file \in Dumps :
                /\ partials' = [partials EXCEPT ![dumps'[c].name] = file]
                /\ \/ partials[dumps'[c].name] = 0
                   \/ shared' = shared \cup {file} /\ partials[dumps'[c].name] = file
        BY <3>1, BeginTakes
      <4>2. dumps'[c].name # n
        BY <2>2, <2>3, <4>1
      <4> QED
        BY <1>0, <2>2, <4>1, <4>2 DEF Shape
    <3>2. ASSUME NEW c \in Dumps, Rename(c) \/ Fail(c) PROVE partials'[n] = d
      <4>1. c # d
        <5>1. Recorded
          BY DEF Shape, DumpsShape
        <5> QED
          BY <3>2, <5>1, RenameChanges, HaltChanges DEF Fail, IsWriting, Writing
      <4>2. IsWriting(c) /\ partials' = [partials EXCEPT ![dumps[c].name] = 0]
        BY <3>2 DEF Rename, Fail, IsWriting, Writing
      <4>3. dumps[c].name # n
        BY <1>0, <2>2, <4>1, <4>2 DEF Solo, SoloOf
      <4> QED
        BY <1>0, <2>2, <4>2, <4>3 DEF Shape
    <3>3. CASE SweepStalePartials
      BY <1>0, <2>1, <2>2, <3>3 DEF SweepStalePartials, Shape
    <3>4. ASSUME NEW c \in Dumps,
                 \/ Snapshot(c) \/ DumpTable(c) \/ ArchiveUpload(c) \/ WriteManifest(c)
                 \/ ListUploads(c) \/ Stop(c) \/ ListArchives(c) \/ RemoveArchive(c)
          PROVE  partials' = partials
      BY <3>4 DEF Snapshot, DumpTable, ArchiveUpload, WriteManifest, ListUploads, Stop, ListArchives,
                  RemoveArchive, dirVars
    <3>5. Elsewhere \/ UNCHANGED vars => partials' = partials
      BY DEF Elsewhere, vars, dirVars
    <3> QED
      BY <2>2, <3>1, <3>2, <3>3, <3>4, <3>5, StepsAre
  <2>5. CASE \/ Snapshot(d) \/ DumpTable(d) \/ WriteManifest(d)
             \/ ArchiveUpload(d) /\ inodes' # inodes
    <3>1. PICK b : /\ Writes(d, b) /\ dumps[d].pc # "rename"
                   /\ b.what = "final" <=> dumps'[d].pc = "rename"
      BY <2>5, FinalIsLast
    <3>2. b.dump = d /\ dumps'[d].size = dumps[d].size + 1 /\ Put(d, b) /\ b \in Blocks
      BY <3>1 DEF Writes
    <3>3. PICK k \in Nat : k = dumps[d].size + 1 /\ Written(inodes'[d], inodes[d], k, b)
      BY <2>1, <2>2, <3>2, PutChanges
    <3>4. /\ Len(inodes'[d]) = k /\ inodes'[d][k] = b
          /\ \A i \in 1..k : i = k \/ (i \in 1..Len(inodes[d]) /\ inodes'[d][i] = inodes[d][i])
      <4>1. Len(inodes[d]) \in Nat /\ Len(inodes[d]) = k - 1
        BY <2>2, <3>3, FilesAreLists
      <4> QED
        BY <3>3, <4>1 DEF Written
    <3>5. dumps'[d].size = k /\ Len(inodes[d]) < k
      <4>1. Len(inodes[d]) = k - 1
        BY <2>2, <3>3
      <4> QED
        BY <3>2, <3>3, <4>1
    <3>6. ASSUME NEW i \in 1..k
          PROVE  /\ inodes'[d][i].dump = d
                 /\ inodes'[d][i].what = "final" <=> dumps'[d].pc = "rename" /\ i = k
      <4>1. CASE i = k
        BY <3>1, <3>2, <3>4, <4>1
      <4>2. CASE i # k
        <5>1. i \in 1..Len(inodes[d]) /\ inodes'[d][i] = inodes[d][i]
          BY <3>4, <4>2
        <5> QED
          BY <2>2, <3>1, <4>2, <5>1
      <4> QED
        BY <4>1, <4>2
    <3> QED
      BY <2>1, <2>2, <2>4, <3>4, <3>5, <3>6
  <2>6. CASE ~ \/ Snapshot(d) \/ DumpTable(d) \/ WriteManifest(d)
               \/ ArchiveUpload(d) /\ inodes' # inodes
    <3>1. inodes'[d] = inodes[d]
      BY <2>3, <2>6, FileStays
    <3>2. \/ dumps'[d] = dumps[d]
          \/ ArchiveUpload(d) /\ inodes' = inodes
          \/ ListUploads(d)
      <4>1. ~ (Rename(d) \/ Fail(d) \/ Stop(d) \/ ListArchives(d))
        <5>1. Recorded
          BY DEF Shape, DumpsShape
        <5> QED
          BY <5>1, RenameChanges, HaltChanges, ListArchivesChanges DEF Fail, Stop, IsWriting, Writing
      <4>2. ~ RemoveArchive(d)
        BY <2>1 DEF RemoveArchive, IsWriting, Writing
      <4> QED
        BY <1>2, <2>6, <4>1, <4>2, OwnStep
    <3>3. /\ dumps'[d].size = dumps[d].size
          /\ dumps'[d].pc = "rename" <=> dumps[d].pc = "rename"
      <4>1. Recorded /\ dumps[d].size \in Nat
        BY DEF Shape, DumpsShape, DumpShape
      <4>2. CASE ListUploads(d)
        BY <4>1, <4>2, ListChanges DEF Only, Fields
      <4>3. CASE ArchiveUpload(d) /\ inodes' = inodes
        <5>1. Only(d, {"todo"}) \/ \E b : Writes(d, b)
          BY <4>3, UploadWrites
        <5>2. ~ \E b : Writes(d, b)
          <6> SUFFICES ASSUME NEW b, Writes(d, b) PROVE FALSE
            OBVIOUS
          <6>1. dumps[d].size + 1 <= Len(inodes'[dumps[d].file])
            BY WriteLeaves
          <6> QED
            BY <2>2, <3>1, <4>1, <6>1
        <5>3. Only(d, {"todo"})
          BY <5>1, <5>2
        <5> QED
          BY <5>3 DEF Only, Fields
      <4> QED
        BY <3>2, <4>2, <4>3
    <3> QED
      BY <2>1, <2>2, <2>4, <3>1, <3>3
  <2> QED
    BY <2>5, <2>6
<1> QED
  BY <1>1, <1>2

\* A whole archive gets its name from the dump that wrote it (Rename), and is
\* not written to again.
LEMMA WholeKept ==
    ASSUME Shape, Shape', Owners, Owners', Places, Solo, Whole, [Next]_vars PROVE Whole'
<1> SUFFICES ASSUME NEW n \in Names, NEW f, f = finals'[n], f # 0, Unshared(n)'
             PROVE  ~ IsWriting(f)' /\ Scans(inodes'[f])
  BY DEF Whole, WholeOf, Unshared, IsWriting
<1>0. /\ Unshared(n) /\ shared \subseteq shared'
      /\ \A g : Begun(g, n) => g \notin shared'
  BY UnsharedBefore
<1>1. ASSUME NEW d \in Dumps, Rename(d), n = dumps[d].name, f = partials[n]
      PROVE  ~ IsWriting(f)' /\ Scans(inodes'[f])
  <2>1. dumps[d].pc = "rename" /\ inodes' = inodes /\ IsWriting(d)
    BY <1>1 DEF Rename, IsWriting, Writing
  <2>2. f = d
    BY <1>0, <1>1, <2>1 DEF Solo, SoloOf
  <2>3. Scans(inodes[d])
    BY <1>0, <1>1, <2>1, FinishedScans
  <2>4. ~ IsWriting(d)'
    <3>1. Recorded
      BY DEF Shape, DumpsShape
    <3> QED
      BY <1>1, <3>1, RenameChanges DEF IsWriting, Writing
  <2> QED
    BY <2>1, <2>2, <2>3, <2>4
<1>2. CASE f = finals[n]
  <2>1. ~ IsWriting(f) /\ Scans(inodes[f]) /\ Begun(f, n)
    BY <1>0, <1>2 DEF Whole, WholeOf, Owners
  <2>2. f \in Dumps /\ dumps[f].pc # "idle" /\ f \notin shared /\ f \notin shared'
    BY <1>0, <2>1 DEF Begun
  <2>3. ~ IsWriting(f)'
    BY <2>1, <2>2, DumpsGoOn DEF Onward, IsWriting, Writing
  <2>4. inodes'[f] = inodes[f]
    BY <2>1, <2>2, FileStays DEF Snapshot, DumpTable, WriteManifest, ArchiveUpload, IsWriting, Writing
  <2> QED
    BY <2>1, <2>3, <2>4
<1> QED
  BY <1>1, <1>2, DirectoryChanges

\* Whatever has the name of an archive that no two dumps shared can be
\* restored, whoever stops, fails, prunes or sweeps (Rename, Scan).
THEOREM ArchivesAreWhole == Spec => []FinalsAreWhole
<1> DEFINE Inv == Shape /\ Places /\ Owners /\ Solo /\ Whole
<1>1. Init => Inv
  <2> SUFFICES ASSUME Init PROVE Inv
    OBVIOUS
  <2>1. \A d \in Dumps : dumps[d].pc = "idle"
    BY DEF Init, NotBegun
  <2>2. \A f \in Dumps : inodes[f] = <<>>
    BY DEF Init
  <2>3. Places
    BY <2>1, <2>2 DEF Places, SnapsAreRows, HasSeen, BlocksStand
  <2>4. \A d \in Dumps : ~ IsWriting(d)
    BY <2>1 DEF IsWriting, Writing
  <2>5. /\ \A n \in Names : partials[n] = 0 /\ finals[n] = 0
        /\ shared = {}
    BY DEF Init
  <2> QED
    BY <2>3, <2>4, <2>5, ShapeInit DEF Owners, Solo, SoloOf, Whole, WholeOf
<1>2. Inv /\ [Next]_vars => Inv'
  <2> SUFFICES ASSUME Shape, Places, Owners, Solo, Whole, [Next]_vars PROVE Inv'
    OBVIOUS
  <2>1. Shape'
    BY ShapeKept
  <2>2. Places' /\ Owners'
    BY <2>1, PlacesKept, OwnersKept
  <2>3. Solo' /\ Whole'
    BY <2>1, <2>2, SoloKept, WholeKept
  <2> QED
    BY <2>1, <2>2, <2>3
<1>3. Inv => FinalsAreWhole
  BY DEF Whole, WholeOf, Unshared, FinalsAreWhole
<1> QED
  BY <1>1, <1>2, <1>3, PTL DEF Spec
===============================================================================
