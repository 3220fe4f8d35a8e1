------------------------------- MODULE MCRestore -------------------------------
(***************************************************************************)
(* Two uploads, the command line and the start of the server over one      *)
(* volume.                                                                 *)
(***************************************************************************)
EXTENDS RestoreJobs, TLC

CONSTANTS w1, w2, a1, a2, bad

MCProcs == {w1, w2, Cli, Boot}
MCWeb == {w1, w2}
MCArchives == {a1, a2, bad}
MCSound == {a1, a2}
MCUploadsOf == [a \in MCArchives \cup {Before} |->
                    CASE a = a1 -> {1} [] a = a2 -> {1, 2} [] a = bad -> {3} [] OTHER -> {4}]
MCAutoDir == {a1}
MCDumpDir == [p \in MCProcs |-> IF p = Boot THEN "auto" ELSE "backup"]

\* Uploads are alike.
Alike == Permutations(MCWeb)

\* Once two restores mix, most properties say no more.  The run goes on from there
\* for the uploads, on which ordinary writes have no bearing, with one stop or
\* failure at most, and without dumps that nobody prunes.
Followed ==
    "crowded" \in events => faults < MaxFaults /\ dumps["auto"] = <<>> /\ writer.count = 0
===============================================================================
