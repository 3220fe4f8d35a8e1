------------------------------- MODULE Scheduler -------------------------------
(***************************************************************************)
(* The scheduler of every replica (src/internal/scheduler/scheduler.go):   *)
(* under a lock in the database that runs out by itself, a tick generates  *)
(* the due recurring expenses (service/recurrence_service.go) and starts   *)
(* the scheduled backup, which has a lock of its own.                      *)
(*                                                                         *)
(* Time is the number of cron windows that have opened; every recurrence   *)
(* and the backup are due once a window.  A lock is fresh or has run out:  *)
(* it cannot run out while its holder renews it, which an idle scheduler   *)
(* does with every tick (the lock lasts five) and a dump every third of    *)
(* the lock's time.  A tick slower than the lock, a crash, and a failing   *)
(* update are faults; their number is bounded.  The deletions of expired   *)
(* rows in a tick commute with everything here and are left out.           *)
(***************************************************************************)
EXTENDS Integers, FiniteSets, FiniteSetsExt

CONSTANTS
    Replicas,    \* schedulers sharing one database
    Nobody,      \* holder of a lock whose holder is gone
    Recs,        \* ids of recurrences that users may schedule
    MaxWindows,  \* bound on time
    MaxFaults    \* bound on crashes, slow ticks and failing updates

ASSUME SchedulerAssumption ==
    /\ Nobody \notin Replicas
    /\ Recs \subseteq Nat
    /\ MaxWindows \in Nat /\ MaxFaults \in Nat

VARIABLES
    clock,        \* the last window that has opened
    locks,        \* scheduler_locks
    nextRun,      \* expense_recurrences.next_run_at, Unborn or Gone
    node,         \* what each process is doing
    faults,       \* faults so far
    generated,    \* history: expenses generated per recurrence and due window
    interrupted   \* history: a fault came between an expense and its advance

schedulerVars == <<clock, locks, nextRun, node, faults, generated, interrupted>>

Windows == 1..MaxWindows
LockIds == {"cleanup", "scheduled-backup"}

Unborn == 0
Gone == -1

\* stage: the next statement of the tick; at: the time generation started;
\* due: the recurrences it has listed, with the window of each; nextBackup,
\* dump: when the backup is due next, and its goroutine, in memory only.
Down == [up |-> FALSE, stage |-> "idle", at |-> 0, due |-> <<>>,
         nextBackup |-> 0, dump |-> "none"]

Started == [Down EXCEPT !.up = TRUE, !.nextBackup = clock + 1]

Due(c) == {c2 \in Recs : 0 < nextRun[c2] /\ nextRun[c2] <= c}

At(r, stage) == node[r].up /\ node[r].stage = stage
Current(r) == Min(DOMAIN node[r].due)
WorksAt(r, stage) == node' = [node EXCEPT ![r].stage = stage]

\* Mutant: the upsert does not look at who holds the lock.
TakeLockAnyway(id, r) == locks' = [locks EXCEPT ![id] = [holder |-> r, fresh |-> TRUE]]

\* The upsert: only over a lock that has run out, or the caller's own.
TakeLock(id, r) ==
    locks' = [locks EXCEPT ![id] =
                 IF @.fresh /\ @.holder # r THEN @ ELSE [holder |-> r, fresh |-> TRUE]]

IsHolder(id, r) == locks[id].holder = r

-------------------------------------------------------------------------------
(* Users.                                                                  *)

CreateRecurrence(c) ==
    /\ nextRun[c] = Unborn
    /\ nextRun' = [nextRun EXCEPT ![c] = clock + 1]
    /\ UNCHANGED <<clock, locks, node, faults, generated, interrupted>>

DeleteRecurrence(c) ==
    /\ nextRun[c] > 0
    /\ nextRun' = [nextRun EXCEPT ![c] = Gone]
    /\ UNCHANGED <<clock, locks, node, faults, generated, interrupted>>

-------------------------------------------------------------------------------
(* The tick.                                                               *)

Tick(r) ==
    /\ At(r, "idle")
    /\ TakeLock("cleanup", r)
    /\ WorksAt(r, "asked")
    /\ UNCHANGED <<clock, nextRun, faults, generated, interrupted>>

\* The answer is read by a statement of its own.
ReadHolder(r) ==
    /\ At(r, "asked")
    /\ WorksAt(r, IF IsHolder("cleanup", r) THEN "list" ELSE "idle")
    /\ UNCHANGED <<clock, locks, nextRun, faults, generated, interrupted>>

ListDueRecurrences(r) ==
    /\ At(r, "list")
    /\ node' = [node EXCEPT
            ![r].at = clock,
            ![r].due = [c \in Due(clock) |-> nextRun[c]],
            ![r].stage = IF Due(clock) = {} THEN "backup" ELSE "generate"]
    /\ UNCHANGED <<clock, locks, nextRun, faults, generated, interrupted>>

\* The expense is created, even if the recurrence is gone by now, or the
\* template is refused or fails; either way the recurrence is advanced next.
\* (A rule that does not parse would be skipped; creating one is refused.)
generateOne(r) ==
    /\ At(r, "generate")
    /\ \E n \in {0, 1} :
            generated' = [generated EXCEPT ![Current(r)][node[r].due[Current(r)]] = @ + n]
    /\ WorksAt(r, "advance")
    /\ UNCHANGED <<clock, locks, nextRun, faults, interrupted>>

\* Mutant: the recurrence moves on from the window it was due in.
AdvanceByOne(r) ==
    LET c    == Current(r)
        rest == [d \in DOMAIN node[r].due \ {c} |-> node[r].due[d]]
    IN  /\ At(r, "advance")
        /\ nextRun' = IF nextRun[c] > 0 THEN [nextRun EXCEPT ![c] = node[r].due[c]]
                                        ELSE nextRun
        /\ node' = [node EXCEPT ![r].due = rest,
                                ![r].stage = IF DOMAIN rest = {} THEN "backup" ELSE "generate"]
        /\ UNCHANGED <<clock, locks, faults, generated, interrupted>>

\* The next window after the time generation started, whatever was due since.
AdvanceRecurrence(r) ==
    LET c    == Current(r)
        rest == [d \in DOMAIN node[r].due \ {c} |-> node[r].due[d]]
    IN  /\ At(r, "advance")
        /\ nextRun' = IF nextRun[c] > 0 THEN [nextRun EXCEPT ![c] = node[r].at + 1]
                                        ELSE nextRun
        /\ node' = [node EXCEPT ![r].due = rest,
                                ![r].stage = IF DOMAIN rest = {} THEN "backup" ELSE "generate"]
        /\ UNCHANGED <<clock, locks, faults, generated, interrupted>>

\* A failing update ends generation; the rest waits for the next tick.
AdvanceFails(r) ==
    /\ At(r, "advance")
    /\ faults < MaxFaults
    /\ faults' = faults + 1
    /\ interrupted' = TRUE
    /\ node' = [node EXCEPT ![r].due = <<>>, ![r].stage = "backup"]
    /\ UNCHANGED <<clock, locks, nextRun, generated>>

\* Only a leader comes here, so only a leader's nextBackup moves.
maybeBackup(r) ==
    LET due    == node[r].nextBackup <= clock
        starts == due /\ node[r].dump = "none"
    IN  /\ At(r, "backup")
        /\ node' = [node EXCEPT
                ![r].stage = "idle",
                ![r].nextBackup = IF due THEN clock + 1 ELSE @,
                ![r].dump = IF starts THEN "start" ELSE @]
        /\ UNCHANGED <<clock, locks, nextRun, faults, generated, interrupted>>

-------------------------------------------------------------------------------
(* The backup's goroutine.  It never gives its lock back.                  *)

AskBackupLock(r) ==
    /\ node[r].dump = "start"
    /\ TakeLock("scheduled-backup", r)
    /\ node' = [node EXCEPT ![r].dump = "asked"]
    /\ UNCHANGED <<clock, nextRun, faults, generated, interrupted>>

StartDump(r) ==
    LET leads == IsHolder("scheduled-backup", r)
    IN  /\ node[r].dump = "asked"
        /\ node' = [node EXCEPT ![r].dump = IF leads THEN "dumping" ELSE "none"]
        /\ UNCHANGED <<clock, locks, nextRun, faults, generated, interrupted>>

EndDump(r) ==
    /\ node[r].dump = "dumping"
    /\ node' = [node EXCEPT ![r].dump = "none"]
    /\ UNCHANGED <<clock, locks, nextRun, faults, generated, interrupted>>

-------------------------------------------------------------------------------
(* Time, crashes and restarts.                                             *)

Window ==
    /\ clock < MaxWindows
    /\ clock' = clock + 1
    /\ UNCHANGED <<locks, nextRun, node, faults, generated, interrupted>>

RunsOut(id) ==
    /\ locks[id].fresh
    /\ locks' = [locks EXCEPT ![id].fresh = FALSE]

\* The holder of a lock that nobody renews is gone or has ended its dump.
Lapse(id) ==
    /\ RunsOut(id)
    /\ \/ locks[id].holder = Nobody
       \/ /\ id = "scheduled-backup"
          /\ \E r \in Replicas : locks[id].holder = r /\ node[r].dump \notin {"asked", "dumping"}
    /\ UNCHANGED <<clock, nextRun, node, faults, generated, interrupted>>

\* A tick takes longer than the lock lasts.
SlowTick ==
    /\ RunsOut("cleanup")
    /\ \E r \in Replicas : locks["cleanup"].holder = r /\ node[r].stage # "idle"
    /\ faults < MaxFaults
    /\ faults' = faults + 1
    /\ interrupted' = TRUE
    /\ UNCHANGED <<clock, nextRun, node, generated>>

\* A process that starts again has another name: its locks hold nobody.
Crash(r) ==
    /\ node[r].up
    /\ faults < MaxFaults
    /\ faults' = faults + 1
    /\ interrupted' = (interrupted \/ node[r].stage = "advance")
    /\ node' = [node EXCEPT ![r] = Down]
    /\ locks' = [id \in LockIds |->
            IF locks[id].holder = r THEN [locks[id] EXCEPT !.holder = Nobody] ELSE locks[id]]
    /\ UNCHANGED <<clock, nextRun, generated>>

Start(r) ==
    /\ ~ node[r].up
    /\ node' = [node EXCEPT ![r] = Started]
    /\ UNCHANGED <<clock, locks, nextRun, faults, generated, interrupted>>

-------------------------------------------------------------------------------
SchedulerInit ==
    /\ clock = 0
    /\ locks = [id \in LockIds |-> [holder |-> Nobody, fresh |-> FALSE]]
    /\ nextRun = [c \in Recs |-> Unborn]
    /\ node = [r \in Replicas |-> Down]
    /\ faults = 0
    /\ generated = [c \in Recs |-> [w \in Windows |-> 0]]
    /\ interrupted = FALSE

\* What a running process does next, if nothing fails.
Works(r) ==
    \/ Tick(r) \/ ReadHolder(r) \/ ListDueRecurrences(r)
    \/ generateOne(r) \/ AdvanceRecurrence(r) \/ maybeBackup(r)

Dumps(r) == AskBackupLock(r) \/ StartDump(r) \/ EndDump(r)

Users == \E c \in Recs : CreateRecurrence(c) \/ DeleteRecurrence(c)

SchedulerNext ==
    \/ Users
    \/ \E r \in Replicas :
            Works(r) \/ Dumps(r) \/ AdvanceFails(r) \/ Crash(r) \/ Start(r)
    \/ Window \/ SlowTick
    \/ \E id \in LockIds : Lapse(id)

\* A process goes on, a process that stopped is started again, and time passes.
SchedulerFairness ==
    /\ \A r \in Replicas : WF_schedulerVars(Works(r)) /\ WF_schedulerVars(Start(r))
    /\ WF_schedulerVars(Lapse("cleanup"))

SchedulerSpec == SchedulerInit /\ [][SchedulerNext]_schedulerVars /\ SchedulerFairness

-------------------------------------------------------------------------------
(* Properties.                                                             *)

\* "Generate due recurring expenses (exactly once)" (scheduler.go:3).
OncePerDueWindow ==
    \A c \in Recs : \A w \in Windows : generated[c][w] <= 1

\* The part of that promise the code keeps: as long as no tick outlives the
\* lock and nothing fails between an expense and its advance, no due window
\* produces two expenses, whichever replicas crash and take over.
OnceUnlessInterrupted == interrupted \/ OncePerDueWindow

\* A dump is never started while another replica's runs, because its lock is
\* renewed and its answer is read back (scheduler.go:176).
OneDumpAtATime ==
    \A r, q \in Replicas : node[r].dump = "dumping" /\ node[q].dump = "dumping" => r = q

\* A due recurrence is moved on in the end, although leaders crash, ticks are
\* slow and updates fail: the lock runs out and somebody else takes it.
DueIsHandled == \A c \in Recs : (c \in Due(clock)) ~> (c \notin Due(clock))
===============================================================================
