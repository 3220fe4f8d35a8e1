---------------------------- MODULE SchedulerProofs ----------------------------
(***************************************************************************)
(* Proofs about Scheduler, for any number of replicas, recurrences,        *)
(* windows and faults: dumps never overlap, and without an interruption no *)
(* due window of a recurrence generates two expenses.                      *)
(***************************************************************************)
EXTENDS Scheduler, WellFoundedInduction, TLAPS

Fields == {"up", "stage", "at", "due", "nextBackup", "dump"}

\* The shape of the two variables the argument is about.
Shape ==
    /\ locks \in [LockIds -> [holder : Replicas \cup {Nobody}, fresh : BOOLEAN]]
    /\ DOMAIN node = Replicas
    /\ \A r \in Replicas : DOMAIN node[r] = Fields /\ (~ node[r].up => node[r].stage = "idle")

\* A dump runs under a lock that names its replica and has not run out; once
\* the lock is asked for it cannot run out before the answer is read.
DumpsHoldLock ==
    \A r \in Replicas :
        /\ node[r].dump = "dumping" => locks["scheduled-backup"].holder = r
                                       /\ locks["scheduled-backup"].fresh
        /\ node[r].dump = "asked" /\ locks["scheduled-backup"].holder = r
                => locks["scheduled-backup"].fresh

DumpInv == Shape /\ DumpsHoldLock

-------------------------------------------------------------------------------
\* The scheduler's start satisfies the invariant.
LEMMA DumpInvInit == SchedulerInit => DumpInv
  BY SchedulerAssumption DEF SchedulerInit, DumpInv, Shape, DumpsHoldLock, Down, Fields, LockIds

\* A step that touches neither the locks nor any dump keeps the invariant.
LEMMA DumpInvAway ==
    ASSUME DumpInv, UNCHANGED locks,
           DOMAIN node' = Replicas,
           \A r \in Replicas : /\ DOMAIN node'[r] = Fields /\ node'[r].dump = node[r].dump
                               /\ ~ node'[r].up => node'[r].stage = "idle"
    PROVE  DumpInv'
  BY DEF DumpInv, Shape, DumpsHoldLock

\* Every step of the scheduler keeps the invariant.
LEMMA DumpInvStep == DumpInv /\ [SchedulerNext]_schedulerVars => DumpInv'
<1> SUFFICES ASSUME DumpInv, [SchedulerNext]_schedulerVars PROVE DumpInv'
  OBVIOUS
<1> USE DEF Fields
<1>a. /\ DOMAIN node = Replicas
      /\ \A r \in Replicas : DOMAIN node[r] = Fields /\ (~ node[r].up => node[r].stage = "idle")
  BY DEF DumpInv, Shape
<1>1. CASE Users
  BY <1>1, <1>a, DumpInvAway DEF Users, CreateRecurrence, DeleteRecurrence
<1>2. ASSUME NEW r \in Replicas, Works(r) PROVE DumpInv'
  <2>1. CASE Tick(r)
    BY <2>1 DEF Tick, DumpInv, Shape, DumpsHoldLock, TakeLock, WorksAt, At, LockIds
  <2>2. CASE ReadHolder(r)
    BY <2>2, <1>a, DumpInvAway DEF ReadHolder, WorksAt, At
  <2>3. CASE ListDueRecurrences(r)
    BY <2>3, <1>a, DumpInvAway DEF ListDueRecurrences, At
  <2>4. CASE generateOne(r)
    BY <2>4, <1>a, DumpInvAway DEF generateOne, WorksAt, At
  <2>5. CASE AdvanceRecurrence(r)
    BY <2>5, <1>a, DumpInvAway DEF AdvanceRecurrence, At
  <2>6. CASE maybeBackup(r)
    BY <2>6 DEF maybeBackup, DumpInv, Shape, DumpsHoldLock
  <2> QED
    BY <1>2, <2>1, <2>2, <2>3, <2>4, <2>5, <2>6 DEF Works
<1>3. ASSUME NEW r \in Replicas, Dumps(r) PROVE DumpInv'
  <2>1. CASE AskBackupLock(r)
    BY <2>1 DEF AskBackupLock, TakeLock, DumpInv, Shape, DumpsHoldLock, LockIds
  <2>2. CASE StartDump(r)
    BY <2>2 DEF StartDump, IsHolder, DumpInv, Shape, DumpsHoldLock
  <2>3. CASE EndDump(r)
    BY <2>3 DEF EndDump, DumpInv, Shape, DumpsHoldLock
  <2> QED
    BY <1>3, <2>1, <2>2, <2>3 DEF Dumps
<1>4. ASSUME NEW r \in Replicas, AdvanceFails(r) PROVE DumpInv'
  BY <1>4, <1>a, DumpInvAway DEF AdvanceFails, At
<1>5. ASSUME NEW r \in Replicas, Crash(r) PROVE DumpInv'
  BY <1>5, SchedulerAssumption
  DEF Crash, Down, DumpInv, Shape, DumpsHoldLock, LockIds
<1>6. ASSUME NEW r \in Replicas, Start(r) PROVE DumpInv'
  BY <1>6 DEF Start, Started, Down, DumpInv, Shape, DumpsHoldLock
<1>7. CASE Window
  BY <1>7, <1>a, DumpInvAway DEF Window
<1>8. CASE SlowTick
  BY <1>8 DEF SlowTick, RunsOut, DumpInv, Shape, DumpsHoldLock, LockIds
<1>9. ASSUME NEW id \in LockIds, Lapse(id) PROVE DumpInv'
  <2>1. Shape'
    BY <1>9 DEF Lapse, RunsOut, DumpInv, Shape, LockIds
  <2>2. DumpsHoldLock'
    BY <1>9, SchedulerAssumption DEF Lapse, RunsOut, DumpInv, Shape, DumpsHoldLock, LockIds
  <2> QED
    BY <2>1, <2>2 DEF DumpInv
<1>10. CASE UNCHANGED schedulerVars
  BY <1>10, <1>a, DumpInvAway DEF schedulerVars
<1> QED
  BY <1>1, <1>2, <1>3, <1>4, <1>5, <1>6, <1>7, <1>8, <1>9, <1>10 DEF SchedulerNext

\* Two replicas never dump at the same time, however often they crash, start
\* again and take over from each other (scheduler.go:159).
THEOREM DumpsNeverOverlap == SchedulerSpec => []OneDumpAtATime
<1>1. DumpInv => OneDumpAtATime
  BY DEF DumpInv, DumpsHoldLock, OneDumpAtATime
<1> QED
  BY <1>1, DumpInvInit, DumpInvStep, PTL DEF SchedulerSpec
-------------------------------------------------------------------------------
(* Generation.                                                             *)

\* The order of the ids as a relation.
Less == {ss \in Nat \X Nat : ss[1] < ss[2]}

\* The order of the ids is well-founded (Current takes a least id).
LEMMA LessWellFounded == IsWellFoundedOn(Less, Nat)
  BY NatLessThanWellFounded DEF OpToRel, Less

\* The least id of a list is an id of the list (Current).
LEMMA MinIsElement ==
    ASSUME NEW S \in SUBSET Nat, S # {}
    PROVE  Min(S) \in S
<1>1. PICK x \in S : \A y \in S : ~ (<<y, x>> \in Less)
  BY LessWellFounded, WFMin, Zenon
<1>2. ASSUME NEW y \in S PROVE x <= y
  <2>1. x \in Nat /\ y \in Nat /\ <<y, x>> \in Nat \X Nat
    OBVIOUS
  <2>2. ~ (y < x)
    BY <1>1, <2>1 DEF Less
  <2> QED
    BY <2>1, <2>2
<1> QED
  BY <1>1, <1>2 DEF Min

\* A tick between the answer that it leads and its end.
Mid(r) == node[r].stage \in {"list", "generate", "advance", "backup"}

\* The shape of what generation works with: a list is only there while it is
\* worked off, and has windows that had opened when it was made.
GenShape ==
    /\ clock \in 0..MaxWindows
    /\ nextRun \in [Recs -> Int]
    /\ generated \in [Recs -> [Windows -> Nat]]
    /\ \A r \in Replicas :
            /\ node[r].at \in Int
            /\ (DOMAIN node[r].due # {}) <=> (node[r].stage \in {"generate", "advance"})
            /\ \A c \in DOMAIN node[r].due :
                    c \in Recs /\ node[r].due[c] \in Windows /\ node[r].due[c] <= node[r].at

\* A leader's lock names it and has not run out.
LeaderHolds ==
    \A r \in Replicas :
        Mid(r) \/ (node[r].stage = "asked" /\ locks["cleanup"].holder = r)
            => locks["cleanup"] = [holder |-> r, fresh |-> TRUE]

\* What a leader has listed is still due in the window it was listed with, or
\* has been deleted.
ListIsDue ==
    \A r \in Replicas : \A c \in DOMAIN node[r].due : nextRun[c] \in {node[r].due[c], Gone}

\* An expense is at hand that its recurrence has not been moved on from.
AtHand(r, c, w) ==
    node[r].stage = "advance" /\ Current(r) = c /\ node[r].due[c] = w

\* A window with an expense lies behind its recurrence, or is at hand.
GeneratedIsPast ==
    \A c \in Recs : \A w \in Windows :
        nextRun[c] # Gone /\ generated[c][w] # 0
            => w < nextRun[c] \/ \E r \in Replicas : AtHand(r, c, w)

\* What a leader has listed has no expense yet, but for the one at hand.
ListIsUngenerated ==
    \A r \in Replicas : \A c \in DOMAIN node[r].due :
        generated[c][node[r].due[c]] # 0 => AtHand(r, c, node[r].due[c])

\* What holds until an interruption.
Undisturbed == LeaderHolds /\ ListIsDue /\ OncePerDueWindow /\ GeneratedIsPast /\ ListIsUngenerated

GenInv == Shape /\ GenShape /\ (~ interrupted => Undisturbed)
-------------------------------------------------------------------------------
\* The scheduler's start satisfies the invariant of generation.
LEMMA GenInvInit == SchedulerInit => GenInv
<1> SUFFICES ASSUME SchedulerInit PROVE GenInv
  OBVIOUS
<1>1. Shape
  BY DumpInvInit DEF DumpInv
<1>2. GenShape
  BY SchedulerAssumption DEF SchedulerInit, GenShape, Down, Unborn
<1>3. LeaderHolds /\ ListIsDue /\ ListIsUngenerated
  BY SchedulerAssumption
  DEF SchedulerInit, LeaderHolds, Mid, ListIsDue, ListIsUngenerated, Down, LockIds
<1>4. OncePerDueWindow /\ GeneratedIsPast
  BY DEF SchedulerInit, OncePerDueWindow, GeneratedIsPast
<1> QED
  BY <1>1, <1>2, <1>3, <1>4 DEF GenInv, Undisturbed

\* What a leader generates next is on its list (Current).
LEMMA CurrentIsListed ==
    ASSUME GenShape, NEW r \in Replicas, DOMAIN node[r].due # {}
    PROVE  Current(r) \in DOMAIN node[r].due
<1>1. DOMAIN node[r].due \in SUBSET Nat
  BY SchedulerAssumption DEF GenShape
<1> QED
  BY <1>1, MinIsElement DEF Current

\* A step that leaves generation, its lock and its recurrences alone keeps the
\* invariant: a dump's step, the clock's.
LEMMA GenInvAway ==
    ASSUME GenInv, Shape', clock' \in 0..MaxWindows,
           UNCHANGED <<nextRun, generated, interrupted>>,
           locks'["cleanup"] = locks["cleanup"],
           \A r \in Replicas : /\ node'[r].stage = node[r].stage
                               /\ node'[r].at = node[r].at
                               /\ node'[r].due = node[r].due
    PROVE  GenInv'
<1>1. GenShape'
  BY DEF GenInv, GenShape
<1>2. ASSUME ~ interrupted' PROVE Undisturbed'
  <2>1. Undisturbed
    BY <1>2 DEF GenInv
  <2>2. LeaderHolds' /\ ListIsDue' /\ OncePerDueWindow'
    BY <2>1 DEF Undisturbed, LeaderHolds, Mid, ListIsDue, OncePerDueWindow
  <2>3. \A r \in Replicas : \A c, w : AtHand(r, c, w) => AtHand(r, c, w)'
    BY DEF AtHand, Current
  <2> QED
    BY <2>1, <2>2, <2>3 DEF Undisturbed, GeneratedIsPast, ListIsUngenerated
<1> QED
  BY <1>1, <1>2 DEF GenInv

\* A replica that leads is the only one that does: one lock, one name in it.
LEMMA OneLeader ==
    ASSUME LeaderHolds, NEW r \in Replicas, NEW q \in Replicas, Mid(r), Mid(q)
    PROVE  r = q
<1>1. /\ locks["cleanup"] = [holder |-> r, fresh |-> TRUE]
      /\ locks["cleanup"] = [holder |-> q, fresh |-> TRUE]
  BY Zenon DEF LeaderHolds
<1> QED
  BY <1>1

\* A user's new recurrence has nothing generated and is on no list; a deleted
\* one is never moved on (CreateRecurrence, DeleteRecurrence).
LEMMA UsersKeepGenInv == GenInv /\ Shape' /\ Users => GenInv'
<1> SUFFICES ASSUME GenInv, Shape', NEW c \in Recs,
                    CreateRecurrence(c) \/ DeleteRecurrence(c)
             PROVE  GenInv'
  BY DEF Users
<1>1. UNCHANGED <<clock, locks, node, generated, interrupted>>
  BY DEF CreateRecurrence, DeleteRecurrence
<1>2. nextRun' = [nextRun EXCEPT ![c] = clock + 1] \/ nextRun' = [nextRun EXCEPT ![c] = Gone]
  BY DEF CreateRecurrence, DeleteRecurrence
<1>3. clock \in Nat /\ Gone \in Int /\ nextRun \in [Recs -> Int]
  BY SchedulerAssumption DEF GenInv, GenShape, Gone
<1>4. GenShape'
  BY <1>1, <1>2, <1>3 DEF GenInv, GenShape
<1>5. ASSUME ~ interrupted' PROVE Undisturbed'
  <2>1. Undisturbed
    BY <1>1, <1>5 DEF GenInv
  <2>2. \A r \in Replicas : \A d, w : AtHand(r, d, w) => AtHand(r, d, w)'
    BY <1>1 DEF AtHand, Current
  <2>3. LeaderHolds' /\ OncePerDueWindow' /\ ListIsUngenerated'
    BY <2>1, <1>1, <2>2
    DEF Undisturbed, LeaderHolds, Mid, OncePerDueWindow, ListIsUngenerated
  <2>4. CASE DeleteRecurrence(c)
    <3>1. nextRun' = [nextRun EXCEPT ![c] = Gone]
      BY <2>4 DEF DeleteRecurrence
    <3>2. ListIsDue'
      BY <2>1, <1>1, <1>3, <3>1 DEF Undisturbed, ListIsDue, GenInv, GenShape
    <3>3. GeneratedIsPast'
      BY <2>1, <2>2, <1>1, <1>3, <3>1 DEF Undisturbed, GeneratedIsPast
    <3> QED
      BY <2>3, <3>2, <3>3 DEF Undisturbed
  <2>5. CASE CreateRecurrence(c)
    <3>1. nextRun[c] = 0 /\ nextRun' = [nextRun EXCEPT ![c] = clock + 1]
      BY <2>5 DEF CreateRecurrence, Unborn
    <3>2. \A r \in Replicas : c \notin DOMAIN node[r].due
      BY <2>1, <3>1, SchedulerAssumption
      DEF Undisturbed, ListIsDue, GenInv, GenShape, Windows, Gone
    <3>3. ListIsDue'
      BY <2>1, <1>1, <1>3, <3>1, <3>2 DEF Undisturbed, ListIsDue, GenInv, GenShape
    <3>4. \A r \in Replicas, w \in Windows : ~ AtHand(r, c, w)
      BY <3>2, CurrentIsListed DEF AtHand, GenInv, GenShape
    <3>5. \A w \in Windows : generated[c][w] = 0
      BY <2>1, <3>1, <3>4 DEF Undisturbed, GeneratedIsPast, Windows, Gone
    <3>6. GeneratedIsPast'
      BY <2>1, <2>2, <1>1, <1>3, <3>1, <3>5 DEF Undisturbed, GeneratedIsPast
    <3> QED
      BY <2>3, <3>3, <3>6 DEF Undisturbed
  <2> QED
    BY <2>4, <2>5
<1> QED
  BY <1>4, <1>5 DEF GenInv

\* A process that leads gets its list from the recurrences that are due, none
\* of which has been generated for its window (ListDueRecurrences).
LEMMA ListingKeepsGenInv ==
    GenInv /\ Shape' /\ (\E r \in Replicas : ListDueRecurrences(r)) => GenInv'
<1> SUFFICES ASSUME GenInv, Shape', NEW r \in Replicas, ListDueRecurrences(r)
             PROVE  GenInv'
  OBVIOUS
<1>1. UNCHANGED <<clock, locks, nextRun, generated, interrupted>>
  BY DEF ListDueRecurrences
<1>2. \A q \in Replicas \ {r} : node'[q] = node[q]
  BY DEF GenInv, Shape, ListDueRecurrences
<1>3. /\ node[r].stage = "list"
      /\ node'[r].at = clock
      /\ node'[r].due = [c \in Due(clock) |-> nextRun[c]]
      /\ node'[r].stage = IF Due(clock) = {} THEN "backup" ELSE "generate"
  BY DEF GenInv, Shape, Fields, ListDueRecurrences, At
<1>4. \A c \in Due(clock) :
         c \in Recs /\ nextRun[c] \in Windows /\ nextRun[c] <= clock /\ nextRun[c] # Gone
  BY SchedulerAssumption DEF GenInv, GenShape, Due, Windows, Gone
<1>5. GenShape'
  <2>1. ASSUME NEW q \in Replicas
        PROVE  /\ node'[q].at \in Int
               /\ (DOMAIN node'[q].due # {}) <=> (node'[q].stage \in {"generate", "advance"})
               /\ \A c \in DOMAIN node'[q].due :
                    c \in Recs /\ node'[q].due[c] \in Windows /\ node'[q].due[c] <= node'[q].at
    <3>1. CASE q = r
      BY <3>1, <1>3, <1>4, SchedulerAssumption DEF GenInv, GenShape
    <3>2. CASE q # r
      BY <3>2, <1>2 DEF GenInv, GenShape
    <3> QED
      BY <3>1, <3>2
  <2> QED
    BY <2>1, <1>1 DEF GenInv, GenShape
<1>6. ASSUME ~ interrupted' PROVE Undisturbed'
  <2>1. Undisturbed
    BY <1>1, <1>6 DEF GenInv
  <2>2. \A q \in Replicas : q # r => ~ Mid(q)
    BY <2>1, <1>3, OneLeader DEF Undisturbed, Mid
  <2>3. \A q \in Replicas : q # r => DOMAIN node'[q].due = {}
    BY <2>2, <1>2 DEF GenInv, GenShape, Mid
  <2>4. \A q \in Replicas : \A c, w : ~ AtHand(q, c, w)
    BY <2>2, <1>3 DEF AtHand, Mid
  <2>5. LeaderHolds' /\ OncePerDueWindow'
    BY <2>1, <1>1, <1>2, <1>3 DEF Undisturbed, LeaderHolds, Mid, OncePerDueWindow
  <2>a. \A c \in DOMAIN node'[r].due : c \in Due(clock) /\ node'[r].due[c] = nextRun[c]
    BY <1>3
  <2>6. ListIsDue'
    BY <2>3, <2>a, <1>1 DEF ListIsDue
  <2>7. GeneratedIsPast'
    BY <2>1, <2>4, <1>1 DEF Undisturbed, GeneratedIsPast
  <2>8. \A c \in Due(clock) : generated[c][nextRun[c]] = 0
    <3> SUFFICES ASSUME NEW c \in Due(clock), generated[c][nextRun[c]] # 0 PROVE FALSE
      OBVIOUS
    <3>1. nextRun[c] < nextRun[c]
      BY <2>1, <2>4, <1>4 DEF Undisturbed, GeneratedIsPast
    <3> QED
      BY <3>1, <1>4 DEF GenInv, GenShape
  <2>9. ListIsUngenerated'
    BY <2>3, <2>8, <2>a, <1>1 DEF ListIsUngenerated
  <2> QED
    BY <2>5, <2>6, <2>7, <2>9 DEF Undisturbed
<1> QED
  BY <1>5, <1>6 DEF GenInv

\* A window that a leader has listed and not generated gets at most one
\* expense, which is then at hand (generateOne).
LEMMA GeneratingKeepsGenInv ==
    GenInv /\ Shape' /\ (\E r \in Replicas : generateOne(r)) => GenInv'
<1> SUFFICES ASSUME GenInv, Shape', NEW r \in Replicas, generateOne(r)
             PROVE  GenInv'
  OBVIOUS
<1>1. UNCHANGED <<clock, locks, nextRun, interrupted>>
  BY DEF generateOne
<1>2. \A q \in Replicas \ {r} : node'[q] = node[q]
  BY DEF GenInv, Shape, generateOne, WorksAt
<1>3. /\ node[r].stage = "generate" /\ node'[r].stage = "advance"
      /\ node'[r].at = node[r].at /\ node'[r].due = node[r].due
  BY DEF GenInv, Shape, Fields, generateOne, At, WorksAt
<1>4. PICK d \in Recs, v \in Windows :
         d = Current(r) /\ d \in DOMAIN node[r].due /\ v = node[r].due[d]
  BY <1>3, CurrentIsListed DEF GenInv, GenShape
<1>5. Current(r)' = d
  BY <1>3, <1>4 DEF Current
<1>6. PICK n \in {0, 1} : generated' = [generated EXCEPT ![d][v] = @ + n]
  BY <1>4 DEF generateOne
<1>7. /\ generated \in [Recs -> [Windows -> Nat]]
      /\ generated' \in [Recs -> [Windows -> Nat]]
      /\ generated'[d][v] = generated[d][v] + n
      /\ \A c \in Recs, w \in Windows : c # d \/ w # v => generated'[c][w] = generated[c][w]
  BY <1>4, <1>6 DEF GenInv, GenShape
<1>8. GenShape'
  BY <1>1, <1>2, <1>3, <1>7 DEF GenInv, GenShape
<1>9. ASSUME ~ interrupted' PROVE Undisturbed'
  <2>1. Undisturbed
    BY <1>1, <1>9 DEF GenInv
  <2>2. \A q \in Replicas : q # r => ~ Mid(q)
    BY <2>1, <1>3, OneLeader DEF Undisturbed, Mid
  <2>3. \A q \in Replicas : q # r => DOMAIN node'[q].due = {}
    BY <2>2, <1>2 DEF GenInv, GenShape, Mid
  <2>4. \A q \in Replicas : \A c, w : ~ AtHand(q, c, w)
    BY <2>2, <1>3 DEF AtHand, Mid
  <2>5. AtHand(r, d, v)'
    BY <1>3, <1>4, <1>5 DEF AtHand
  <2>6. LeaderHolds' /\ ListIsDue'
    BY <2>1, <1>1, <1>2, <1>3 DEF Undisturbed, LeaderHolds, Mid, ListIsDue
  <2>7. generated[d][v] = 0
    BY <2>1, <2>4, <1>4 DEF Undisturbed, ListIsUngenerated
  <2>8. OncePerDueWindow'
    BY <2>1, <2>7, <1>7, <1>4 DEF Undisturbed, OncePerDueWindow
  <2>9. GeneratedIsPast'
    <3> SUFFICES ASSUME NEW c \in Recs, NEW w \in Windows,
                        nextRun[c] # Gone, generated'[c][w] # 0,
                        ~ (w < nextRun[c])
                 PROVE  \E q \in Replicas : AtHand(q, c, w)'
      BY <1>1 DEF GeneratedIsPast
    <3>1. c = d /\ w = v
      BY <2>1, <2>4, <1>7 DEF Undisturbed, GeneratedIsPast
    <3> QED
      BY <3>1, <2>5
  <2>10. ListIsUngenerated'
    <3> SUFFICES ASSUME NEW c \in DOMAIN node[r].due,
                        generated'[c][node[r].due[c]] # 0, c # d
                 PROVE  FALSE
      BY <2>3, <2>5, <1>3, <1>4 DEF ListIsUngenerated
    <3>1. c \in Recs /\ node[r].due[c] \in Windows
      BY DEF GenInv, GenShape
    <3>2. generated[c][node[r].due[c]] # 0
      BY <3>1, <1>7
    <3> QED
      BY <3>2, <2>1, <2>4 DEF Undisturbed, ListIsUngenerated
  <2> QED
    BY <2>6, <2>8, <2>9, <2>10 DEF Undisturbed
<1> QED
  BY <1>8, <1>9 DEF GenInv

\* The recurrence moves beyond its window and every window behind it, and
\* leaves the list (AdvanceRecurrence).
LEMMA AdvancingKeepsGenInv ==
    GenInv /\ Shape' /\ (\E r \in Replicas : AdvanceRecurrence(r)) => GenInv'
<1> SUFFICES ASSUME GenInv, Shape', NEW r \in Replicas, AdvanceRecurrence(r)
             PROVE  GenInv'
  OBVIOUS
<1> DEFINE d == Current(r)
           rest == [c \in DOMAIN node[r].due \ {d} |-> node[r].due[c]]
<1>1. UNCHANGED <<clock, locks, generated, interrupted>>
  BY DEF AdvanceRecurrence
<1>2. \A q \in Replicas \ {r} : node'[q] = node[q]
  BY DEF GenInv, Shape, AdvanceRecurrence
<1>3. /\ node[r].stage = "advance" /\ node'[r].due = rest /\ node'[r].at = node[r].at
      /\ node'[r].stage = IF DOMAIN rest = {} THEN "backup" ELSE "generate"
      /\ nextRun' = IF nextRun[d] > 0 THEN [nextRun EXCEPT ![d] = node[r].at + 1] ELSE nextRun
  BY DEF GenInv, Shape, Fields, AdvanceRecurrence, At
<1>4. /\ d \in DOMAIN node[r].due /\ d \in Recs /\ node[r].due[d] \in Windows
      /\ node[r].due[d] <= node[r].at /\ node[r].at \in Int
  BY <1>3, CurrentIsListed DEF GenInv, GenShape
<1>5. \A c \in DOMAIN node'[r].due :
         c \in DOMAIN node[r].due /\ c # d /\ node'[r].due[c] = node[r].due[c]
  BY <1>3
<1>6. nextRun' \in [Recs -> Int] /\ \A c \in Recs : c # d => nextRun'[c] = nextRun[c]
  BY <1>3, <1>4 DEF GenInv, GenShape
<1>7. (DOMAIN node'[r].due # {}) <=> (node'[r].stage \in {"generate", "advance"})
  BY <1>3
<1> HIDE DEF d, rest
<1>8. GenShape'
  <2>1. ASSUME NEW q \in Replicas
        PROVE  /\ node'[q].at \in Int
               /\ (DOMAIN node'[q].due # {}) <=> (node'[q].stage \in {"generate", "advance"})
               /\ \A c \in DOMAIN node'[q].due :
                    c \in Recs /\ node'[q].due[c] \in Windows /\ node'[q].due[c] <= node'[q].at
    <3>1. CASE q = r
      BY <3>1, <1>3, <1>5, <1>7 DEF GenInv, GenShape
    <3>2. CASE q # r
      BY <3>2, <1>2 DEF GenInv, GenShape
    <3> QED
      BY <3>1, <3>2
  <2> QED
    BY <2>1, <1>1, <1>6 DEF GenInv, GenShape
<1>9. ASSUME ~ interrupted' PROVE Undisturbed'
  <2>1. Undisturbed
    BY <1>1, <1>9 DEF GenInv
  <2>2. \A q \in Replicas : q # r => ~ Mid(q)
    BY <2>1, <1>3, OneLeader DEF Undisturbed, Mid
  <2>3. \A q \in Replicas : q # r => DOMAIN node'[q].due = {}
    BY <2>2, <1>2 DEF GenInv, GenShape, Mid
  <2>4. \A q \in Replicas : \A c, w : AtHand(q, c, w) => q = r /\ c = d /\ w = node[r].due[d]
    BY <2>2 DEF AtHand, Mid, d
  <2>5. LeaderHolds' /\ OncePerDueWindow'
    BY <2>1, <1>1, <1>2, <1>3 DEF Undisturbed, LeaderHolds, Mid, OncePerDueWindow
  <2>6. ListIsDue'
    BY <2>1, <2>3, <1>5, <1>6 DEF Undisturbed, ListIsDue, GenInv, GenShape
  <2>7. ListIsUngenerated'
    BY <2>1, <2>3, <2>4, <1>1, <1>5 DEF Undisturbed, ListIsUngenerated
  <2>8. GeneratedIsPast'
    <3> SUFFICES ASSUME NEW c \in Recs, NEW w \in Windows,
                        nextRun'[c] # Gone, generated[c][w] # 0
                 PROVE  w < nextRun'[c]
      BY <1>1 DEF GeneratedIsPast
    <3>1. w \in Int /\ nextRun \in [Recs -> Int]
      BY SchedulerAssumption DEF Windows, GenInv, GenShape
    <3>2. CASE c # d
      BY <3>1, <3>2, <2>1, <2>4, <1>6 DEF Undisturbed, GeneratedIsPast
    <3>3. CASE c = d
      <4>1. nextRun[d] \in {node[r].due[d], Gone}
        BY <2>1, <1>4 DEF Undisturbed, ListIsDue
      <4>2. nextRun[d] # Gone
        BY <3>3, <4>1, <1>3, <3>1, <1>4 DEF Gone
      <4>3. nextRun[d] = node[r].due[d] /\ nextRun'[d] = node[r].at + 1
        BY <4>1, <4>2, <1>3, <1>4, <3>1, SchedulerAssumption DEF Windows
      <4>4. w < nextRun[d] \/ w = node[r].due[d]
        BY <4>2, <3>3, <2>1, <2>4 DEF Undisturbed, GeneratedIsPast
      <4> QED
        BY <3>1, <3>3, <4>3, <4>4, <1>4, SchedulerAssumption DEF Windows
    <3> QED
      BY <3>2, <3>3
  <2> QED
    BY <2>5, <2>6, <2>7, <2>8 DEF Undisturbed
<1> QED
  BY <1>8, <1>9 DEF GenInv

\* A step between generations, of which the lock's part is shown apart, keeps
\* the invariant: each replica keeps its list, or has none and none at hand.
LEMMA GenInvBetween ==
    ASSUME GenInv, Shape', UNCHANGED <<clock, nextRun, generated>>,
           \A q \in Replicas :
              /\ node'[q].at \in Int
              /\ \/ node'[q].stage = node[q].stage /\ node'[q].due = node[q].due
                 \/ /\ DOMAIN node'[q].due = {}
                    /\ node'[q].stage \notin {"generate", "advance"}
                    /\ interrupted' \/ node[q].stage # "advance",
           \A q \in Replicas : node'[q].due = node[q].due => node'[q].at = node[q].at
                                                              \/ DOMAIN node[q].due = {},
           ~ interrupted' => ~ interrupted /\ LeaderHolds'
    PROVE  GenInv'
<1>1. GenShape'
  BY DEF GenInv, GenShape
<1>2. ASSUME ~ interrupted' PROVE Undisturbed'
  <2>1. Undisturbed /\ LeaderHolds'
    BY <1>2 DEF GenInv
  <2>2. \A q \in Replicas : \A c, w : AtHand(q, c, w) => AtHand(q, c, w)'
    BY <1>2 DEF AtHand, Current
  <2>3. \A q \in Replicas : \A c : c \in DOMAIN node'[q].due => node'[q].due = node[q].due
    OBVIOUS
  <2>4. OncePerDueWindow' /\ GeneratedIsPast'
    BY <2>1, <2>2 DEF Undisturbed, OncePerDueWindow, GeneratedIsPast
  <2>5. ListIsDue' /\ ListIsUngenerated'
    BY <2>1, <2>2, <2>3 DEF Undisturbed, ListIsDue, ListIsUngenerated
  <2> QED
    BY <2>1, <2>4, <2>5 DEF Undisturbed
<1> QED
  BY <1>1, <1>2 DEF GenInv

\* Asking for the lock and reading the answer: a leader is named by a lock
\* that has not run out (Tick, ReadHolder).
LEMMA AskingKeepsGenInv ==
    GenInv /\ Shape' /\ (\E r \in Replicas : Tick(r) \/ ReadHolder(r)) => GenInv'
<1> SUFFICES ASSUME GenInv, Shape', NEW r \in Replicas, Tick(r) \/ ReadHolder(r)
             PROVE  GenInv'
  OBVIOUS
<1>1. UNCHANGED <<clock, nextRun, generated, interrupted>>
  BY DEF Tick, ReadHolder
<1>2. \A q \in Replicas : node'[q].due = node[q].due /\ node'[q].at = node[q].at
  BY DEF GenInv, Shape, Fields, Tick, ReadHolder, WorksAt
<1>3. \A q \in Replicas \ {r} : node'[q] = node[q]
  BY DEF GenInv, Shape, Tick, ReadHolder, WorksAt
<1>4. /\ node[r].stage \in {"idle", "asked"} /\ node'[r].stage \in {"asked", "list", "idle"}
      /\ DOMAIN node[r].due = {}
  BY DEF GenInv, GenShape, Shape, Fields, Tick, ReadHolder, WorksAt, At
<1>5. ASSUME ~ interrupted PROVE LeaderHolds'
  <2>1. LeaderHolds
    BY <1>5 DEF GenInv, Undisturbed
  <2>2. CASE Tick(r)
    <3>1. node[r].stage = "idle" /\ node'[r].stage = "asked"
      BY <2>2 DEF GenInv, Shape, Fields, Tick, WorksAt, At
    <3>2. locks'["cleanup"] = IF locks["cleanup"].fresh /\ locks["cleanup"].holder # r
                              THEN locks["cleanup"] ELSE [holder |-> r, fresh |-> TRUE]
      BY <2>2 DEF GenInv, Shape, Tick, TakeLock, LockIds
    <3>3. ASSUME NEW q \in Replicas, q # r,
                 Mid(q)' \/ (node'[q].stage = "asked" /\ locks'["cleanup"].holder = q)
          PROVE  locks'["cleanup"] = [holder |-> q, fresh |-> TRUE]
      <4>1. node'[q].stage = node[q].stage /\ (Mid(q)' <=> Mid(q))
        BY <3>3, <1>3 DEF Mid
      <4>2. CASE locks'["cleanup"] = locks["cleanup"]
        BY <4>1, <4>2, <3>3, <2>1 DEF LeaderHolds
      <4>3. CASE ~ (locks["cleanup"].fresh /\ locks["cleanup"].holder # r)
        <5>1. locks'["cleanup"].holder = r
          BY <4>3, <3>2
        <5>2. locks["cleanup"] = [holder |-> q, fresh |-> TRUE]
          BY <5>1, <4>1, <3>3, <2>1 DEF LeaderHolds
        <5> QED
          BY <5>2, <4>3, <3>3
      <4> QED
        BY <4>2, <4>3, <3>2
    <3>4. ~ Mid(r)' /\ (locks'["cleanup"].holder = r => locks'["cleanup"] = [holder |-> r, fresh |-> TRUE])
      BY <3>1, <3>2 DEF Mid
    <3> QED
      BY <3>3, <3>4 DEF LeaderHolds
  <2>3. CASE ReadHolder(r)
    <3>1. /\ UNCHANGED locks /\ node[r].stage = "asked"
          /\ node'[r].stage = IF locks["cleanup"].holder = r THEN "list" ELSE "idle"
      BY <2>3 DEF GenInv, Shape, Fields, ReadHolder, WorksAt, At, IsHolder
    <3> QED
      BY <2>1, <3>1, <1>3 DEF LeaderHolds, Mid
  <2> QED
    BY <2>2, <2>3
<1>6. \A q \in Replicas : node[q].at \in Int
  BY DEF GenInv, GenShape
<1> QED
  <2>1. \A q \in Replicas :
           \/ node'[q].stage = node[q].stage /\ node'[q].due = node[q].due
           \/ /\ DOMAIN node'[q].due = {}
              /\ node'[q].stage \notin {"generate", "advance"}
              /\ interrupted' \/ node[q].stage # "advance"
    BY <1>2, <1>3, <1>4
  <2> QED
    BY <2>1, <1>1, <1>2, <1>5, <1>6, GenInvBetween

\* A tick's end, a failing update, a stop and a start leave no list behind
\* (maybeBackup, AdvanceFails, Crash, Start).
LEMMA StoppingKeepsGenInv ==
    GenInv /\ Shape' /\ (\E r \in Replicas : maybeBackup(r) \/ AdvanceFails(r) \/ Crash(r) \/ Start(r))
        => GenInv'
<1> SUFFICES ASSUME GenInv, Shape', NEW r \in Replicas,
                    maybeBackup(r) \/ AdvanceFails(r) \/ Crash(r) \/ Start(r)
             PROVE  GenInv'
  OBVIOUS
<1> DEFINE Stops == /\ UNCHANGED <<clock, nextRun, generated>>
                    /\ ~ interrupted' => ~ interrupted /\ node[r].stage # "advance"
                                                       /\ node'[r].stage = "idle"
                    /\ \A q \in Replicas \ {r} :
                          /\ node'[q] = node[q]
                          /\ locks["cleanup"].holder = q \/ locks'["cleanup"].holder = q
                                => locks'["cleanup"] = locks["cleanup"]
                    /\ node'[r].stage \in {"idle", "backup"} /\ node'[r].at \in Int
                    /\ DOMAIN node'[r].due = {}
<1>1. ASSUME maybeBackup(r) PROVE Stops
  BY <1>1 DEF GenInv, Shape, GenShape, Fields, maybeBackup, At
<1>2. ASSUME AdvanceFails(r) PROVE Stops
  BY <1>2 DEF GenInv, Shape, GenShape, Fields, AdvanceFails
<1>3. ASSUME Crash(r) PROVE Stops
  <2>1. \A q \in Replicas \ {r} : node'[q] = node[q]
    BY <1>3 DEF GenInv, Shape, Crash
  <2>2. node'[r].stage = "idle" /\ node'[r].at = 0 /\ DOMAIN node'[r].due = {}
    BY <1>3 DEF GenInv, Shape, Crash, Down
  <2>3. locks'["cleanup"] = IF locks["cleanup"].holder = r
                            THEN [locks["cleanup"] EXCEPT !.holder = Nobody] ELSE locks["cleanup"]
    BY <1>3 DEF Crash, LockIds
  <2>4. \A q \in Replicas \ {r} :
           locks["cleanup"].holder = q \/ locks'["cleanup"].holder = q
               => locks'["cleanup"] = locks["cleanup"]
    BY <2>3, SchedulerAssumption DEF GenInv, Shape, LockIds
  <2>5. /\ UNCHANGED <<clock, nextRun, generated>>
        /\ ~ interrupted' => ~ interrupted /\ node[r].stage # "advance"
    BY <1>3 DEF Crash
  <2> QED
    BY <2>1, <2>2, <2>4, <2>5
<1>4. ASSUME Start(r) PROVE Stops
  BY <1>4 DEF GenInv, Shape, Start, Started, Down
<1>5. Stops
  BY <1>1, <1>2, <1>3, <1>4
<1>6. ASSUME ~ interrupted' PROVE LeaderHolds'
  <2>1. LeaderHolds /\ node'[r].stage = "idle"
    BY <1>5, <1>6 DEF GenInv, Undisturbed
  <2>2. ASSUME NEW q \in Replicas,
               Mid(q)' \/ (node'[q].stage = "asked" /\ locks'["cleanup"].holder = q)
        PROVE  locks'["cleanup"] = [holder |-> q, fresh |-> TRUE]
    <3>1. q # r
      BY <2>1, <2>2 DEF Mid
    <3>2. node'[q] = node[q]
      BY <1>5, <3>1
    <3>3. CASE Mid(q)'
      <4>1. locks["cleanup"] = [holder |-> q, fresh |-> TRUE]
        BY <2>1, <3>2, <3>3 DEF LeaderHolds, Mid
      <4>2. locks["cleanup"].holder = q
        BY <4>1
      <4> QED
        BY <1>5, <3>1, <4>1, <4>2
    <3>4. CASE node'[q].stage = "asked" /\ locks'["cleanup"].holder = q
      <4>1. locks'["cleanup"] = locks["cleanup"]
        BY <1>5, <3>1, <3>4
      <4> QED
        BY <2>1, <3>2, <3>4, <4>1 DEF LeaderHolds
    <3> QED
      BY <2>2, <3>3, <3>4
  <2> QED
    BY <2>2 DEF LeaderHolds
<1>7. \A q \in Replicas :
         /\ node'[q].at \in Int
         /\ \/ node'[q].stage = node[q].stage /\ node'[q].due = node[q].due
            \/ /\ DOMAIN node'[q].due = {}
               /\ node'[q].stage \notin {"generate", "advance"}
               /\ interrupted' \/ node[q].stage # "advance"
         /\ node'[q].due = node[q].due => node'[q].at = node[q].at \/ DOMAIN node[q].due = {}
  BY <1>5 DEF GenInv, GenShape
<1> QED
  BY <1>5, <1>6, <1>7, GenInvBetween

\* A lock that runs out is nobody's, or the interruption is known (Lapse,
\* SlowTick).
LEMMA RunningOutKeepsGenInv ==
    GenInv /\ Shape' /\ (SlowTick \/ \E id \in LockIds : Lapse(id)) => GenInv'
<1> SUFFICES ASSUME GenInv, Shape', SlowTick \/ \E id \in LockIds : Lapse(id)
             PROVE  GenInv'
  OBVIOUS
<1>1. UNCHANGED <<clock, nextRun, generated, node>> /\ (~ interrupted' => ~ interrupted)
  BY DEF SlowTick, Lapse
<1>2. ASSUME ~ interrupted' PROVE LeaderHolds'
  <2>1. PICK id \in LockIds : Lapse(id)
    BY <1>2 DEF SlowTick
  <2>2. LeaderHolds
    BY <1>1, <1>2 DEF GenInv, Undisturbed
  <2>3. CASE id = "cleanup"
    <3>1. \A q \in Replicas : locks["cleanup"].holder # q /\ locks'["cleanup"].holder # q
      BY <2>1, <2>3, SchedulerAssumption DEF Lapse, RunsOut, GenInv, Shape, LockIds
    <3>2. ASSUME NEW q \in Replicas, Mid(q) PROVE FALSE
      <4>1. locks["cleanup"] = [holder |-> q, fresh |-> TRUE]
        BY <2>2, <3>2 DEF LeaderHolds
      <4> QED
        BY <3>1, <4>1
    <3> QED
      BY <1>1, <3>1, <3>2 DEF LeaderHolds, Mid
  <2>4. CASE id = "scheduled-backup"
    <3>1. locks'["cleanup"] = locks["cleanup"]
      BY <2>1, <2>4 DEF Lapse, RunsOut, GenInv, Shape
    <3> QED
      BY <1>1, <2>2, <3>1 DEF LeaderHolds, Mid
  <2> QED
    BY <2>1, <2>3, <2>4 DEF LockIds
<1>3. \A q \in Replicas : node[q].at \in Int
  BY DEF GenInv, GenShape
<1> QED
  BY <1>1, <1>2, <1>3, GenInvBetween

\* Every step of the scheduler keeps the invariant of generation.
LEMMA GenInvStep == GenInv /\ Shape' /\ [SchedulerNext]_schedulerVars => GenInv'
<1> SUFFICES ASSUME GenInv, Shape', [SchedulerNext]_schedulerVars PROVE GenInv'
  OBVIOUS
<1>1. CASE Users
  BY <1>1, UsersKeepGenInv
<1>2. ASSUME NEW r \in Replicas, Works(r) PROVE GenInv'
  BY <1>2, AskingKeepsGenInv, ListingKeepsGenInv, GeneratingKeepsGenInv,
     AdvancingKeepsGenInv, StoppingKeepsGenInv DEF Works
<1>3. ASSUME NEW r \in Replicas, Dumps(r) PROVE GenInv'
  <2>1. /\ UNCHANGED <<clock, nextRun, generated, interrupted>>
        /\ locks'["cleanup"] = locks["cleanup"]
    BY <1>3 DEF Dumps, AskBackupLock, StartDump, EndDump, TakeLock, GenInv, Shape, LockIds
  <2>2. \A q \in Replicas : /\ node'[q].stage = node[q].stage
                            /\ node'[q].at = node[q].at
                            /\ node'[q].due = node[q].due
    BY <1>3 DEF Dumps, AskBackupLock, StartDump, EndDump, GenInv, Shape, Fields
  <2> QED
    BY <2>1, <2>2, GenInvAway DEF GenInv, GenShape
<1>4. ASSUME NEW r \in Replicas, AdvanceFails(r) \/ Crash(r) \/ Start(r) PROVE GenInv'
  BY <1>4, StoppingKeepsGenInv
<1>5. CASE Window
  BY <1>5, SchedulerAssumption, GenInvAway DEF Window, GenInv, GenShape
<1>6. CASE SlowTick \/ \E id \in LockIds : Lapse(id)
  BY <1>6, RunningOutKeepsGenInv
<1>7. CASE UNCHANGED schedulerVars
  BY <1>7, GenInvAway DEF schedulerVars, GenInv, GenShape
<1> QED
  BY <1>1, <1>2, <1>3, <1>4, <1>5, <1>6, <1>7 DEF SchedulerNext

\* As long as no tick outlives the lock and nothing fails between an expense
\* and its advance, no due window of a recurrence generates two expenses,
\* whichever replicas stop, start and take over (scheduler.go:3).
THEOREM GeneratedOnce == SchedulerSpec => []OnceUnlessInterrupted
<1>1. DumpInv => Shape
  BY DEF DumpInv
<1>2. GenInv => OnceUnlessInterrupted
  BY DEF GenInv, Undisturbed, OnceUnlessInterrupted
<1> QED
  BY <1>1, <1>2, DumpInvInit, DumpInvStep, GenInvInit, GenInvStep, PTL DEF SchedulerSpec
===============================================================================
