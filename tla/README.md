# Verification of goSplit

TLA+ models of goSplit (`src/`, a shared-expense server in Go), the TLC runs
that check them on small instances, and proofs for every value of their
constants. Paths below are relative to `src/internal/` unless they start with
`cmd/` or `docs/`.

1. [The system](#1-the-system)
2. [The modules](#2-the-modules)
3. [The runs](#3-the-runs)
4. [Fairness](#4-fairness)
5. [The proofs](#5-the-proofs)
6. [What the models leave out](#6-what-the-models-leave-out)
7. [Plan](#7-plan)

To check: `tlc -config X.cfg M` for the pairs in section 3, `tlapm M.tla` for
`SumLemmas` and the modules whose names end in `Proofs`.
`PROJECT.json` maps each definition to the source lines it stands for, each
property to the hazard it is about, and each property to a mutant of the model
that breaks it.

## 1. The system

One Go process, or several replicas on one PostgreSQL database (SQLite for a
single process), serve HTML pages. There is no cache of books in memory: every
request reads what it needs from the database and writes it back, with a
transaction per store method and none around a request. Whatever goes wrong
between processes goes wrong between two statements.

| Component | State | Operations | Talks to |
|---|---|---|---|
| Expense store (`store/expenses.go`) | `expenses` with a `version` column, `expense_participants`, `archived_*`, `expense_split_inputs` | insert, conditional update and deletion, conversion pairs, collapse | every service |
| Expense service and handlers (`service/expense_service.go`, `httpapp/handlers_expenses.go`, `handlers_convert.go`) | none; the version travels in the page | add, settle, settle all, convert, edit or move, delete | store, netting, notifications |
| Collapsing history (`service/archive_service.go`) | a list in the memory of one request | group and friend collapse | store |
| Recurrences (`service/recurrence_service.go`, `store/recurrences.go`) | `expense_recurrences.next_run_at`, a foreign key to the template row | create, delete, list due, generate, advance | store, scheduler, netting |
| Scheduler (`scheduler/scheduler.go`, `store/locks.go`) | `scheduler_locks`; next backup time in memory | tick, backup goroutine | recurrences, backup |
| Group netting (`service/netting_service.go`, `store/replan.go`, `balance/`) | netting rows in `expenses`; `groups.simplify_debts` | simplify, rewire, tidy up | store; called after settlements |
| Split engine and money (`split/`, `money/`) | none; what was typed is kept in `expense_split_inputs` | compute shares, parse, format, fill the form again | forms, recurrences |
| Backup and restore (`backup/`, `httpapp/handlers_backup.go`) | archive files, staging directories, pending jobs in memory, `.old` upload directory, maintenance flag | dump, prune, upload, confirm, apply, recover, restore at start | store, locks, file system |
| Accounts (`service/auth_service.go`, `admin_service.go`, `store/tokens.go`, `sessions.go`) | users, sessions, one-time tokens | register, log in, magic link, reset, change password, administer | store, mail |
| Friends, groups, import (`service/friends_service.go`, `import_service.go`, `store/friends.go`, `groups.go`) | friendships, groups, memberships, invited accounts | befriend, unfriend, hide, create, invite, flag, import from Splitwise | store; expenses outside a group befriend people |
| Notifications and push (`service/notify_service.go`, `store/notifications.go`, `push/`) | notifications, subscriptions | record, deliver, read, age, prune | after most writes |
| Rates, bank feeds, profile, pages, configuration | caches and single rows | reading, one-statement writes | outside services |

What is hard, and what makes each part correct:

- **Two people edit one row.** The row carries a version, the page carries the
  version it was rendered from, and a write is conditional on it. Correct
  means: what a page replaces or deletes is what its user saw; a decision made
  on a read still holds at the write; the two rows of a conversion go together.
- **A request is several statements.** Collapsing reads row by row; the
  typed-in inputs of a split are recorded after the save has committed; a
  settle-all computes transfers and records them one at a time.
- **Netting rewrites balances while others record expenses.** Correct means it
  never changes what anybody owes in total, and that the stored pairs end up as
  the group's page shows them.
- **Replicas stop, take over and wait for a lock that runs out by itself.**
  Correct means nothing is generated twice, no two dumps run at once, and nothing
  that is due is forgotten.
- **Restoring replaces the database in one transaction and the uploads by
  renames**, with a crash possible between any two of them, and through
  directories whose names are fixed, so that every restore on the volume, from
  the page, the command line or the start of the server, uses the same ones.
  Correct means rows and uploads of different archives are never left side by
  side unnoticed, and what the instance held can always be got back.
- **Archives are written beside each other and beside the instance.** Dumps,
  prunes, sweeps and restores share one directory, and uploads are written and
  removed while a dump walks over them. Correct means that what has an archive's
  name is whole and of one moment, and stays as long as promised.
- **Accounts are guarded by statements without a transaction.** A link is
  selected, then deleted; a password is set, then the sessions are deleted; an
  address is looked up, then inserted. Correct means what was reported as revoked
  stays revoked, a link serves one request, and nobody becomes an administrator
  by an address that is not theirs.
- **Friendships and groups have halves.** Two inserts make a friendship, two make
  a group with its first member, dozens an import.
- **Notifications come after the commit**, from what is read again, and are
  delivered in the background. Correct means everybody concerned is told, of
  what happened.
- **Money is whole numbers.** Shares do not divide the total, typed percentages
  are rounded, people have left: the rows must add up to nothing and the form of
  an expense must come back with what was typed.

`PROJECT.json` lists these as hazards at their lines, with the properties that
cover them. Two have none: the direction of a settlement, which is read before
the transaction that records it (section 6), and a server that stops during the
automatic restore, whose lock the next start waits for.

## 2. The modules

```
Ledger  <--(refined by)--  ExpenseStore <- Editing <- History
History, Ledger, SumLemmas <- BooksProofs
Balance <- GroupBooks
Balance, Split <- MCBalance
GroupBooks, MCBalance, SumLemmas <- BalanceProofs
Scheduler <- SchedulerProofs
Restore <- RestoreJobs <- RestoreProofs
Archives, SumLemmas <- ArchivesProofs
Accounts <- AccountsProofs
People <- Notices
Notices, SumLemmas <- NoticesProofs
```

**ExpenseStore** is the table: `status` (unborn, live, deleted, archived),
`version`, `body` (the remaining columns with the participant rows) and `into`
(the archive's pointer to the summary). Each operator is one statement or one
transaction of `store/expenses.go`. `UpdateExpense` does not look at
`deleted_at`, as in the code: only the version keeps an edit from rewriting a
deleted row. `SoftDeleteConversion` takes the other leg with it.

**Editing** adds browser tabs (`Sessions`). `at` says what a tab waits for,
`token` the version its page posts. `base` (the row when that token was given
out) and `informed` are history. A handler is two actions, `PostX` (read and
decide) and `CommitX` (the conditional write), because other requests run in
between; the handler's read and the service's second read, which repeat the same
checks, are one. `Accepts`, `MayMove`, `MayRewriteSettlement` and
`CanEditExpense` are the code's checks, including that an admin who is not a
party stands behind the payer. A refused post goes back to the form with the
version just read; so does a conflict, but with a warning (`informed`).

**Ledger** is the abstract specification: documents and pages, no versions, no
statements. A page replaces or deletes its document only while the document is
what the page shows; kind, creator and link stay; conversions come and go whole;
a collapse moves documents to the archive and never takes a conversion. Editing
and History are shown to implement it with `doc <- Snapshot`, `about <- target`,
`shown <- base`.

**History** adds the two other things that hold on to rows. A collapse is
`ArchiveGroup` or `ArchiveDirect` (list), `GetParticipants` (one read per row),
`Collapse` (one transaction per batch, which re-reads nothing). A recurrence
keeps its template in the table by a foreign key, on which a late collapse fails.

**Balance** is the arithmetic of `balance/` for one currency, as operators:
`Simplify` is the two-pointer loop over creditors and debtors, as a recursive
function; `Rewire` gives the entries that turn a group's pairs into the
simplified debts.

**Split** is what lies between a form and the rows of an expense, both ways, as
operators: `Parse` and `Format` on digits; `Accepted`, `BaseShares`,
`DistributeRemainder` and `Finalize` for the five methods, in integers that wrap
at `MaxInt`; `PrefillEdit`, which fills the form again from the recorded inputs or
from the rows; and `GenerateOne`, the expense a recurrence makes. The seeded
order of the remainder is a permutation: any, and the same one for the same base
shares and date. `MCBalance` records the rows of a form in the balances of a group
and goes on with netting and payments from there.

**GroupBooks** is one group. A settlement is a statement of its own, followed by
a look at the group's flag and then by a pass: lock the group's row, read, write
all entries at once. `LockGroup` and `PlanPass` are separate because ordinary
inserts do not take the lock; on SQLite, which has one connection, a subset of
these interleavings happens. `Fail` ends a request anywhere. `late` and
`excused` are history: who was overtaken, and whether a write that the code
does not follow with a pass (an expense, the toggle, a failed request) has
happened since the last undisturbed pass.

**Scheduler** is every replica's loop. Time counts cron windows. A tick is
`Tick` (the upsert on the lock), `ReadHolder` (the `SELECT` that says who leads),
`ListDueRecurrences`, then `generateOne` and `AdvanceRecurrence` per recurrence,
then `maybeBackup`; the backup's goroutine is `AskBackupLock`, `StartDump`,
`EndDump`. A lock is held by a name and is fresh or has run out. It runs out
when its holder is gone or, for the backup's, has stopped renewing it (`Lapse`);
a tick longer than the lock is a fault (`SlowTick`), like a crash and a failing
update.

**Restore** is one volume: `rows` (whose rows the database holds, and the last
ordinary write to them), the upload directory `live` with its siblings `staging`
(`.restore`) and `old` (`.old`), each a set of files or missing, and `dumps`, the
safety dumps of each directory (`DumpDir`: `BACKUP_DIR`, or the automatic restore's)
in the order of their names, each a copy of the rows and the uploads. A dump made
within the second of the last one has its name and takes its place (`Saves`). `op` is
what each process is doing. A restore is
`PrepareStaging`, `ExtractUpload` per file, `Validated`; then `CheckStaging`,
`SafetyDump`, `ApplyTx` and the swap, one action per file operation (`ClearOld`,
`MoveAside`, `PlaceStaged` or `PutBack`, `RemoveOld`). `RecoverIncompleteSwap` is
the repair at the next start, of a server or of a command.

**RestoreJobs** says who restores. A process of `Web` is an upload on the backup
page: `DiscardAllPending` (the tracker is emptied under its lock, the directory
deleted after), validation, `StagePending`, then `Confirm` and a job, or the
janitor (`Prune`). `restoreInProgress` is the flag of the maintenance gate, set
and cleared by the job. `Cli` is `gosplit restore`, with or without `--force` and
`--no-pre-dump`; it knows nothing of the flag. `Boot` is the start of the server:
recovery, directories, the automatic restore under its lock, the marker, and
only then serving. Ordinary requests write if they passed the gate, at any time
later; the scheduler does not pass it, neither when it writes nor when it removes
safety dumps beyond `Keep` after its backup (`PruneOldArchives`, one removal at a
time; nobody prunes the automatic restore's directory). `Crash` stops the server, `KillCommand`
the command, between any two steps; `Fails` is a dump or a transaction that
fails. `events` is history: what happened that explains a state which would
otherwise be wrong (an error was reported, two restores mixed, no dump was asked for, a dump
was pruned or replaced).

**Archives** is the directory of archives. A dump is its writes: `DumpToDir`
opens (and truncates) the `.partial` of its name, `Snapshot` is its first query,
`DumpTable` and `ArchiveUpload` one sealed block each, `WriteManifest` the final
one, `Rename` gives it its name. `inodes` are the blocks of a file, each with the
dump that sealed it and its place, since two dumps of one prefix and second write
into one file at their own offsets. `Opens` and `VerifyComplete` are what a reader
accepts. `ListArchives` and `RemoveArchive` are the scheduler's prune after its
dump, `SweepStalePartials` the janitor. The restore on the command line reads
twice, with everybody else in between: `Scan` checks everything and stages the upload
blocks (`staged`); `ForEachRow` asks only what `StillReads` says (the same header,
frames that open, all tables; the uploads are not counted again) and commits the
table blocks (`rows`); then `SwapUploads`. Uploads are created, written and named by a row in
three steps. `live` is the database after each commit; `torn` is history.

**Accounts** has every request as its statements, one step each: `req` holds what
it has read and what comes next. Signing in is `LoginPassword`, `PromoteAdmin`,
`SetSession`; a link is `FindToken`, `SpendToken` (or `DiscardToken`), `FindByEmail`,
`MarkEmailVerified`; a new password `SetPassword`, then `DeleteUserSessions`; an
administrator's request begins with `Authenticate`. Whatever error the code ignores
is a choice in the action; `Fails` ends a request at any other. The history
variables say what a session, a link and a promotion may be excused by: `epoch`
counts the passwords of an account, `rivals` are the requests that had found a
link before it was spent, `proved` and `given` the addresses an account was
reached at or given.

**People** makes the same of friends, groups and imports, but a request is the
list `todo` of the statements it still has to run, which its handler writes down
(`AddFriendByEmail`, `ImportFromSplitwise`, ...) and one action per statement
executes (`InsertFriend`, `InsertFriendBack`, `FindGroup`, `InsertGroup`, ...).
What Splitwise answers is a constant. **Notices** extends it with the expenses:
who takes part, version by version, what was typed for the split (`inputs`), and
who is told. A conversion is its check and its transaction (`CreateConversionPair`,
one row standing for both legs), and tells nobody. Any other save is its check, its transaction (`Insert`, `Update`,
`SoftDelete`), `RecordSplitInputs`, the reads of what is told (`Reads`) and
`CreateNotifications`, one transaction for all; then the request is answered and
its `delivery` runs on its own (`ListPushSubscriptions`, `Send`, `Stops`).

**MC modules** give the constants their values. **Proof modules** are in section 5.

## 3. The runs

| Run | Module, cfg | Shows |
|---|---|---|
| `editing` | MCEditing | `TokenNamesRow`, `SaveDecided`, `ConversionWhole`, `WritersArePartiesNow`, `ImplementsLedger` |
| `history` | MCHistory | `TemplatesStay`, `UndisturbedCollapseKeepsNets`, `ImplementsLedger` with collapses and recurrences |
| `balance` | MCBalance | `SimplifyIsOverlap`, `SuggestionsAreFair`, `RewireOnce`, `PayingDrawsNobodyIn` for every table of balances; `SplitIsExact`, `UntouchedEditMovesNothing`, `FormStaysValid`, `ParsedIsTyped` for every form |
| `group_books` | MCGroupBooks | `NettingIsNeutral`, `PairsAsShown`, `SettleAllClears`, `TidyOnlyClears` |
| `scheduler` | MCScheduler | `OnceUnlessInterrupted`, `OneDumpAtATime`, and the liveness property `DueIsHandled` |
| `restore` | MCRestore | `MixIsKnown`, `OriginalsKept`, `WayBack`, `GateClosed`, `PendingIsStaged` |
| `archives` | MCArchives | `FinalsAreWhole`, `ArchiveIsOneMoment`, `PassesAgree`, `WrittenIsKept` |
| `accounts` | MCAccounts | `ChangeEndsSessions`, `LinkServesOnce`, `PromotedAddressWasProved` |
| `people` | MCNotices | `FriendshipIsMutual`, `GroupsAreWhole`, `NobodyIsMissed`, `NoticesAreTrue`, `InputsDescribeRow` |
| `silent_overwrite` | MCEditing, SilentOverwrite.cfg | **violated**: `NoSilentOverwrite` |
| `exactly_once` | MCScheduler, ExactlyOnce.cfg | **violated**: `OncePerDueWindow` |
| `mixed_restore` | MCRestore, Mixed.cfg | **violated**: `RestoresWhatWasStaged` |

The violated properties each state what a comment or a page of the docs says of
the program, and the counterexample is a run of the code:

- *silent overwrite.* A form that comes back with an input error carries the
  version of the row as it is by then, not the one posted, so the corrected save
  replaces a change its user never saw (`docs/architecture.md:112`).
- *exactly once.* A stop, a failing update or a tick slower than its lock falls
  between an expense and the update of its recurrence, and the window is
  generated again (`docs/features.md:221`).
- *mixed restore.* A restore checks its staged uploads once, then dumps and runs
  its transaction, and only then renames the directory into place. An upload on
  the page or a command (even one that only validates) prepares the same
  directory in between: the restored rows are committed, another archive's files
  or an empty directory are put in place, and the restore reports success
  (`docs/backup-restore.md:196`).

The weaker properties that do hold beside them say how far the promise goes:
`TokenNamesRow` and `ImplementsLedger`, `OnceUnlessInterrupted`, `OneDumpAtATime`,
and the properties of `restore`. Each of these names its excuses:

- `OriginalsKept`: a safety dump has the uploads until retention removes it and leaves
  `BACKUP_RETENTION_COUNT` of its kind (`backup/prune.go:30`,
  `docs/backup-restore.md:145`), or a dump of the same second takes its name
  (`backup/dump.go:180`); and none has them if a restore skips its dump. That restores
  mix is no excuse, and the run goes on where they do.
- `MixIsKnown`: unless two restores mix, rows and uploads disagree only after an error that says so, or
  after a stop between the commit and the first rename, which
  `docs/backup-restore.md:159` admits and the comment at `backup/recovery.go:22`
  ("the database is untouched") does not.
- `WayBack`: unless two restores mix, the rows one replaces are in a safety dump, except for writes
  between the dump and the transaction that the gate does not hold back: a
  request that had passed it, the scheduler, and anything during a command.
- `GateClosed`: the end of one job opens the gate for the rest of another.
- `PendingIsStaged`: two uploads validated at the same time, or a command, leave
  a pending upload without its files; `CheckStaging` then refuses the restore.

Other properties carry the exception in their own statement, where a comment in
the code leaves it out:

- `UndisturbedCollapseKeepsNets`: `service/archive_service.go:44` has a collapse
  keep everybody's net. A row edited, moved or deleted between its reads and its
  write is archived with old figures.
- `SettleAllClears`: `httpapp/handlers_expenses.go:1132` has a settle-all record
  what is owed. Two that overlap read the same balances, and both record.
- `InputsDescribeRow`: `store/expenses.go:349` drops what was typed for a split
  that is replaced. A save that committed before another may record its inputs
  after it; a recurrence then splits its expenses by them
  (`service/recurrence_service.go:128`).
- `FinalsAreWhole`: `backup/dump.go:168` has no half-written archive under a final
  name. Two dumps of one prefix that begin in one second share a `.partial`, and
  `httpapp/handlers_backup.go:138` takes no lock; what the first renames is still
  being written. With a third in that second, the second, whose own file has been
  renamed away, renames the third's, which nobody shares: so the exception is for
  the name and not for the file. (An attempt to prove the property for unshared
  files found this; a run with three dumps confirms it.) A reader refuses such a
  file: `ArchiveIsOneMoment` has no exception.
- `GroupsAreWhole`: an import is "Idempotent per Splitwise group id"
  (`service/import_service.go:30`) unless two overlap. A group whose creation
  failed half-way has no member and cannot be reached; an import of the same
  Splitwise group mends it.
- `NobodyIsMissed`: a conversion is answered as done and records shares for two
  people, and neither is told (`service/currency_service.go:81`); its deletion is told
  like any other. Otherwise only failures excuse: notifications that could not be
  recorded (`service/notify_service.go:65`), and a settle-all that failed part way
  (`service/expense_service.go:240`).
- `FriendshipIsMutual`: `store/friends.go:17` inserts the halves one by one, and a
  failure or a removal between them leaves one.

### What else came up

- *Simplify.* It does not always find the fewest transfers, as
  `balance/simplify.go:3`, `httpapp/handlers_expenses.go:1113` and
  `docs/features.md:81` have it: creditors of 5, 3, 3 and debtors of 6, 5 get four
  transfers where three do (5 to 5, and 6 to 3 and 3). Paying one suggestion can
  make the list that is shown next longer: with creditors of 6, 6, 4, 3 and
  debtors of 8, 4, 4, 3, paying the first turns five transfers into six. What does
  hold is `PayingDrawsNobodyIn`.
- *Split.* Somebody with 0 % or weight 0 can receive a unit of the remainder.
  Where percentage or weight times total overflows (`split/split.go:153`, `192`)
  the rows still add up to nothing, but are not fair. Where a sum of typed numbers
  overflows, rows add up to nothing only modulo 2^64, and weights whose wrapped sum
  falls below their common divisor end the request in a division by zero
  (`Computable`). The form of an equal split
  derived from the rows leaves out a payer whose share is 0. Exact amounts
  derived from rows are not adjusted to people who have left, and derived
  percentages of a refund or of a total of 0 need not be accepted again.
- *Accounts.* The mark of a verified address belongs to the account and stays
  when an administrator changes the address. A login that has read the old
  password may still open its session after the change was reported. A link
  whose deletion fails serves again.
- *Notifications.* Whoever an edit takes out of an expense is not told. A
  settle-all that fails part way keeps the settlements recorded so far and tells
  nobody; a request whose notifications fail is answered as done. The name and
  currency told may be of a later save than the amounts.
- *Friends.* Two toggles of hidden friends at once lose one
  (`service/friends_service.go:69`).
- *Scheduled backup.* Its next time is in each replica's memory, so a replica that
  takes over after the window was backed up, when the lock of that dump has run
  out, backs it up again. `scheduler/scheduler.go:51` relies on the lock to prevent
  that; it costs one more file.
- *Recurrences.* `CreateRecurrence` accepts a row that was deleted after its form
  was opened (`service/recurrence_service.go:25`), and the recurrence generates
  from it.

### Bounds

| Run | Instance | Why it is enough |
|---|---|---|
| `editing` | 3 users (1 admin outside the group), 1 group, 2 currencies, 3 drafts, 2 rows, 2 tabs, `MaxVersion` 4 | Two rows make a conversion; two tabs make every race on a row; four versions allow an edit, a conflict, another edit and a deletion; the drafts move money in and out of the group and between currencies, and give or take a user's part in a row. Rows are symmetric. |
| `history` | 2 users, 1 group, 3 rows, 1 tab, 1 collapse, `MaxVersion` 2 | Two origins and the row that replaces them; a second collapse would need rows of its own and meets the first only through the tab's kind of writes. Rows are symmetric; users are not, since the lowest id breaks ties. |
| `balance` | 4 users, each of the 6 pairs from -2 to 2; bills of at most 3 splitters, 6 totals from -8 to 250, typed values per method that add up, fall short and leave remainders; `MaxInt` 1048575 | Chains, cycles, ties and a second creditor and debtor at once; steps lead on to tables beyond the bound. Three people make every remainder of the loop with a first, a middle and a last; all their permutations are tried. With `MaxInt` so low, products and typed amounts do overflow. The order of user ids breaks ties, so there is no symmetry. |
| `group_books` | 3 users, 1 expense, amount 1, 2 requests, at most 2 settlements in the books or on their way | Three people are the least for which netting links two who had no balance; two requests make every overlap of passes and payments. Requests are symmetric. |
| `scheduler`, `exactly_once` | 2 replicas, 1 recurrence, 2 windows, 1 fault | A leader and the one that takes over; a window missed and the one after it. Larger instances are covered by the proofs. No symmetry, as liveness is checked. |
| `restore`, `mixed_restore` | 2 uploads, the command line and the start of the server; archives with uploads {1} and {1, 2} and one that does not validate; 1 ordinary write, 2 uploads or commands in all, 2 stops or failures (1 in `mixed_restore`) | Two restores besides the automatic one make every overlap; two stops cut a restore and the repair of it. One archive's files are a part of the other's, so a staging directory can be right by half. `Keep` is 1, so every dump after the first may be the one that retention removes the first for. Uploads are symmetric. Where two restores mix, most of the properties say no more: `restore` goes on from there for `OriginalsKept`, with one stop or failure at most, without ordinary writes, which have no bearing on uploads, and without dumps of the automatic restore, which nobody prunes (`CONSTRAINT Followed`). `mixed_restore` has no automatic restore and no constraint. |
| `archives` | 2 dumps, 1 uploaded file, 2 tables, `Keep` 1, 2 seconds, 3 commits | Two dumps share a name or follow each other and prune; two tables can be of two moments; one file comes, is named and is taken away by a restore. |
| `accounts` | 2 requests, 3 accounts (a member, an administrator, one to come), 3 addresses (1 in `ADMIN_EMAILS`), 2 passwords, 2 links | Every pair of requests overlaps at every statement, from an address in `ADMIN_EMAILS` or not, verified or not. Three requests are more than TLC finishes; the theorems hold for any number. Requests are symmetric. |
| `people` | 3 users (1 without an account), 2 requests, 3 groups, 3 rows, 1 browser, 1 Splitwise group and friend | Two requests overlap at every statement; an import, an invitation and an expense meet on the same people. Requests are symmetric. |

`MaxVersion`, `MaxPayments`, `MaxWindows`, `MaxWrites`, `MaxStarts`, `MaxFaults`,
`MaxTime` and `MaxCommits` are the only bounds on counters, each in a guard;
`Accounts`, `People` and `Notices` have none, as each request is served once. `CHECK_DEADLOCK FALSE` is set where the bounds let a
model stop: nothing is left to do when rows, payments, windows, starts or requests are used up.

## 4. Fairness

Only `Scheduler` states fairness; everything else is safety. `DueIsHandled`
assumes

- `WF(Works(r))` for each replica: a running process executes the next statement
  of its tick, and ticks again (`time.Ticker`, `Run`);
- `WF(Start(r))`: a process that stopped is started again, which
  `docs/deployment.md` leaves to the container's restart policy;
- `WF(Lapse("cleanup"))`: time passes, so a lock nobody renews runs out.

Crashes, slow ticks and failing updates have no fairness and are bounded in
number: a system that fails for ever handles nothing. Opening windows and users
have none either.

## 5. The proofs

`tlapm` proves, for any number of users, tabs, rows, drafts, replicas,
recurrences, windows, faults, accounts, links, requests, restores, dumps, uploads,
tables, amounts, bills, settlements and groups, and from the named assumptions on
the constants alone:

| Theorem | States |
|---|---|
| `BooksProofs!Types` | `TypeOK` of `Editing`, which no run repeats |
| `BooksProofs!VersionsNameRows` | `TokenNamesRow` |
| `BooksProofs!DecisionsStand` | `SaveDecided` |
| `BooksProofs!ConversionsStayWhole` | `ConversionWhole` |
| `BooksProofs!WritersAreParties` | the action property `WritersArePartiesNow` |
| `BooksProofs!Implementation` | Editing implements Ledger |
| `SchedulerProofs!DumpsNeverOverlap` | `OneDumpAtATime` |
| `SchedulerProofs!GeneratedOnce` | `OnceUnlessInterrupted` |
| `AccountsProofs!AccountInvariant` | `AccountInv`, on which the next ones rest |
| `AccountsProofs!ReportedChangeEndsSessions` | `ChangeEndsSessions` |
| `AccountsProofs!LinksServeOnce` | `LinkServesOnce` |
| `AccountsProofs!PromotionsAreProved` | `PromotedAddressWasProved` |
| `BooksProofs!TemplatesAlwaysStay` | `TemplatesStay` |
| `BooksProofs!HistoryImplementsLedger` | History implements Ledger |
| `BooksProofs!HistoryTypeCorrect` | `TypeOK` of `Editing` with collapses and recurrences |
| `BooksProofs!CollapsesKeepNets` | the action property `UndisturbedCollapseKeepsNets` |
| `RestoreProofs!JobsInvariant` | `JobsInv`, on which the next ones rest |
| `RestoreProofs!GateStaysClosed` | `GateClosed` |
| `RestoreProofs!ThereIsAWayBack` | `WayBack` |
| `RestoreProofs!OriginalsAreKept` | `OriginalsKept` |
| `RestoreProofs!MixesAreKnown` | `MixIsKnown` |
| `RestoreProofs!PendingStaysStaged` | `PendingIsStaged` |
| `RestoreProofs!RestoredAsStaged` | `RestoresWhatWasStaged`, unless two restores mix: what `mixed_restore` refutes without that excuse |
| `ArchivesProofs!ArchivesShape` | `Shape`: what every variable holds and how far a dump is |
| `ArchivesProofs!PassesNeverDiverge` | `PassesAgree` |
| `ArchivesProofs!NewestAreKept` | `WrittenIsKept` |
| `ArchivesProofs!ArchivesAreOneMoment` | `ArchiveIsOneMoment` |
| `ArchivesProofs!ArchivesAreWhole` | `FinalsAreWhole` |
| `BalanceProofs!GroupInvariant` | `GroupInv`, on which the next four rest |
| `BalanceProofs!PassesAreNeutral` | `NettingIsNeutral` |
| `BalanceProofs!RestingPairsAreShown` | `PairsAsShown` |
| `BalanceProofs!SettlingAllClears` | the action property `SettleAllClears` |
| `BalanceProofs!TidyingOnlyClears` | the action property `TidyOnlyClears` |
| `BalanceProofs!BalanceInvariant` | `BalanceInv`: balances and forms are of their types |
| `BalanceProofs!RewiringOnceIsEnough` | `RewireOnce` |
| `BalanceProofs!SuggestionsFair` | `SuggestionsAreFair` |
| `BalanceProofs!PayingSettles` | the action property `PayingDrawsNobodyIn` |
| `BalanceProofs!SplittingIsExact` | `SplitIsExact`, while no sum of what is typed leaves int64 (`Fits`) |
| `BalanceProofs!SimplifyLosesNothing` | `SimplifyIsOverlap` |
| `BalanceProofs!ReadAsTyped` | `ParsedIsTyped` |
| `BalanceProofs!ReSavingMovesNothing` | `UntouchedEditMovesNothing`; for an adjustment while no sum of it and no share leaves int64 (`Fits`, `ShownFits`) |
| `BalanceProofs!FormsStayValid` | `FormStaysValid`, while no sum, no difference and nothing that is shown leaves int64 |
| `NoticesProofs!NoticesInvariant` | `BookInv`, on which the next ones rest |
| `NoticesProofs!TypedIsOfTheRow` | `InputsDescribeRow` |
| `NoticesProofs!EveryoneHears` | `NobodyIsMissed` |
| `NoticesProofs!NoticesTellTruly` | `NoticesAreTrue` |
| `NoticesProofs!FriendshipsHold` | `FriendshipIsMutual` |
| `NoticesProofs!GroupsHold` | `GroupsAreWhole` |

The assumptions say that bounds are natural numbers, that ids, names and absent
values are distinct (no upload is named as a table or a part of an archive is, no
set of files is the missing directory), that there is a table to dump, and, in
`History`, that there are finitely many rows and users, without which a sum over
them means nothing. For the same reason users are finitely many whole numbers in
`Balance` (ids that can be compared, as the code does to break ties); a person has
finitely many browsers and Splitwise finitely many groups, since a list is made of
each. What is typed into a form are whole numbers between -(2^63 - 1) and 2^63 - 1,
which is what `money.Parse` returns; for an equal split nothing is typed. Text is a
sign and digits.

**Editing.** None of the properties is inductive: that a deletion was decided
rightly is only known because the row still has the version the decision was
made on. The invariant `Inv` has two parts. `RowsOK`: rows are formed and linked
as conversions are. `SessionOK(q)` for each tab: its version is not ahead of the
row's, and while it equals the row's, the row is the one the tab was given and
satisfies what its request decided. A tab's own steps establish it. For the steps
of others it is enough that every write makes a row, raises its version or takes
it out of the table (`Advance`), shown once and used for every action.

**Ledger.** `Implementation` maps each step to one of the ledger or a stutter.
`SessionOK` does the work: a conditional write on a number is, under the
invariant, a comparison of contents.

**Dumps.** `DumpsHoldLock`: a replica that dumps is named by a fresh lock, and
one that has asked and is named by it sees it fresh. A lock has one name.

**Generation.** `GenInv` has a part that always holds (`GenShape`: a list exists
only while it is worked off) and a part that holds until an interruption: a
replica in the middle of a tick is named by a fresh lock, hence the only one;
what it has listed is still due as listed, or deleted; a window with an expense
lies behind its recurrence or is the one `AtHand`, between the expense and its
advance. The last is why the plain statement is not inductive: generating twice
is excluded only by knowing that a second list is made after the first was
worked off. `Current` takes the least id of a list; that there is one follows
from the well-foundedness of the naturals.

**Accounts.** `AccountInv` has the types, what a request has at each step
(`StepOK`), and why the sessions a change deletes do not come back: a request that
has set a password goes on to the deletion or is refused (`ChangeOK`), and whoever
is on the way to a session from a row read before the password was set is among
those noted when it was (`ReadersOK`). Without the last, `ChangeEndsSessions` is
not inductive, since the session of such a request does not exist yet.
`LinkInv`: a link that was spent is gone unless its deletion failed, and of any
two that have found it one found it while the other held it. `PromotionInv`: an
account marked verified was reached at an address, and has it or one that an
administrator gave it; so has the account of every request that came by a link
and is about to mark or promote it. `Quiet` and `Settled` say once what most steps
leave alone, and each theorem then looks at the few that do not.

**History.** `HistoryInv` adds to `Inv` of Editing that no listed row is a leg of a
conversion (`BatchOK`). That is what a collapse needs to leave conversions whole,
and it is stable because no edit turns a row into a leg. `HistoryTypes` adds that
what a batch has read are amounts. `CollapsesKeepNets`: every net is a sum over the
rows of the table, a collapse takes some rows out and puts one in per currency,
and what that one holds is the sum of what they held, if they are as they were
read (`SumReplaced`).

**Sums.** `SumFunctionOnSet` of the community modules picks the elements of a set in
an order it does not say. `SumLemmas` shows that such a function exists for every
finite set and that the order does not matter. Induction on the size of the set is
out of the prover's reach; instead, if a claim failed for some subset it would
fail for a smallest one (`SmallestSet`, from the well-foundedness of the strict
subsets), and from there the argument is a single step. `SetInduction` and
`NumberInduction` are that argument with the claim given as the set of the subsets,
or numbers, it holds of, which is how the other modules use it. The same lemma gives
`BooksProofs` somebody whose net nobody's exceeds, who pays for a summary, and
`ArchivesProofs` the newest of the archives to be removed, whose newer ones all stay.

**Restore.** `JobsInv` has one part per question. `Roles`: which process can be at
which step. `JobGate`: two jobs at a time have been noted. `Copies`: whoever is
about to replace the rows has them in the newest dump of a directory, or an excuse;
retention leaves the newest, and whatever is dumped after it or in its place has the
same rows. `Originals`: until some restore is past its dump the uploads are where they
were, afterwards they are in a dump; once retention has removed one it has left `Keep`
(`PrunedToKeep`), and dumps of that directory only become more until it removes again.
Restores that mix disturb none of this.
`Apartness`: while restores have not mixed, one that is past its checks has its
own archive staged, and from the commit on the rows are of that archive; rows and
uploads disagree only where a swap was cut, and the directories show it
(`SwapWasCut`), or an error has been reported. `Staging`: with one upload at a time
and no command, what is staged is what the pending upload needs. For mixing
restores the invariant was checked by TLC before it was proved.

**Archives.** Two dumps may write into one file, so nothing can be said of a file
as a whole. `Places` speaks of its blocks: each was written by a dump that has
seen the database, at a position that dump has behind it, and is what belongs
there. Hence a dump never writes a position twice, whatever others do to the
file, and no block can be taken for another's or for an earlier one of its own.
`Carries` follows the upload of the row a dump has seen, from the directory to the
dump's list and from there to its blocks; `EndIsTrue` says that wherever the final
block of a dump lies, the block with that upload lies before it, if it is the
dump's at all. A reader accepts only a file whose blocks are all of one dump, and
has it then. `Reading`: what a restore holds from its first reading stays what `Scan` accepted, of
the dump of its header, while others change files and names (`PassesAgree`); the second
reading is of a file whose blocks open, hence of one dump, and the same header makes it
that dump, whose tables are of one snapshot wherever they were written. `Owners` says that files keep to one name, `Solo` that a dump which
shares its file with nobody has all of it, `Whole` that such a file is finished
before it gets its name. `Pruning`: one scheduled dump at a time lists and
removes; whatever it has doomed has `Keep` newer archives that it has not doomed, and
nobody else removes any, so they are there when it comes to be removed.

**Simplify.** `LoopInv` is the invariant of the loop of `balance/simplify.go`:
what is left in the queues and what was paid make up each net (`Accounted`), each
transfer stays within the nets of both its sides (`Within`), no two have the same
two sides (`SeenOff`, `Distinct`), and there are fewer transfers than people
(`Few`). The loop is a fold over a bound on its steps; `StepsExist` gives the
sequence of its states and `Shrinks` shows that the bound is enough. That the nets
of all people cancel (`NetsCancel`) is why both queues end empty. From this follow
that the suggestions leave every net as it is, that a second rewiring moves nothing,
and that paying one, which need not be the first, brings both nets nearer to zero.
`SimplifyIsOverlap` needs more than sums: it lays creditors end to end, and
debtors, and asks of each pair of people what their stretches have in common.
`Laid` says that a queue still begins where everything paid so far ends;
`MetNext` that what was paid between two people is what they have in common up
to there, so the next two to overlap are the first two left.

**Netting.** `GroupInv` relates the requests at work on one group to the books.
`InOrder`: who holds the group's row is at work on a pass, and only one can be.
`FreshPlan`: a plan is the one a pass would make now, as long as nobody else has
written since. `Settled`: every plan, and all entries so far, cancel for each
person, which is what keeps nets whole however passes and payments overlap.
`PassToCome`: where the stored pairs are not the simplified debts, a request
is on its way whose pass will see all that is in the books; and `OldPlanFollowed`:
who made a plan outdated has a pass to come. The last is why `PairsAsShown` is not
inductive: the pass that commits may have planned from old books, and what makes up
for it is a request that has not locked the row yet. `ToGo`: what a settle-all has
still to record is what people have still to get.

**Split.** Dividing leaves less than one unit per person, because each share is
rounded towards zero and the errors have one sign (`FairShares`); the remainder is
handed out by places, of which everybody has one (`FirstPlaces`, `ExtrasAdd`), so at
most one unit more goes to some. Shares add up to the total whatever the rounding
was (`SharesAddUp`), also where products overflow. What is
asked for is that no sum or difference leaves int64 (`Fits`), which every form that
the run `balance` records satisfies; with numbers near 2^63 the rows add up to
nothing only as 64-bit numbers do.

**The form again.** A shown amount is split into digits and read back
(`ShownIsRead`): no currency has more than three behind the point, so this is
arithmetic over 10, 100 and 1000, and not an induction over digits. Hence what is
posted untouched is what was shown (`PostedIs`). Inputs that were recorded add up
to their target, if only modulo 2^64, and the largest, moved by the difference
and wrapped, is where it was (`WrapShift`, `RebalancedSame`): they come back as
they were typed (`StoredComesBack`), and a recurrence splits by them again
(`GeneratedAgain`). From the rows, a form is filled with everybody's share; the
shares of an exact amount or an adjustment add up to the total, so nothing is left
to hand out and the same rows come of it, in whatever order
(`DistributeNone`, `DerivedComesBack`). This is where `Fits` is needed: of sums
that have wrapped, the rows do not tell what was typed. Percentages are worked out
from the rows by rounding down; together they come to no more than the whole
(`FloorsFit`), so closing the gap on the largest only adds, and none is
negative when it is posted (`PercentsAddUp`). When somebody has left, what is
left of exact amounts is moved to the new total on the largest of them (`StoredAccepted`),
and `ShownFits` asks that it can be shown. Every form that the run `balance` records
satisfies `Fits` and `ShownFits`.

**People and Notices.** A request is a list of statements, and what holds at a
statement depends on which come after it. `May` says in which order the kinds of
statements can stand in a list, once; `Sound` says for each request what its
remaining list tells of the rows it has read or saved, the page it will answer with
and what it has noted to tell. `BookInv` adds that typed inputs lie at a version of
their row (`InputsSound`), that every notification recorded is of what its request
saved (`NoticesSound`), and that a row's later saves know of inputs that are still to
come (`Awaited`): `InputsDescribeRow` excuses overlapping saves, and this is how it
knows that they overlapped. TLC checked `BookInv` on the run `people` before it was
proved. `FriendsInv`: half a friendship is owed by the request that put it in, or was
torn by one that failed or a removal that overlapped it. `GroupsInv`: who founds a
group has joined it, is about to, or failed (`FoundersJoin`); two groups made of one Splitwise
group were made by requests that overlapped (`RivalsKnown`). `Init` of `Notices` is any
database with nobody at work and sound rows; the run starts from one of these.

**Model-checked only.** Liveness (`DueIsHandled`) and fairness are outside the
prover. Beyond them, every property of a passing run is stated by a theorem.
Of forms so near 2^63 that `Fits` or `ShownFits` fails nothing is shown: the
theorems leave them out and no form of `balance` is one, though its `MaxInt` is low
enough for products and typed amounts to overflow.

## 6. What the models leave out

- Names, categories, notes, receipts, dates. A date decides which rows lie before
  a cutoff; the models let any nonempty set of them be listed.
- Who belongs to a group and who is related to whom change in `People` and are
  fixed in `Editing`; who may save what is in `Editing`, and in `Notices` any
  party may.
- `PostEdit` takes the handler's and the service's read of a row as one.
- Netting rows are written by `GroupBooks`; in `Editing` a pass shows as the one
  row of it that falls among the rows under study.
- Replicas have one clock. With clocks apart by more than a lock's remaining time
  two could lead at once; that is the `SlowTick` fault seen from the other side.
- `expenses.recurrence_id` has no foreign key, so it may name a recurrence deleted
  meanwhile; nothing but a collapse and a backup, which copy it, reads it.
- A settlement's direction is read before the transaction that records it. The
  debt can turn round in between; `GroupBooks` lets it, and its properties hold
  whatever the direction.
- Deleting a directory is one step, and so are recovery's look at the three
  directories and its repair. A single failing file operation other than a
  refused rename is left out. The safety dump of `Restore` reads rows and uploads at
  once and is complete when it is made, so dumps are in the order of their ends and
  not of their beginnings, and no receipts are uploaded while a restore runs. The
  writes of a dump, and two that meet in one file, are in `Archives`.
- One server takes part in a restore. Replicas that start together compete for
  the lock of the automatic restore; here it is only seen held under an earlier
  name. Limits on the entries of an archive are in `Sound`; compression and
  encryption are blocks that open only in their place (`Archives`).
- `Accounts`: sign-up is enabled, and a refusal where it is not is one of `Fails`;
  LIMITED accounts count as USER, since only who is an administrator matters.
  CSRF tokens, rate limits and the profile's names and languages are left out.
- `Notices` has what requests save. The expenses a recurrence generates
  (`service/recurrence_service.go:156`), netting entries and the rows of a collapse
  are not among its rows: nobody is notified of any of them. Nor is a conversion
  with oneself.
- `People` and `Notices`: the mail of an invitation, the rendering of a
  notification, and the override that lets an administrator edit (it is in
  `Editing`). `Store.RemoveGroupMember` and `UpdateGroup` have no caller.
- A second restore at the page beside the dumps of `Archives`: overlapping
  restores are in `RestoreJobs`.
- Components with status `not_modelled` in `PROJECT.json`, each with the reason:
  rates, bank feeds, pages, mail, configuration and scripts are calls to others,
  reading, formatting, or one statement on one row.

## 7. Plan

In this order; the first ten items are done.

1. ExpenseStore, Editing and the abstract Ledger: the books and the versions.
2. History: what else holds rows.
3. Balance and GroupBooks: settlements against netting.
4. Scheduler: replicas, locks, recurrences, the scheduled backup.
5. Restore and RestoreJobs: staging, the transaction, the swap, recovery; the
   page, the command line, the start of the server.
6. Split: forms, shares, and the form that comes back.
7. Archives: dumps, prunes and readers of one directory.
8. Accounts: links, sessions, passwords, administrators.
9. People and Notices: friends, groups, imports; who is told.
10. Proofs: every safety invariant and action property of a run that section 5
    does not list as model-checked only.
11. Recurrences made from rows that are deleted meanwhile, and the stop during an
    automatic restore, as properties of their own.
