# A TLA+ model of CCP

CCP is a preservation-processing server: packages (transfers, SIPs, DIPs) arrive,
and the server walks each one through a workflow document, link by link, sending
the work of most links to a pool of Python workers over Gearman and asking a person
at the links that need a decision. This directory models its control logic in
TLA+, checks small instances with TLC and proves, with TLAPS, the safety
properties for instances of any size. Paths below are relative to `src/`; client scripts are in
`worker/worker/clientScripts`.

| module | models | instance, proofs |
|---|---|---|
| `PackageLifecycle` | what the controller promises: an abstract specification | through `Controller` |
| `Controller` | `internal/controller/controller.go`: queues, `pick`, errgroup, waits, `Close` | `MCController`, `ControllerProofs` |
| `Decision` | `internal/controller/jobs_decision.go` and the locks of `controller.go` around a decision | `MCDecision`, `ControllerProofs` |
| `TaskBackend` | `internal/controller/task.go`, `jobs_client.go`, the answers of `worker/worker/client` | `MCTaskBackend`, `TaskBackendProofs` |
| `JobIterator` | `internal/controller/iterator.go`, `jobs*.go`, `chain.go`; the rows of `internal/store/mysql.go`; crash and clean-up | `MCJobIterator`, `JobIteratorProofs` |
| `WorkerPool` | `worker/worker/client`: pool, maintenance thread, signals, a batch from poll to answer | `MCWorkerPool`, `WorkerPoolProofs` |
| `PackageFiles` | the client scripts that name, extract, move and remove files; `Package.Files` and the paths the server gives to tasks | `MCPackageFiles`, `PackageFilesProofs` |
| `FileChecks` | the client scripts that look at files and record what they found | `MCFileChecks`, `FileChecksProofs` |
| `Normalization` | `normalize.py`, its retry, manual normalization | `MCNormalization`, `NormalizationProofs` |
| `Aip` | identifiers, METS, bag, compression, removal, verification, storage | `MCAip`, `AipProofs` |

## 1. Inventory

### Components, state, operations

- **Controller** (`controller.go`). State: `queuedPackages`, `activePackages`,
  `awaitingPackages` (decisions by package id), one `RWMutex` `c.mu`, an errgroup
  limited to ten goroutines with a cancellable context, two gauges. Operations:
  `Submit`, `Notify`, `queue`, `pick`, `deactivate`, `await`, `queueToAwait`,
  `dequeueFromAwait`, `ResolveDecision[Legacy]`, `Decisions`, `PackageDecisions`,
  the read-only listings, `Run` (a ticker) and `Close`.
- **Decision** (`jobs_decision.go`). State: the choices, a channel of capacity
  one, a `resolved` flag, an embedded `RWMutex`. Operations: `resolveWithPos`,
  `resolveWithChoice`, `await`, `convert`. Two job runners create decisions:
  `nextChainDecisionJob` (the choice is a chain) and `updateContextDecisionJob`
  (the choice sets replacements), unless the processing configuration answers.
- **Job iterator and jobs** (`iterator.go`, `jobs.go`, `jobs_local.go`, `chain.go`).
  State: the next link, the current chain and its context. One operation, `next`:
  load the chain, or save a job, run it, record its status, find the next link.
- **Client script jobs and task backend** (`jobs_client.go`, `task.go`). State:
  the current batch, the tasks sent, the results, one goroutine per batch.
  Operations: `submit`, `sendBatch`, `handleJobUpdate`, `wait`.
- **Store** (`internal/store/mysql.go`). Rows of Jobs, Tasks, Transfers, SIPs,
  UnitVariables, Files. The server repairs them at start (`RemoveTransientData`).
- **Packages** (`package.go`, `transfer.go`). The package object, its path, its
  status; asynchronous copy of a submitted transfer; files and replacements.
- **Watcher** (`servercmd/watcher.go`). One goroutine that turns directory events
  into `Notify`.
- **Server** (`servercmd/server.go`). Order of start and of shutdown.
- **Workflow document** (`internal/workflow`). Chains, links, exit codes, the
  processing configuration.
- **Worker pool** (`worker/worker/client/pool.py`, `mcp.py`, `loader.py`). State:
  one process per index and its scripts, the maintenance thread, the shutdown
  event, the signal handlers. Operations: start, replace, stop.
- **Gearman worker** (`gearman.py`, `worker.py`, `job.py`). A process registers its
  scripts, takes a batch, saves start times, calls the script, saves the exit
  codes, answers, and ends after a number of batches.
- **Client scripts** (about a hundred). State: the package's directory, the rows of Files,
  Events, Derivations, Identifiers, SIPs. Each is called with a batch of tasks, in
  a transaction of its own making, and gives each task an exit code.
- **Not control logic**: the web UI, the admin API handlers (they translate
  requests into the calls above), database schema and migrations, the format policy
  registry, the evaluator of Python literals.

### How they interact

`Submit` and the watcher append to the queue and call `pick`; so does the ticker.
`pick` starts a goroutine *inside* `c.mu`. The goroutine iterates: each job writes
the store; a client job hands batches to Gearman and is called back by one
goroutine per batch; a decision job makes the goroutine move its package to the
awaiting list and block on the channel of the decision, which API handlers fill
while they hold `c.mu` for reading. The script at the end of a chain moves the
package's directory, which wakes the watcher: a second package object with the
same id may be queued before the first has ended. Everything hangs on one context
that `Close` cancels.

On the other side of Gearman, processes of the pool take batches. They share the
database with the server and with each other, and the package's directory with
whoever works on the package. The exit code is all the server gets to know: the
links it takes depend on it, while the rows and files the next script starts from
are what the last one left. A process that dies takes its transaction with it, not
its changes on disk.

### What is hard, and what correctness means

| behaviour | property |
|---|---|
| lists keyed by id, two objects of one id | the lists agree with the goroutines (`ActiveMatchesGoroutines`, `AwaitingMatchesGoroutines`) |
| `pick` raced by submitters, watcher and ticker | first in first out, never more than the errgroup allows (`QueueIsFIFO`, `Refines`) |
| `group.Go` blocks inside the lock | queued packages are picked and `Close` returns, up to `Stuck` (`QueuedIsPicked`, `CloseReturns`), which nothing ends (`StuckIsForever`) |
| submission after `Close` | nothing runs once `Close` returned (`ClosedRunsNothing`) |
| two mutexes and a channel around a decision | no accepted choice is lost, calls return up to `Jammed` (`AcceptedReachesAwaiter`, `ResolveReturns`, `WriterProceeds`) |
| batches answered in any order, failing, garbled, raced by `Close` | nothing lost or doubled, right status, job finishes (`TasksArePartitioned`, `ResultsMatchRows`, `StatusIsHighestAnswered`, `JobFinishes`) |
| several writers of job and package rows, errors between writes | open rows belong to live iterators, final statuses are final (`OpenJobIsCurrent`, `DoneHasTerminalJob`, `FinalStatusIsKept`) |
| crash between writes, crash during clean-up | nothing looks in progress after a restart (`RestartIsClean`) |
| `uuid.Nil` as "start" and as "no link" | an iteration ends, up to `StartedOver` (`IterationEnds`) |
| workers die, are recycled, and are told to stop while they are replaced | scripts stay served within their concurrency, and all processes end (`WithinConcurrency`, `QueuedIsTaken`, `SignalEndsWorkers`) |
| a batch is delivered again, its transaction rolled back or committed | rows and answers agree (`AnsweredIsSaved`, `RecordedOnce`, `RecordsAreTrue`, `FailedScanStopsOnce`) |
| renames, extractions and removals half done | no row stands for another file, nothing is lost, files and rows match (`RowKeepsContent`, `NothingLost`, `RowsMatchDisk`) |
| normalization done again, by hand, or in a transaction another task broke; files removed before the commit that says so | one derivative of each kind, and what is recorded leads to it (`OneDerivative`, `DerivationsLead`, `SuccessIsRecordedUnbroken`) |
| bag removed before the archive is verified; METS written before the bag | a stored AIP is complete, true and described (`NothingLost`, `StoredIsTrue`, `StoredIsDescribed`, `FixityIsTrue`) |
| a handle server outside of the transaction | a recorded identifier is bound (`PidIsBound`) |

The full list of hazards, each with its line, is in `PROJECT.json`. Three of the behaviours
above are wrong in the code for good: a controller that is `Stuck`, one that is `Jammed`, an iterator that
has `StartedOver`. The liveness properties name them as the only ways out, and the instances reach
each of them (but for the panic in `Jammed`, which the `decision` run has).

## 2. The modules and the code

### PackageLifecycle and the refinement

`PackageLifecycle` knows packages, a line, slots and a service that is open, closing
or closed; no lists, lock, ticker or errgroup. `Controller!Refines` is its
specification under the mapping `Line`, `Phase`, `Answered`, `Service`. Two choices in
it carry the argument. A package inside `group.Go` has left `queuedPackages` but has
no slot: it is still the head of the line, so the abstract `Start` is `GroupGo` and
not `PickStart`. A goroutine that deactivated its package still has its slot: it is
`finished` at `GroupDone` only, which is what `Close` waits for.

### Controller

An element of `Pkgs` is one `*Package` object together with its goroutine; `IdOf`
gives the package id, which two objects may share. `active` keeps ids, because
the code only compares ids there. `mu` is the caller of `pick` that holds `c.mu`
inside `group.Go`; every other critical section of the file is short and contains
no blocking call, so each is one action guarded by `mu = Free`. `pick` is split in
`PickNothing`, `PickStart` (lists changed, lock held) and `GroupGo` (a slot was
free, lock released), which is where it can block. `pc` follows the goroutine: `iter.next`
(`NextCancelled`, `NextJob`), what a job may return (`JobContinues`,
`JobEnds`, `JobWaits`), `queueToAwait`, `decision.await`, the deferred
`dequeueFromAwait`, the deferred `deactivate`, and the release of the errgroup
slot (`GroupDone`, the library's own step). The first error of a
goroutine stops nothing: `New` drops the context that `errgroup.WithContext`
derives, and the goroutines use `groupCtx`, which only `Close` cancels.
`Close` is `CloseCancel` then `CloseReturn`. The early returns of `queueToAwait`,
`dequeueFromAwait` and `deactivate` when the id is not listed are kept: that they
are never taken is a consequence of the invariant, not an assumption.

### Decision

`RWMutex` is modelled as Go implements it: a writer announces itself, which holds
back new readers, and then waits for the readers inside. `cmu` is held for reading
through a whole API call, `dmu` in pieces. The error paths are as in the code:
`CheckResolved` returns with `d.RLock` held and `ChoiceUnmatched` returns with
`d.Lock` held. `AwaitReceive` indexes the choices; the test before it
(`jobs_decision.go:158`) compares the number of choices with itself, so a position
out of range panics, which ends the process (`panicked`). `Writer` stands for every
other user of `c.mu.Lock`.

### TaskBackend

One job and its batches. `SubmitTask`/`SubmitFull` are `submit` without and with
`sendBatch`; `Wait` sends the rest. `SendBatch` takes the batch from the end of the
list, saves its rows (no exit code), starts the goroutine and submits to Gearman.
The worker either saves the codes and answers (`WorkerCompletes`; the answer may
arrive garbled) or raises (`WorkerRaises`: code 1 in the rows, a failed Gearman
job without data). `HandleJobUpdate` merges complete answers and drops the others,
as the code does. `Record` is `processTaskResults` and `updateStatusFromExitCode`.
Arguments and outputs are left out.

### JobIterator

`Link` is the workflow document: kind of job, exit codes, fallback, terminal flag,
variable, choices, the answer of the processing configuration (`preset`, which is any UUID: of a chain, of
something else, of nothing) and whether the settings in the database answer. `next` is split at
every database write, because a crash, another iterator or a refusal may come
between two: `InitIterator` (status processing), `EnterChain`, `SaveJob`, the
runners, `RecordExit` or `MarkComplete`, `EndOfChain`/`MarkFailed`. Every write
may be refused by the store (`StoreFails`) and is refused once the context is done.
An error before `exec` (`InitFails`, `EnterFails`, `BuildFails`: no such link, no runner) stops the
iteration and leaves the status of the package as it is; an error of `exec` marks it as failed.
`Crash` keeps the rows and stops the iterators; `Boot` and six `CleanUp` steps are
`RemoveTransientData`, which is not a transaction: a crash may fall between two of
its statements, and a worker may still save exit codes (`WorkerSaves`) at any time.

### WorkerPool

`frames` is the stack of the parent's main thread: `main` and, above it, the signal
handlers that interrupted it, since Python runs a handler between any two steps of
the main thread and `stop` may so be entered while `stop` runs. `state` is the point
a worker process has reached; `StartWorkers` records whether the process was forked after the
handlers were set, because a child then inherits a handler that cannot work in it
(`Terminated`). `Remaining` and `InitScripts` are the distribution of scripts over
the pool. `Serve` is a process's life: register, poll, start times, `call`, results,
answer, `after_poll`. A worker may `Crash` anywhere.

### PackageFiles

`disk` maps paths to contents and `rows` is the Files table with the events of each
file. A name is a base name with a form (whether `change_name` would alter it), the
number `change_path` adds and the extraction it stems from, which is all that
collisions depend on. `Composed` says which names are not in NFC and what their NFC is: `files_index` is
keyed by NFC paths, so that two names that are equal in NFC share an entry and the rows of both
get the location of the one that was renamed last (`AddFile`, `FileUpdates`). Every change of the disk is a step, every transaction has its
`saved` state, so `Raise` (the script's exception becomes an exit code, the
transaction commits) and `Crash` (rolled back, runs again) may fall between any two.
The kinds of faults an instance has are a constant; an exception in the walk that follows
an extraction (`"walk"`) is a kind of its own, because the workflow goes on after it.
`round` is the date that extraction appends to the directory it makes: `%date%` is set to the present
time whenever the script runs, so it is later each time. An extraction may be cut off at any point
(`ExtractCutOff`): some files, all files and some rows, or the package gone and its row not told.
`createSIPfromTransferObjects` moves the objects, updates the rows and hands the directory over; if its
worker dies after that (`stage = "handed"`), the rows are rolled back and the second run finds no file.
`TaskSets` is `Package.Files` with `submitTasks`: what path and row a task of a
per-file script is given, also for files without a row.

### FileChecks

A batch is a set of tasks that run in any order. Each script is an action that
chooses what its tool says, with the records and the exit code the script derives from it.
Rows of a table have no order, so events and outputs are numbers of rows, by file and
by kind or rule. `tx` becomes `db` at `Commit`. `Die` before the commit loses the records, after it
makes the batch run again on them. `CommitRaises` is an exception outside of the tasks: it rolls back, the
worker fails the batch, and the server drops a failed batch with its exit codes, so that the job
counts as done with exit code 0 and the transfer goes on. Reingested files get size, format and derivation from the METS
of the earlier ingest, without an event; if that batch runs twice they have two formats, which
makes later scripts raise (`Ambiguous`). A scanner that cannot say its version gives exit code 1 and
no event (`unsaid`); a rule may pass in part.

### Normalization

`db` holds derived files, derivations and normalization events. Django's rule that
a database error inside `atomic` breaks the whole transaction is `broken`: the
following tasks fail, the block rolls back without an exception, and earlier tasks
keep exit code 0. A command may leave a file, nothing, a directory with no, one or several files, or
name no output; a task that had nothing to record is in `quiet`, as is a thumbnail the mode does not ask
for. Normalizing again starts with a removal (`Redo`), which sets `removedtime` and removes the
file row by row (`RemoveFile`), then deletes derivations and events with their cascades (`RemoveRest`):
the disk changes at once, the rows at the commit, and a worker may die in between. Files
normalized by hand are moved (`RelateMoves`) and then recorded (`RelateRecords`), with the same gap. A
commit that raises (`CommitRaises`) is rolled back and counts as exit code 0 for all tasks.

### Aip

The content of a file is what its row's checksum was taken of, something else of
the same size, or nothing; `sip`, `bag` and `archive` are the places it may be in.
The steps of a task are a sequence, so a worker may die between making a directory
and filling it. `Alter` is damage on disk. `mets` keeps for each file the group it
is in. `handles` is the handle server, which no rollback reaches. On a reingest the document starts from the
METS of the earlier ingest (`known`), which is itself a file of the payload and is not described (`Former`),
and a new file is in the group of its source only if the source is in the document already. `Unverified`
are the rows `verify_checksums` passes over. The AIP's row is inserted outside of `JobContext`: a second insert raises,
the batch is dropped, and the job counts as done with exit code 0, after which the bag is removed (`Commit`).
The exit code of an archiver is that of the last command of its pipe (`ArchiverCodes`): 7z tells of a file it could not
read, gzip and pbzip2 fail only for reasons of their own. `write_premis_event` may swallow any error (`unwritten`).

### External behaviour assumed

- Gearman gives a batch whose worker vanished to another worker, or loses it.
- Django: `IntegrityError` in `atomic` makes the outer block roll back; deleting an
  Event deletes the Derivations that refer to it.
- Go: fairness of mutexes and of `select` (section 3); random order of map ranges.
- bash without `pipefail` returns the exit code of the last command of a pipe.
- Tools of the registry, the virus scanner, archivers and the handle server may
  succeed, fail, or leave part of their output.

## 3. Runs

| run | instance | distinct states | shows |
|---|---|---|---|
| `controller` | 3 package objects, 2 ids, limit 1, 2 slots, 2 jobs each | 291,833 | lists and queue agree with the goroutines in every interleaving, deadlocked ones included; a deadlock is one for good; the controller implements `PackageLifecycle` |
| `controller_live` | 3 objects, 2 ids, limit 1, 2 slots, one object attended | 35,071 | queued packages are picked and `Close` returns, unless `Stuck` |
| `decision` | 3 racing calls with every request, 1 listing, `Close` | 478,749 | accepted choices are not lost |
| `decision_live` | 3 calls, two at a time, valid and unmatched choices, 1 listing, `Close` | 70,048 | calls return and `c.mu` stays obtainable, unless `Jammed` |
| `task_backend` | 5 tasks in batches of 2, failing and garbled batches, `Close` | 38,852 | partition, merge, status, termination |
| `job_iterator` | 2 iterators, 12 links (one pulls a variable nobody set), 2 crashes, refusing store, `Close` | 390,989 | rows, statuses, clean-up, termination unless `StartedOver` |
| `worker_pool` | 3 scripts (one allows two workers, one cannot be loaded), 2 batches, 1 batch per worker, 1 crash, 1 signal | 130,430 | concurrency, saved results, service through crashes, shutdown |
| `package_files` | 7 received trees: colliding names, names equal in NFC (received and packed), a package in a directory to rename, nested packages with hidden and unneeded files, two packages, an unneeded file named like another one will be; 1 fault of any kind but `"walk"` | 227,716 | rows keep their files, nothing is lost, rows and disk agree |
| `package_files_unlinked` | the same, faults are partial extractions | violation | a registered file is deleted as "not in the database" (finding) |
| `file_checks` | 2 originals, one reingested, one too large to scan, 1 extracted, 1 without a row, 2 checksum files, 2 rules, 2 odd results | 319,259 | records are true, made once, and failures stop the transfer |
| `normalization` | 2 originals: reingested, and both reingested and normalized by hand (also for access); every kind of output, 2 thumbnail modes, 2 rounds, 2 odd results | 555,706 | derivations lead to files on disk, success is recorded |
| `aip` | an original and its derivative (either way round, one not verified), a loose file, an old METS, a directory; new and reingested; no, 7z and gzip compression; 2 things that go wrong | 4,062,846 | what is stored is complete, true, described, verified, and identified |

Each module has a `TypeOK`. The one of `Controller` is part of a run, where it says that no
gauge goes below zero; those of the other modules are not. All are proved.

### Bounds

`MaxJobs` bounds the jobs of a package. In `Controller` two suffice for one wait
and a job after it, so that a package can pass through every list and come back. In
`JobIterator` it is one more than the longest path of the instance's workflow (seven), so that no
run is cut short but that of an iterator that starts over; any other that reached the bound would
be stuck there, which violates `IterationEnds` instead of hiding it. `MaxConcurrent = 1` with three
objects gives a full list, a return past the limit and a queue; two slots for three
objects give the blocked `group.Go`. Five tasks in batches of two give two full
batches and a partial one; with one batch fewer the merges could not overlap. Two
crashes are one in normal work and one during the clean-up that follows.
`MaxInFlight` bounds the calls that resolve one decision at once: three fill the
channel, block on it and queue for the lock; for liveness two at a time of three suffice for a
call that finds the decision left locked and for a second send after `Close`.

In `WorkerPool` one batch per worker makes every answer end a process, so that
recycling, a crash and a signal meet. In `PackageFiles` chunks and batches of two
are smaller than the trees, so that the remainder after the last full one occurs,
and one fault suffices to interrupt and rerun any script. `MaxOdd` counts results
other than the usual one, deaths and damage included: two are one that goes wrong
and one that goes wrong because of it, for instance a failed scan and a death after
its commit. `MaxRounds = 2` is one removal and another round.

### Deadlock checking

In `Controller`, `Decision`, `TaskBackend` and `JobIterator` it is off: a controller
whose packages are done, or one that has been closed, really stops, and so does a
job. What must not stop is stated as a liveness property. The other modules
have an explicit step for the states in which the work is over (`Stopped`, `Stop`,
`Over`), and TLC checks that they stop nowhere else.

### Fairness

Go schedules every runnable goroutine: weak fairness. Where a goroutine needs
`c.mu` or a decision's mutex, strong fairness, because a `sync.RWMutex` does not
starve its waiters; in `Controller` that is one condition per goroutine (`GoroutineStep`), since
what it does next is determined by where it is, and one per caller of `pick`. The select of the ticker goroutine picks among its ready cases
at random, hence strong fairness of `TickerDone`. In `TaskBackend` workers answer
every batch they take; the outcome is theirs. In `WorkerPool` the threads
and processes run (weak fairness), client scripts return or raise, polls time out,
and Gearman hands a queued batch to some worker that keeps asking: strong fairness,
per batch, of being grabbed by anyone, since each single worker may come and go.
Nothing is assumed of people and of the outside: submissions, notifications,
resolutions, listings, `Close`, signals, crashes and restarts may never happen.
`PackageFiles`, `FileChecks`, `Normalization` and `Aip` are checked for safety only;
the weak fairness in their `Spec` says that a worker goes on with what it has.

### Where the code disagrees with itself

A run of its own (`package_files_unlinked`, quoted under `findings`): a file on disk
without a row gets the key `%relativeLocation` instead of `%relativeLocation%` and
inherits the replacements of the file before it, so that the script that removes
files without a row may be told to remove a registered one. TLC finds it after a partial extraction, and without any
fault for two names equal in NFC, one of which loses its row's location to the other.

Seen while modelling, reproduced with the modules at other constants or by reading.
The server:

- `pick` tests `len == max` (`controller.go:196`) and `dequeueFromAwait` does not look
  at the limit: a package that comes back from a decision takes the list past it,
  after which `pick` starts everything. `ActiveWithinLimit` fails when packages are
  attended; `UnattendedWithinLimit` is the positive case.
- With all slots taken by waiting packages `pick` blocks in `group.Go` holding
  `c.mu`: nobody can leave and `Close` never returns. This is `Stuck`; `controller_live`
  reaches it and names it as the one exception, and `StuckForever` proves that nothing ends it.
- Check and send of a resolution are two critical sections: two calls may both be
  told that they resolved the decision (`jobs_decision.go:112`). With `Close` racing,
  one of them stays blocked on the full channel with `c.mu` held for reading (`SenderStuck`).
- An unmatched choice returns with the decision locked (`jobs_decision.go:140`), and a call that finds the decision
  resolved with its read lock held (`:113`, `:128`): the next call waits for it inside `c.mu` (`LeftLocked`).
  A position is not compared with the number of choices (`:158`, `panicked`). `decision_live` reaches the first two
  and names all three as exceptions (`Jammed`).
- A batch whose script raised is dropped: the rows say 1, the job is recorded as 0
  (`task.go:251`). So a scan whose batch raises is taken for a clean one and the transfer goes on unscanned,
  a normalization or removal that was rolled back goes on as done, and a second run of `compress_aip` counts as a success.
- A link that pulls an unset variable without default yields `uuid.Nil`, and the
  iterator starts over (`jobs_local.go:87`), perhaps forever: `StartedOver`, the exception of `IterationEnds`.
- `ActivePackageGauge` is said to count "active packages being processed" (`metrics.go:67`) and counts those that
  wait for a decision too; `PackageQueueLengthGauge` is said to track "the length of the package queue" (`:81`) and
  counts the queued packages and those in flight. No run claims that they agree.
  `GearmanPendingJobsGauge` (`metrics.go:53`) loses one per partial batch.
- The worker sends `stderror` (`gearman.py:116`), the server decodes `stderr`
  (`task.go:411`). Links 823b0d76 and bdfecadc set a variable to a value, `setUnitVarLinkJob`
  saves only links, so the package fails (`jobs_local.go:40`).
- `filterFilenameEnd` is tested with `HasPrefix` (`package.go:306`).
- `SIP.hydrate` saves a variable before the id is set (`package.go:510`); a failed copy
  of a transfer is logged only (`:173`); `Server.Close` closes the store before the
  controller (`server.go:163`); `formatChoices` inserts into the map it ranges over
  (`jobs_decision.go:443`).

The worker pool:

- A signal before the handlers are set kills the parent and leaves its
  children; one between `signal.signal` and `signal.pause` is handled and then
  `main` waits for another (`Stopped`).
- A child forked by the maintenance thread inherits the handler, and its `stop` joins
  the thread it runs in: `RuntimeError`. A batch that raises does not count towards
  `max_tasks_per_child`.

The scripts:

- `has_packages.py:31`: a package without files that is not deleted is found again
  forever.
- `JobContext` inside `atomic` swallows the exception, so a script that fails half-way
  commits what it did. `assign_file_uuids` run again makes second rows for files that
  have one.
- Names that are equal after normalization to NFC share an entry of the index of `change_object_names`
  (`change_object_names.py:105`): the rows of both files get the location of one, so a row stands for another file
  and a file has no row, without any fault. `RowKeepsContent` and `RowsMatchDisk` except such files; no file is lost by it
  before the removal of files without a row, which may then delete one.
- A worker that dies after `createSIPfromTransferObjects` handed the directory over leaves rows that stay the transfer's.
- The workflow goes on after an exception in `change_object_names` that follows an extraction
  (`workflow.json`: the same link whatever the exit code): some extracted files keep the names that
  were to be changed, and their rows are where the files no longer are. If then a file with the clean name
  goes and its row does not, the next walk gives its location to another file, and
  `RowKeepsContent` fails. TLC has two such behaviours. A
  package with `Thumbs.db`, `Thümbs.db` and another package: the walk raises between the two names,
  the task of the second file is told the path of the first (the finding above) and
  removes it, the row of the first stays, and the second file becomes `Thumbs.db` after
  the next extraction. And with a worker that dies after it deleted an extracted
  package, so that its row comes back. The files themselves are not lost: `NothingLost` holds with
  faults of every kind.
- A scan that failed and whose answer was lost is found already scanned and returns 0
  (`FailedScanStopsOnce` excludes it); scans of files without a row look at another
  file or at none.
- The files of an output directory of a normalization command all get the task's UUID, which
  breaks the transaction of the batch while earlier tasks keep exit code 0
  (`normalize.py:256`; `SuccessIsRecordedUnbroken` excludes it). An empty output directory, or a command
  without an output, is a success that records nothing.
- The removal before another round deletes files before it commits (`retry_normalize_remove_normalized.py:65`): if the
  commit raises, live rows have no files, and the server goes on. After a death it runs again and ends well.
- A worker that dies between the rename of a file normalized by hand and its commit makes the second run fail with
  "already exists" (`manual_normalization_create_metadata_and_restructure.py:140`).
- A file that came with a derivative of an earlier AIP and is normalized by hand too has two
  derivatives for preservation if the user does not normalize for preservation: only
  `normalize.py` removes the earlier one, and the script that relates the manual files does not
  look for it. `OneDerivative` says that it is so for these files and no others.
- `update_size_and_checksum` run again after its commit gives reingested files a second format (`:252`), and the scripts that
  ask for the one format raise.
- `verify_aip` writes its event in a handler that swallows every error (`:56`).
- `isinstance(e, File.DoesNotExist, ValidationError)` raises `TypeError`
  (`manual_normalization_create_metadata_and_restructure.py:87`, `:105`).
- `verify_aip.py:176` speaks of validation, `:208` passes `completeness_only=True`:
  an alteration that keeps the size, after bagging, passes.
- `tar | gzip` without `pipefail` hides that tar could not read a file, and bag and objects are
  removed before the archive is verified (`missed` in `NothingLost`).
- `pid_declaration.py` unpacks `(False,)` where its docstring (`:131`) says it continues.
  Identifiers of directories and declared ones are doubled when a task runs again.
- An uncompressed AIP has no row, so no fixity event. A rerun of `compress_aip` after its
  commit cannot insert the row again and raises, which the server takes for exit code 0
  whatever the archiver did: bag and objects are removed although the second archive may lack files (`missed`). A rerun of
  `bagit` that finds the directory of a dead worker fails.
- On a reingest the old METS in `objects/submissionDocumentation` is bagged and not described
  (`archivematicaCreateMETSReingest.py:435`), and a derivative that is described before its source is in a group of its own (`:490`).
- `create_mets_v2.py`: DMDIDs of `.tab` files are concatenated without a space (`:1259`),
  the DMDID of Dublin Core overwrites the one of the objects, and the ID of the TRIM structMap
  is that of the normative one.

## 4. Proofs

A run shows a property on one small instance; the theorems below state it for every
value of the constants. The modules `*Proofs` extend the modules of the
components, whose `ASSUME` is all that is assumed; TLC evaluates it on every instance.
`ControllerProofs` has the controller's decisions too: it extends `Controller` and
`Decision`, whose names differ for that reason.

| module | theorem | states |
|---|---|---|
| `ControllerProofs` | `Implements` | `Refines`: the controller implements `PackageLifecycle` |
| | `TypeCorrect` | `TypeOK`; in particular no gauge goes below zero |
| | `ActiveListCorrect`, `AwaitingListCorrect` | `ActiveMatchesGoroutines`, `AwaitingMatchesGoroutines` |
| | `StuckForever` | the action property `StuckIsForever` |
| | `ClosedIsQuiet` | `ClosedRunsNothing` |
| | `UnattendedWithinLimit` | `ActiveWithinLimit` when no package is attended |
| | `QueueCorrect`, `PickIsExclusive` | `QueueIsFIFO`, `PickHoldsLock` |
| | `DecisionTypeCorrect`, `AcceptedReaches`, `SendExclusive` | of `Decision`: `DecisionTypeOK`, `AcceptedReachesAwaiter`, `SendIsExclusive` |
| `TaskBackendProofs` | `TypeCorrect`, `TasksPartitioned`, `ResultsMatch`, `StatusHighest` | `TypeOK`, `TasksArePartitioned`, `ResultsMatchRows`, `StatusIsHighestAnswered` |
| `JobIteratorProofs` | `TypeCorrect`, `OpenIsCurrent`, `DoneIsTerminal` | `TypeOK`, `OpenJobIsCurrent`, `DoneHasTerminalJob` |
| | `FinalKept`, `RestartsClean` | the action properties `FinalStatusIsKept`, `RestartIsClean` |
| `WorkerPoolProofs` | `TypeCorrect`, `PoolWithinConcurrency`, `AnsweredSaved` | `TypeOK`, `WithinConcurrency`, `AnsweredIsSaved` |
| `PackageFilesProofs` | `TypeCorrect`, `NothingIsLost` | `TypeOK`, `NothingLost`, for any tree and faults of any kind and number |
| | `RowsKeepContent` | `RowKeepsContent`, if no two names are equal in NFC (`NamesApart`) and without faults of kind `"walk"` (`WalkEnds`) |
| | `RowsMatch` | `RowsMatchDisk`, under `NamesApart` |
| | `NothingUnlinked` | under `NamesApart` the removal of files without a row deletes nothing unless something went wrong before |
| `FileChecksProofs` | `TypeCorrect`, `RecordedOnceEach`, `RecordsTrue`, `FailedScanStopsTransfer` | `TypeOK`, `RecordedOnce`, `RecordsAreTrue`, `FailedScanStopsOnce` |
| `NormalizationProofs` | `TypeCorrect`, `AtMostOneDerivative`, `DerivationsLeadSomewhere`, `SuccessRecorded` | `TypeOK`, `OneDerivative`, `DerivationsLead`, `SuccessIsRecordedUnbroken` |
| `AipProofs` | `TypeCorrect`, `FilesKept`, `StoredTrue`, `StoredDescribed`, `FixityTrue`, `PidBound` | `TypeOK`, `NothingLost`, `StoredIsTrue`, `StoredIsDescribed`, `FixityIsTrue`, `PidIsBound` |

Each invariant was checked by TLC on the instance of the component's run before it was
proved. A proof has one lemma per part of the invariant and in it one step per action.

### What the assumptions say of the code

- `Controller`: finitely many packages, limits and slots at least one.
- `Decision`: calls, listings, the goroutine and the other writer are different actors.
- `TaskBackend`: a batch size of at least one; exit codes are numbers.
- `JobIterator`: the workflow document is well formed (`LinkType`): exit codes and fallbacks
  lead to links or to none, choices to chains, and a chain begins with a link. What the processing
  configuration answers may be anything.
- `WorkerPool`: finitely many scripts, at least one; each allows at least one worker;
  finitely many batches; the value for "no batch" is no batch.
- `PackageFiles`: trees and packages have finitely many files, none in the place of the
  directory itself; no name that is received or packed ends with the date of an extraction of
  this transfer; names that are not in NFC have characters that are not allowed; chunks and batches have at least one
  element. Nothing is assumed of which names collide once cleaned, and a package may contain itself.
- `Normalization`, `FileChecks`, `Aip`: finite sets of files; in `Aip` a file is no
  directory and the SIP is neither.

The bounds (`MaxOdd`, `MaxJobs`, `MaxRounds`, the numbers of crashes) are
parameters like the others: the theorems hold for each of their values.

### Controller

The inductive invariant is `Types /\ JobsLeft /\ Accounting`. `Types` is `TypeOK`
with the gauges in `Int`: that a gauge stays in `Nat` does not follow from types,
since `Deactivate` decrements it, but from the accounting. `JobsLeft` says that a
goroutine about to run a job has one left. `Accounting` joins
`QueuedMatchesPackages`, `ActiveMatchesGoroutines`, `AwaitingMatchesGoroutines`
and, so that the gauges can be shown to stay in `Nat`, what they count (`GaugesCountInFlight`, a definition of
`ControllerProofs`); none is inductive alone, because `QueueToAwait`,
`DequeueFromAwait` and `Deactivate` act only if the id is listed, and that it is
follows from the counts. The lists hold ids with repetition, so the argument is
about numbers of occurrences: lemmas give the occurrences of an element after
`Append`, `Tail` and the community module's `RemoveFirst`, and the number of
goroutines in a set of states after one of them moves (`CountsAfterMove`). Each
action then changes both sides of each equation by the same amount; `SilentMove`
and `NoMove` dispose of the actions that change neither.

The other theorems use that invariant with one more conjunct each: after `Close`
has returned there is no goroutine that runs a job (`ClosedIsQuiet`); without
attended packages nobody waits, so only `pick` lengthens the list
(`UnattendedWithinLimit`); the queue only loses its head or gains an end
(`QueueCorrect`); the caller inside `group.Go` is the holder of the lock and its
package the only one between list and slot (`PickIsExclusive`). `StuckForever` needs the types only: with `c.mu` held in
`group.Go` and no goroutine past `deactivate`, each action either needs the lock or a slot, or moves a
goroutine to a place that is not its end.

`Implements` shows, action by action, which step of `PackageLifecycle` it is. What the
mapping needs beyond the accounting is `RefInv`: the decision of a package about to wait is
fresh; one that resumes is resolved; one that abandons its wait is resolved or the
context is done; the context is done exactly when the service is no longer open; only
attended packages wait; and, from `PickIsExclusive`, the package inside `group.Go` is the
head of the abstract line.

### Decision

`Counted`: the readers counted by `c.mu` are the calls inside. `Exclusion`: who sends holds
the writer's side of the decision's mutex, so nobody else does. `Delivery`: a position in the
channel, or applied, is that of a call that was told "ok", and while the goroutine waits a
decision marked as resolved has its position in the channel. The calls that return with a lock held
are part of it: they keep others out, which blocks but loses nothing.

### TaskBackend

The batches sent are consecutive intervals of the tasks and the current batch is what follows
(`Shape`); that their concatenation is `1..n` is an induction over the number of
batches. What is known of a batch by the job server, its channel, the Tasks
table and the merged results agrees (`Answers`, `Merged`), whatever the order of the answers;
the gauge is at least the number of goroutines that listen, so it does not go below zero
(`Gauges`).

### JobIterator

`RowsFollow` says what the row of the current job may be at each point of the
iterator, that earlier rows are closed and later ones do not exist. `CleanSoFar` says,
for each statement of `RemoveTransientData`, what the statements before it have
established; a crash between two starts over, a worker's late exit code disturbs none
of it.

### WorkerPool

`Owners`: a batch that runs is held by exactly one process, whose results are saved before
it answers. How many processes register a script is a fact about `InitScripts`: by induction over
the index of the worker, `Remaining` is what the workers before it left, so at most
as many get a script as it allows. `TypeOK` bounds two things that types do not: the frames of
the main thread are `main` and at most one `stop` for each signal (`Frames`), and a process that
may still ask for a batch has answered fewer than `max_tasks_per_child` (`Counts`, also
if the setting is off: the batches a process has counted are among those answered,
and an answered one stays so through every termination).

### The client scripts

`FileChecks` and `Normalization` keep two states of the database, the committed one and the
one within the transaction. The part of the invariant that is about rows, `Sound`, holds
of both: a rollback needs no argument of its own, and a second delivery starts from a
sound state. In `FileChecks` every script satisfies one predicate, `TaskDoes` (what a
task with an exit code makes of the transaction), from which the steps are proved;
`Scanned` and `Validated` relate exit codes not yet answered to rows not yet
committed, and `StopInv` says that a recorded failure is in the exit codes of the batch, or the
transfer has failed. A dropped batch is a step to the committed state with no exit codes, so it needs no
part of its own. In `Normalization`, `Succeeded` does the same for exit code 0 in a
transaction that is not broken; `LiveIn` says that the live preservation files are on disk,
in the committed state and in the transaction, except while the retry script removes files
(`Removing`; in its first part, `Half`, their derivations are still in place) and once its
batch was dropped; `Joined` carries which manual files were moved and recorded, on disk, in the
transaction and in the table; and `OnceInv` that they are related at most
once, also when their task runs again. In `Aip` the invariant says, link by link and by the
steps a task has left, where a file that nothing altered and the archive did not miss is (`Kept`), that bag, manifest and rows
agree once verified (`Truth`), that the METS has the files of the bag (`Described`), and
that a Pass event was earned (`Fixity`).

### PackageFiles

The files of a tree are a function of paths, and one rename moves all that is below. The theorems
rest on four invariants beyond the types.

`Naming` is about which locations may be taken. `change_path` chooses a name that is not
on disk, but rows are told in batches, so that it might choose the location of a row whose
file is elsewhere. That it does not is not a fact about one step. Each name that is not clean is
in a directory extracted after some date (`Open`), since the first walk ends or the transfer fails; within
such directories the clean part of a row's location is in use (`Held`), or there is no such row yet
while the directories are being made (`Unheld`, `Old`: the date of an extraction is in no
location before it). In the walk, `WalkState` says that what is done is clean and what is to
do is apart from it, and `WalkRows` that a row stands for one file at most, found through
`files_index` and the directories already renamed, and that this file has its content. What is
in an extracted directory is what the package has, also when it is extracted again
(`FromPackage`). The same is kept for `saved`, the table a dead worker leaves. A `"walk"` fault
breaks `Open`; no other does, in any number, and `RowKeepsContent` is the first part of `Naming`. Two names that are equal
in NFC break `WalkRows`, hence the hypothesis `NamesApart`.

`Dating` is the part of this that needs neither hypothesis: no row, file or entry of the index has a date later than the
last extraction, and none the date of one that is about to begin, so that an extraction overwrites nothing but what
it had extracted itself. `Keeping` says that the content of each row, live or not, is on disk under its base name, or is that of a
package, to be deleted, whose needed files are on disk or packages in turn. It needs `Dating` and not `Naming`: an
extraction deletes what is at the row's location, whichever file that is, and only after the files of that very package are on disk.

`Matching` is for runs in which nothing went wrong (`Orderly` joins it with `Naming`, under `NamesApart`): what `RowsMatchDisk` says of the end is
carried back through every script, as files and rows one to one (`Matched`), one to one through
`files_index` (`WalkMatched`), or but for the files still to be assigned (`AssignMatched`). No
file is where an extraction will put one (`Vacant`), every task of a per-file script has
its row (`TasksMatched`), which is `NothingUnlinked`, and the SIP gets all rows (`Flags`).

All were checked with TLC before they were proved.

### Induction

The library's induction theorems take a predicate as a parameter, which the provers cannot
instantiate. Where an argument needs induction over a number (`InitScripts`, the
concatenation of the batches) it is by least counterexample: the set of numbers for which
the claim fails has a least element (`LeastNat`), which is not zero, and the claim for its
predecessor refutes it.

### Only model-checked

- All liveness: `QueuedIsPicked`, `CloseReturns`, `ResolveReturns`, `WriterProceeds`,
  `JobFinishes`, `IterationEnds`, `QueuedIsTaken`, `SignalEndsWorkers`. The prover
  has no reasoning about fairness.

Every invariant and every action property of a passing run has a theorem, with the hypotheses in the table.

## 5. What is not modelled, and the plan

- **The other client scripts**, 74 of them: conversions between metadata formats (PREMIS,
  DSpace, TRIM, Dataverse, rights), uploads, moves of directories. Each translates
  text or calls one service; to the rest of the system it is an exit code, which
  `TaskBackend` and `JobIterator` have.
- **The METS beyond its fileSec** (dmdSec, amdSec, structMaps): a translation of rows to
  XML, with no control that the properties could tell apart.
- **Schema and migrations** (half of the Python lines), **Django models, the format
  policy registry**: declarations and data. The constraints that matter (primary keys,
  cascades) are in the modules of the scripts that meet them. Because of these parts
  the modules stand for a small share of the lines of the repository, and for most
  of those that decide what happens to a package.
- **Web UI, admin handlers, Python evaluator, logging, histograms**: I/O or text.
- Directory rows, reingested transfers in `PackageFiles`, files normalized by hand for access (but for the task they make
  `normalize.py` skip), commits of `Aip` that raise other than that of `compress_aip`, `hydrate`, the processing configuration form.

Planned:

1. `UnitVariables` and `hydrate`: the statements of `CreateUnitVar` with two iterators.
2. A composition of `Controller` and `Decision`: one package's decision with the
   controller's own lock discipline instead of `Writer`.
