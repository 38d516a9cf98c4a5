---------------------------- MODULE JobIterator ----------------------------
(***************************************************************************)
(* The iteration of a package over the workflow and what it leaves in the  *)
(* database (internal/controller/iterator.go, jobs*.go and                 *)
(* internal/store/mysql.go).                                               *)
(*                                                                         *)
(* An iterator follows the links of the workflow: it inserts a row in the  *)
(* Jobs table, runs the job, updates the row and moves on to the link the  *)
(* job names.  A chain usually ends with a script that moves the package   *)
(* to another watched directory, where the watcher finds it: a second      *)
(* iterator then works on the same package, perhaps before the first has   *)
(* seen the answer of the script.  The server may crash between any two    *)
(* writes; when it starts again RemoveTransientData repairs the rows.      *)
(***************************************************************************)
EXTENDS Integers, FiniteSets

CONSTANTS
  Iterators,   \* the iterators of the package, one per package object
  Chains, Links,
  Nil,         \* uuid.Nil
  Unknown,     \* any UUID that the workflow document does not have
  Codes,       \* exit codes of client scripts
  StartChain,  \* pkg.startAtChainID of each iterator
  StartLink,   \* pkg.startAtLinkID, the bypass, or Nil
  ChainLink,   \* the first link of each chain
  Link,        \* the links of the workflow document, see LinkType
  Vars,        \* names of unit variables
  Table,       \* where the package is: "Transfers" or "SIPs"
  MaxJobs,     \* bound: jobs of one iterator
  MaxCrashes,  \* bound: crashes of the server
  StoreFails   \* whether the store may refuse, or a processing configuration be invalid

\* preset: the processing configuration of the package, Nil when it says nothing
\* about the link; nobody checks that the UUID of a choice is one of its chains.
\* settings: a context link without replacements that has a dictionary in the
\* database.  target: config.LinkID.  unknown: a link without a runner.
LinkType ==
  [kind : {"client", "set", "get", "choice", "context", "unknown"},
   exits : UNION {[S -> [link : Links \cup {Nil}, step : {"complete", "failed"}]] : S \in SUBSET Codes},
   fallback : Links \cup {Nil}, fallbackStep : {"complete", "failed"},
   end : BOOLEAN, var : Vars, target : Links \cup {Nil},
   choices : SUBSET Chains, preset : Chains \cup Links \cup {Nil, Unknown}, settings : BOOLEAN]

ASSUME JobIteratorAssumption ==
  /\ Chains \cap Links = {}
  /\ {Nil, Unknown} \cap (Chains \cup Links) = {}
  /\ Nil # Unknown
  /\ 0 \in Codes
  /\ StartChain \in [Iterators -> Chains]
  /\ StartLink \in [Iterators -> Links \cup {Nil}]
  /\ ChainLink \in [Chains -> Links]
  /\ Link \in [Links -> LinkType]
  /\ Table \in {"Transfers", "SIPs"}
  /\ MaxJobs \in Nat
  /\ MaxCrashes \in Nat
  /\ StoreFails \in BOOLEAN

VARIABLES
  pc,         \* of each iterator
  next,       \* i.nextLink
  chain,      \* i.chain, Nil before the first chain
  n,          \* jobs each iterator has created
  ret,        \* the link its current job returned
  row,        \* the Jobs rows: <<iterator, number>> -> link, step and tasks
  status,     \* the status of the package row
  uvar,       \* UnitVariables: the link saved under each name, or Nil
  server,     \* up, down or starting (clean)
  stmt,       \* the statement of RemoveTransientData to run next
  cancelled,  \* groupCtx is done
  crashes

iter == <<pc, next, chain, n, ret>>
db   == <<row, status, uvar>>
env  == <<server, stmt, cancelled, crashes>>
vars == <<iter, db, env>>

Keys == Iterators \X (1..MaxJobs)
NoRow == [link |-> Nil, step |-> "none", tasks |-> "none"]
Open == {"executing", "awaiting"}

Init ==
  /\ pc = [i \in Iterators |-> "idle"]
  /\ next = [i \in Iterators |-> Nil]
  /\ chain = [i \in Iterators |-> Nil]
  /\ n = [i \in Iterators |-> 0]
  /\ ret = [i \in Iterators |-> Nil]
  /\ row = [k \in Keys |-> NoRow]
  /\ status = "unknown"
  /\ uvar = [v \in Vars |-> Nil]
  /\ server = "up"
  /\ stmt = 0
  /\ cancelled = FALSE
  /\ crashes = 0

Move(i, from, to) ==
  /\ server = "up"
  /\ pc[i] = from
  /\ pc' = [pc EXCEPT ![i] = to]

\* The row of the current job and the link it is for.
Current(i) == <<i, n[i]>>
CurrentLink(i) == Link[row[Current(i)].link]

\* UpdateJobStatus; no write succeeds once the context is done.
UpdateJob(i, step) ==
  /\ ~cancelled
  /\ row' = [row EXCEPT ![Current(i)].step = step]

Refused == StoreFails \/ cancelled

\* The package is picked.  A later iterator needs an earlier one to have run a
\* job, which moved the package to a watched directory.
Start(i) ==
  /\ (\A j \in Iterators : pc[j] = "idle") \/ (\E j \in Iterators : n[j] > 0)
  /\ Move(i, "idle", "top")
  /\ UNCHANGED <<next, chain, n, ret, db, env>>

-----------------------------------------------------------------------------
(* jobIterator.next, before the job is executed.                           *)

NextCancelled(i) ==
  /\ cancelled
  /\ Move(i, "top", "stopped")
  /\ UNCHANGED <<next, chain, n, ret, db, env>>

\* init: the package is marked as processing and its chain is next.  So it is
\* for a new iterator and for one whose last job named no link.
InitIterator(i) ==
  /\ ~cancelled
  /\ next[i] = Nil
  /\ Move(i, "top", "body")
  /\ status' = "processing"
  /\ next' = [next EXCEPT ![i] = StartChain[i]]
  /\ UNCHANGED <<chain, n, ret, row, uvar, env>>

InitFails(i) ==
  /\ StoreFails
  /\ next[i] = Nil
  /\ Move(i, "top", "stopped")
  /\ UNCHANGED <<next, chain, n, ret, db, env>>

Continue(i) ==
  /\ ~cancelled
  /\ next[i] # Nil
  /\ Move(i, "top", "body")
  /\ UNCHANGED <<next, chain, n, ret, db, env>>

\* A new chain: its context is loaded, the bypass overrides its first link.
EnterChain(i) ==
  /\ next[i] \in Chains
  /\ Move(i, "body", "top")
  /\ chain' = [chain EXCEPT ![i] = next[i]]
  /\ next' = [next EXCEPT ![i] =
                IF @ = StartChain[i] /\ StartLink[i] # Nil THEN StartLink[i] ELSE ChainLink[@]]
  /\ UNCHANGED <<n, ret, db, env>>

\* The context cannot be loaded: the iteration stops, the status is not updated.
EnterFails(i) ==
  /\ next[i] \in Chains
  /\ Refused
  /\ Move(i, "body", "stopped")
  /\ UNCHANGED <<next, chain, n, ret, db, env>>

\* buildJob finds the link and a runner for it.
Builds(i) == next[i] \in Links /\ Link[next[i]].kind # "unknown"

\* No such link, or no runner: the iteration stops, the status is not updated.
BuildFails(i) ==
  /\ next[i] \notin Chains
  /\ ~Builds(i)
  /\ Move(i, "body", "stopped")
  /\ UNCHANGED <<next, chain, n, ret, db, env>>

\* job.save: the row is created as executing.
SaveJob(i) ==
  /\ ~cancelled
  /\ Builds(i)
  /\ n[i] < MaxJobs
  /\ Move(i, "body", "run")
  /\ n' = [n EXCEPT ![i] = @ + 1]
  /\ row' = [row EXCEPT ![<<i, n[i] + 1>>] =
               [link |-> next[i], step |-> "executing", tasks |-> "none"]]
  /\ UNCHANGED <<next, chain, ret, status, uvar, env>>

\* job.save fails: an error of exec like any other.
SaveFails(i) ==
  /\ Builds(i)
  /\ n[i] < MaxJobs
  /\ Refused
  /\ Move(i, "body", "fail")
  /\ UNCHANGED <<next, chain, n, ret, db, env>>

-----------------------------------------------------------------------------
(* The job runners.                                                        *)

\* Fault: the fallback link is forgotten.
exitCodeLinkIDNoFallback(l, code) ==
  IF code \in DOMAIN l.exits THEN l.exits[code].link ELSE Nil

\* Used by the jobs that are not client scripts, with code 0.
exitCodeLinkID(l, code) ==
  IF code \in DOMAIN l.exits /\ l.exits[code].link # Nil THEN l.exits[code].link ELSE l.fallback

\* The job returned a link and no error.
Returns(i, link) ==
  /\ Move(i, "run", "ran")
  /\ ret' = [ret EXCEPT ![i] = link]
  /\ UNCHANGED <<next, chain, n, row, status, env>>

RunSetUnitVar(i) ==
  /\ CurrentLink(i).kind = "set"
  /\ CurrentLink(i).target # Nil
  /\ ~cancelled
  /\ uvar' = [uvar EXCEPT ![CurrentLink(i).var] = CurrentLink(i).target]
  /\ Returns(i, exitCodeLinkID(CurrentLink(i), 0))

\* CreateUnitVar: both value and linkID are zero.
RunSetUnitVarZero(i) ==
  /\ CurrentLink(i).kind = "set"
  /\ CurrentLink(i).target = Nil
  /\ Move(i, "run", "fail")
  /\ UNCHANGED <<next, chain, n, ret, db, env>>

RunGetUnitVar(i) ==
  /\ CurrentLink(i).kind = "get"
  /\ ~cancelled
  /\ LET saved == uvar[CurrentLink(i).var]
     IN Returns(i, IF saved = Nil THEN CurrentLink(i).target ELSE saved)
  /\ UNCHANGED uvar

\* A preconfigured choice.  That the link has some available chain is checked,
\* not that the preconfigured UUID is one of them.
RunPreconfiguredChoice(i) ==
  /\ CurrentLink(i).kind = "choice"
  /\ CurrentLink(i).preset # Nil
  /\ CurrentLink(i).choices # {}
  /\ Returns(i, CurrentLink(i).preset)
  /\ UNCHANGED uvar

RunChoiceUnavailable(i) ==
  /\ CurrentLink(i).kind = "choice"
  /\ CurrentLink(i).preset # Nil
  /\ CurrentLink(i).choices = {}
  /\ Move(i, "run", "fail")
  /\ UNCHANGED <<next, chain, n, ret, db, env>>

\* loadDatabaseContext: the dictionary of the next link, from the settings.
RunDatabaseContext(i) ==
  /\ CurrentLink(i).kind = "context"
  /\ CurrentLink(i).settings
  /\ ~cancelled
  /\ Returns(i, exitCodeLinkID(CurrentLink(i), 0))
  /\ UNCHANGED uvar

\* loadPreconfiguredContext: the configuration names one of the replacements.
RunPreconfiguredContext(i) ==
  /\ CurrentLink(i).kind = "context"
  /\ ~CurrentLink(i).settings
  /\ CurrentLink(i).preset # Nil
  /\ Returns(i, exitCodeLinkID(CurrentLink(i), 0))
  /\ UNCHANGED uvar

\* errWait, and markAwaitingDecision.
RunAwait(i) ==
  /\ \/ CurrentLink(i).kind = "choice"
     \/ CurrentLink(i).kind = "context" /\ ~CurrentLink(i).settings
  /\ CurrentLink(i).preset = Nil
  /\ Move(i, "run", "await")
  /\ UpdateJob(i, "awaiting")
  /\ UNCHANGED <<next, chain, n, ret, status, uvar, env>>

\* A client script: the tasks are saved without exit codes and submitted.
RunClient(i) ==
  /\ CurrentLink(i).kind = "client"
  /\ ~cancelled
  /\ Move(i, "run", "tasks")
  /\ row' = [row EXCEPT ![Current(i)].tasks = "null"]
  /\ UNCHANGED <<next, chain, n, ret, status, uvar, env>>

\* A worker saves the exit codes, whatever the server is doing.
WorkerSaves(i) ==
  /\ n[i] > 0
  /\ row[Current(i)].tasks \in {"null", "lost"}
  /\ row' = [row EXCEPT ![Current(i)].tasks = "coded"]
  /\ UNCHANGED <<iter, status, uvar, env>>

\* The code is known: the tasks are done, or the package has no files.
CodeKnown(i, code) ==
  \/ pc[i] = "tasks" /\ row[Current(i)].tasks = "coded"
  \/ pc[i] = "run" /\ CurrentLink(i).kind = "client" /\ code = 0

ExitStep(l, code) == IF code \in DOMAIN l.exits THEN l.exits[code].step ELSE l.fallbackStep
ExitLink(l, code) == IF code \in DOMAIN l.exits THEN l.exits[code].link ELSE l.fallback

\* Fault: the final status is not remembered, so markComplete runs as well.
RecordExitForgets(i, code) ==
  LET l == CurrentLink(i)
  IN /\ CodeKnown(i, code)
     /\ Move(i, pc[i], IF ExitLink(l, code) = Nil THEN "eof" ELSE "ran")
     /\ UpdateJob(i, ExitStep(l, code))
     /\ ret' = [ret EXCEPT ![i] = ExitLink(l, code)]
     /\ UNCHANGED <<next, chain, n, status, uvar, env>>

\* updateStatusFromExitCode; a missing link is the end of the chain (io.EOF).
\* finalStatusRecorded keeps markComplete from touching the row again.
RecordExit(i, code) ==
  LET l == CurrentLink(i)
  IN /\ CodeKnown(i, code)
     /\ Move(i, pc[i], IF ExitLink(l, code) = Nil THEN "eof" ELSE "top")
     /\ UpdateJob(i, ExitStep(l, code))
     /\ next' = [next EXCEPT ![i] = IF ExitLink(l, code) = Nil THEN @ ELSE ExitLink(l, code)]
     /\ UNCHANGED <<chain, n, ret, status, uvar, env>>

\* job.exec: markComplete.
MarkComplete(i) ==
  /\ Move(i, "ran", "top")
  /\ UpdateJob(i, "complete")
  /\ next' = [next EXCEPT ![i] = ret[i]]
  /\ UNCHANGED <<chain, n, ret, status, uvar, env>>

\* The job returned an error: the store, the context, or the tasks.
ExecFails(i) ==
  /\ Refused
  /\ \E from \in {"run", "tasks", "ran"} : Move(i, from, "fail")
  /\ UNCHANGED <<next, chain, n, ret, db, env>>

-----------------------------------------------------------------------------
(* The end of a job: a decision, the end of the chain, a failure.          *)

\* Fault: the decider does not mark the job as complete.
DecideUnmarked(i, link) ==
  /\ ~cancelled
  /\ Move(i, "await", "top")
  /\ next' = [next EXCEPT ![i] = link]
  /\ UNCHANGED <<chain, n, ret, db, env>>

\* The decision is resolved: decide marks the job complete, and the controller
\* sets the next link of the iterator.
Decide(i, link) ==
  /\ Move(i, "await", "top")
  /\ UpdateJob(i, "complete")
  /\ next' = [next EXCEPT ![i] = link]
  /\ UNCHANGED <<chain, n, ret, status, uvar, env>>

\* What a resolution may choose.
Resolutions(i) ==
  IF CurrentLink(i).kind = "choice" THEN CurrentLink(i).choices
                                    ELSE {exitCodeLinkID(CurrentLink(i), 0)}

\* The context is done, or decide failed: the status is not updated.
AwaitFails(i) ==
  /\ Refused
  /\ Move(i, "await", "stopped")
  /\ UNCHANGED <<next, chain, n, ret, db, env>>

\* Fault: every end of a chain marks the package as done.
EndOfChainDone(i) ==
  /\ Move(i, "eof", "stopped")
  /\ status' = "done"
  /\ UNCHANGED <<next, chain, n, ret, row, uvar, env>>

\* io.EOF: the package is done only after a terminal link; an error in
\* markAsDone is logged.
EndOfChain(i) ==
  /\ Move(i, "eof", "stopped")
  /\ \/ CurrentLink(i).end /\ ~cancelled /\ status' = "done"
     \/ (CurrentLink(i).end => Refused) /\ UNCHANGED status
  /\ UNCHANGED <<next, chain, n, ret, row, uvar, env>>

\* markAsFailed; an error in it is logged.
MarkFailed(i) ==
  /\ Move(i, "fail", "stopped")
  /\ \/ ~cancelled /\ status' = "failed"
     \/ Refused /\ UNCHANGED status
  /\ UNCHANGED <<next, chain, n, ret, row, uvar, env>>

-----------------------------------------------------------------------------
(* Close, crash, and the clean-up of Server.Run.                           *)

Close ==
  /\ server = "up"
  /\ ~cancelled
  /\ cancelled' = TRUE
  /\ UNCHANGED <<iter, db, server, stmt, crashes>>

\* The process dies, also during the clean-up (a failed statement ends it).
Crash ==
  /\ server # "down"
  /\ crashes < MaxCrashes
  /\ crashes' = crashes + 1
  /\ server' = "down"
  /\ pc' = [i \in Iterators |-> IF pc[i] = "idle" THEN "idle" ELSE "stopped"]
  /\ UNCHANGED <<next, chain, n, ret, db, stmt, cancelled>>

Boot ==
  /\ server = "down"
  /\ server' = "clean"
  /\ stmt' = 1
  /\ cancelled' = FALSE
  /\ UNCHANGED <<iter, db, crashes>>

\* Fault: only the packages in processing are marked as failed.
CleanUpPackagesProcessing(table) ==
  status' = IF Table = table /\ status = "processing" THEN "failed" ELSE status

\* CleanUpActiveTransfers and CleanUpActiveSIPs.
CleanUpPackages(table) ==
  status' = IF Table = table /\ status \in {"unknown", "processing"} THEN "failed" ELSE status

\* What statement s does to a row of Jobs and its tasks.
CleanUpRow(r, s) ==
  CASE s = 1 /\ r.tasks = "null" -> [r EXCEPT !.tasks = "lost"]
    [] s = 3 /\ r.step = "awaiting" -> [r EXCEPT !.tasks = "none"]
    [] s = 4 /\ r.step = "awaiting" -> NoRow
    [] s = 6 /\ r.step = "executing" -> [r EXCEPT !.step = "failed"]
    [] OTHER -> r

\* RemoveTransientData: six statements, each one committed on its own.
CleanUp ==
  /\ server = "clean"
  /\ row' = [k \in Keys |-> CleanUpRow(row[k], stmt)]
  /\ CASE stmt = 2 -> CleanUpPackages("Transfers")
       [] stmt = 5 -> CleanUpPackages("SIPs")
       [] OTHER -> UNCHANGED status
  /\ stmt' = (stmt + 1) % 7
  /\ server' = IF stmt = 6 THEN "up" ELSE "clean"
  /\ UNCHANGED <<iter, uvar, cancelled, crashes>>

-----------------------------------------------------------------------------

BeforeJob(i) ==
  \/ NextCancelled(i) \/ InitIterator(i) \/ InitFails(i) \/ Continue(i)
  \/ EnterChain(i) \/ EnterFails(i) \/ BuildFails(i) \/ SaveJob(i) \/ SaveFails(i)

RunJob(i) ==
  \/ RunSetUnitVar(i) \/ RunSetUnitVarZero(i) \/ RunGetUnitVar(i)
  \/ RunPreconfiguredChoice(i) \/ RunChoiceUnavailable(i)
  \/ RunDatabaseContext(i) \/ RunPreconfiguredContext(i)
  \/ RunAwait(i) \/ RunClient(i)
  \/ \E code \in Codes : RecordExit(i, code)
  \/ MarkComplete(i) \/ ExecFails(i)

AfterJob(i) == AwaitFails(i) \/ EndOfChain(i) \/ MarkFailed(i)

Resolve(i) == pc[i] = "await" /\ \E link \in Resolutions(i) : Decide(i, link)

IterStep(i) == BeforeJob(i) \/ (pc[i] \in {"run", "tasks", "ran"} /\ RunJob(i)) \/ AfterJob(i)

ServerStep == Close \/ Crash \/ Boot \/ CleanUp

Next ==
  \/ \E i \in Iterators : Start(i) \/ IterStep(i) \/ WorkerSaves(i) \/ Resolve(i)
  \/ ServerStep

Spec == Init /\ [][Next]_vars

(***************************************************************************)
(* Goroutines are scheduled and workers answer.  Nobody has to resolve a   *)
(* decision, and the server need not be started again.                     *)
(***************************************************************************)
Fairness == \A i \in Iterators : WF_vars(IterStep(i)) /\ WF_vars(WorkerSaves(i))

FairSpec == Spec /\ Fairness

-----------------------------------------------------------------------------
(* Properties.                                                             *)

\* The variables have their types: an iterator is at a chain, a link, uuid.Nil or
\* a UUID that is neither, and the clean-up runs its six statements and no other.
TypeOK ==
  /\ pc \in [Iterators -> {"idle", "top", "body", "run", "tasks", "ran", "await", "eof", "fail",
                           "stopped"}]
  /\ next \in [Iterators -> Chains \cup Links \cup {Nil, Unknown}]
  /\ chain \in [Iterators -> Chains \cup {Nil}]
  /\ n \in [Iterators -> 0..MaxJobs]
  /\ ret \in [Iterators -> Chains \cup Links \cup {Nil, Unknown}]
  /\ row \in [Keys -> [link : Links \cup {Nil},
                       step : {"none", "executing", "awaiting", "complete", "failed"},
                       tasks : {"none", "null", "lost", "coded"}]]
  /\ status \in {"unknown", "processing", "done", "failed"}
  /\ uvar \in [Vars -> Links \cup {Nil}]
  /\ server \in {"up", "down", "clean"}
  /\ stmt \in 0..6
  /\ cancelled \in BOOLEAN
  /\ crashes \in 0..MaxCrashes

\* At most one job of an iterator is open in the database, its latest: it is
\* closed before the iterator goes on, and a row that awaits a decision, which
\* FindAwaitingJob returns to the API, has an iterator that awaits it unless
\* the iteration was abandoned.
OpenJobIsCurrent ==
  \A i \in Iterators, k \in 1..MaxJobs : row[<<i, k>>].step \in Open =>
    /\ k = n[i]
    /\ pc[i] \notin {"idle", "top", "body"}
    /\ server = "up" /\ row[<<i, k>>].step = "awaiting" => pc[i] \in {"await", "stopped"}

\* The status that an exit code or a decision gave to a job is final: neither
\* markComplete nor a restart rewrites it.
FinalStatusIsKept ==
  [][\A k \in Keys : row[k].step \in {"complete", "failed"} => row'[k].step = row[k].step]_vars

\* A package is done only once the job of a terminal link was recorded, however
\* the iterators of the package overlap and whatever crashed before.
DoneHasTerminalJob ==
  status = "done" => \E k \in Keys : /\ row[k].link # Nil /\ Link[row[k].link].end
                                     /\ row[k].step \in {"complete", "failed"}

\* When the server is up again nothing looks as if it were being processed: no
\* package is unknown or processing, no job executes or awaits, no task lacks
\* its exit code, even when the clean-up itself was interrupted.
RestartIsClean ==
  [][server # "up" /\ server' = "up" =>
       /\ status' \notin {"unknown", "processing"}
       /\ \A k \in Keys : row'[k].step \notin Open /\ row'[k].tasks # "null"]_vars

\* Link l names no next link: the variable it pulls has none and neither has its
\* configuration, or it has no exit code and no fallback to go on with.  (For a
\* client script that is the end of the chain.)
NamesNothing(l) ==
  \/ l.kind = "get" /\ l.target = Nil
  \/ /\ l.kind \in {"set", "context"}
     /\ l.fallback = Nil /\ (0 \in DOMAIN l.exits => l.exits[0].link = Nil)

\* Iterator i completed such a job: uuid.Nil sent it to the start of its chain.
StartedOver(i) ==
  \E k \in 1..n[i] : /\ row[<<i, k>>].step = "complete"
                      /\ NamesNothing(Link[row[<<i, k>>].link])

\* In a workflow without cycles an iteration stops or awaits a decision, through
\* any failure of the store, crash or Close, with one exception: an iterator may
\* go round forever once a job of it named no next link, which next takes for a
\* new iterator (iterator.go:69, jobs_local.go:87).
IterationEnds ==
  \A i \in Iterators : pc[i] = "top" ~> (pc[i] \in {"stopped", "await"} \/ StartedOver(i))
=============================================================================
