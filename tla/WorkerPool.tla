----------------------------- MODULE WorkerPool -----------------------------
(***************************************************************************)
(* The Python worker of CCP (worker/worker/client): a parent process that  *)
(* keeps a pool of Gearman worker processes, the thread that replaces the  *)
(* ones that end, the handler of termination signals, and what each worker *)
(* process does with a batch of tasks.                                     *)
(*                                                                         *)
(* A batch stands for its tasks: the table row of one of them is kept.     *)
(* All the batches are in the Gearman server from the start: a worker gets *)
(* one when it gets it, so this is no restriction.                         *)
(* What happens to a batch whose worker vanishes is up to the Gearman      *)
(* server: it may be handed out again or be lost.                          *)
(***************************************************************************)
EXTENDS Integers, Sequences, FiniteSets, FiniteSetsExt, SequencesExt

CONSTANTS
  Scripts,      \* the keys of SUPPORTED_MODULES
  Unloadable,   \* the scripts whose module cannot be imported
  Concurrency,  \* concurrent_instances() of each module that can
  WORKERS,      \* the setting ``workers``
  MaxTasks,     \* the setting ``max_tasks_per_child``, 0 for None
  Batches,      \* the Gearman jobs the server submits
  ScriptOf,     \* the script of each batch
  MaxCrashes,   \* bound: workers that die on their own
  MaxSignals    \* bound: termination signals sent to the parent

ASSUME WorkerPoolAssumption ==
  /\ IsFiniteSet(Scripts) /\ Scripts # {} /\ Unloadable \subseteq Scripts
  /\ Concurrency \in [Scripts -> Nat \ {0}]
  /\ WORKERS \in Nat \ {0} /\ MaxTasks \in Nat
  /\ IsFiniteSet(Batches) /\ ScriptOf \in [Batches -> Scripts] /\ "none" \notin Batches
  /\ MaxCrashes \in Nat /\ MaxSignals \in Nat

VARIABLES
  frames,     \* where the main thread is: main() and the handlers above it
  thread,     \* where the maintenance thread is
  shutdown,   \* shutdown_event, shared by all the processes
  state,      \* where the worker process of each index is
  inherits,   \* whether it was forked once the signal handlers were set
  processed,  \* its jobs_processed_count
  job,        \* the batch it works on
  batch,      \* each batch in the Gearman server
  row,        \* the Tasks row of each batch
  files,      \* live metrics files of the processes of each index
  crashes, signals

proc == <<state, inherits, processed, job>>
vars == <<frames, thread, shutdown, proc, batch, row, files, crashes, signals>>

-----------------------------------------------------------------------------
(* WorkerPool.__init__                                                     *)

\* get_module_concurrency: a module that is not there needs one worker.
WorkersRequired == [s \in Scripts |-> IF s \in Unloadable THEN 1 ELSE Concurrency[s]]

PoolSize == Min({WORKERS, Max({WorkersRequired[s] : s \in Scripts})})

Index == 0..(PoolSize - 1)

\* Fault: nothing is taken off script_workers_required.
RemainingForever == [i \in 0..PoolSize |-> WorkersRequired]

\* script_workers_required when the scripts of worker i are collected.
Remaining ==
  LET left[i \in 0..PoolSize] ==
        IF i = 0
        THEN WorkersRequired
        ELSE [s \in Scripts |-> IF left[i - 1][s] > 0 THEN left[i - 1][s] - 1 ELSE left[i - 1][s]]
  IN left

\* The scripts the worker of index i registers with Gearman.
InitScripts(i) == {s \in Scripts : Remaining[i][s] > 0}

-----------------------------------------------------------------------------
NoBatch == "none"
Working == {"begin", "call", "save", "reply"}
Alive(i) == state[i] \notin {"none", "exited"}
StopPoints == {"set", "thread", "terminate", "mark"}

Top == frames[Len(frames)]
Goto(at) == frames' = [frames EXCEPT ![Len(frames)] = at]

Init ==
  /\ frames = <<"start">>
  /\ thread = "none"
  /\ shutdown = FALSE
  /\ state = [i \in Index |-> "none"]
  /\ inherits = [i \in Index |-> FALSE]
  /\ processed = [i \in Index |-> 0]
  /\ job = [i \in Index |-> NoBatch]
  /\ batch = [b \in Batches |-> "queued"]
  /\ row = [b \in Batches |-> "new"]
  /\ files = [i \in Index |-> 0]
  /\ crashes = 0
  /\ signals = 0

-----------------------------------------------------------------------------
(* The parent process: main, WorkerPool.start and WorkerPool.stop.         *)

\* signal.signal has been called for both signals.
HandlersSet == frames[1] \in {"ready", "paused", "atexit"}

\* _start_worker for each index of S: fork inherits the signal handlers.
StartWorkers(S) ==
  /\ state' = [i \in Index |-> IF i \in S THEN "boot" ELSE state[i]]
  /\ inherits' = [i \in Index |-> IF i \in S THEN HandlersSet ELSE inherits[i]]
  /\ processed' = [i \in Index |-> IF i \in S THEN 0 ELSE processed[i]]

\* start: one worker more.
StartOne ==
  \E i \in Index :
    /\ frames = <<"start">>
    /\ state[i] = "none" /\ \A k \in Index : k < i => state[k] # "none"
    /\ StartWorkers({i})
    /\ files' = [files EXCEPT ![i] = 1]
    /\ UNCHANGED <<frames, thread, shutdown, job, batch, row, crashes, signals>>

\* start: the maintenance thread.
StartThread ==
  /\ frames = <<"start">>
  /\ \A i \in Index : state[i] # "none"
  /\ thread' = "check"
  /\ Goto("install")
  /\ UNCHANGED <<shutdown, proc, batch, row, files, crashes, signals>>

\* main sets the handlers, then calls signal.pause().
Install ==
  /\ frames = <<"install">> /\ Goto("ready")
  /\ UNCHANGED <<thread, shutdown, proc, batch, row, files, crashes, signals>>

Pause ==
  /\ frames = <<"ready">> /\ Goto("paused")
  /\ UNCHANGED <<thread, shutdown, proc, batch, row, files, crashes, signals>>

\* A termination signal.  Without a handler the parent dies at once, and its
\* children, which are not daemons, live on.
Signal ==
  /\ signals < MaxSignals
  /\ frames[1] \notin {"gone", "killed"}
  /\ signals' = signals + 1
  /\ IF HandlersSet
     THEN /\ frames' = Append(frames, "set")
          /\ UNCHANGED thread
     ELSE /\ frames' = <<"killed">>
          /\ thread' = "done"
  /\ UNCHANGED <<shutdown, proc, batch, row, files, crashes>>

StopSet ==
  /\ Top = "set"
  /\ shutdown' = TRUE
  /\ Goto("thread")
  /\ UNCHANGED <<thread, proc, batch, row, files, crashes, signals>>

\* stop joins the maintenance thread.  (It then gives each worker a tenth of
\* a second to end, which changes nothing here.)
StopJoinThread ==
  /\ Top = "thread"
  /\ thread = "done"
  /\ Goto("terminate")
  /\ UNCHANGED <<thread, shutdown, proc, batch, row, files, crashes, signals>>

\* A batch whose worker vanished.
Dropped == {"queued", "lost"}

\* What SIGTERM makes of worker i: the next <<state, batch, row>>.  A worker
\* that has the default action dies.  In one that inherited the handler,
\* pool.stop raises RuntimeError, because the maintenance thread, forked, is
\* the current thread and cannot be joined: outside of a Gearman job that ends
\* the process; in one the client script may catch it (JobContext), run_task
\* may mark its tasks as failed, or the Gearman library reports the failure.
Terminated(i) ==
  LET b == job[i]
  IN CASE b = NoBatch -> {<<"exited", "", "">>}
       [] b # NoBatch /\ ~inherits[i] -> {<<"exited", d, row[b]>> : d \in Dropped}
       [] b # NoBatch /\ inherits[i] /\ state[i] = "call" ->
            {<<"call", "running", row[b]>>, <<"after", "failed", "failed">>}
       [] OTHER -> {<<"after", "failed", row[b]>>}

\* stop terminates the workers that are still alive.
StopTerminate ==
  /\ Top = "terminate"
  /\ \E out \in [Index -> UNION {Terminated(i) : i \in Index}] :
       LET hit == {i \in Index : Alive(i)}
           of(b) == {i \in hit : job[i] = b}
       IN /\ \A i \in Index : out[i] \in Terminated(i)
          /\ state' = [i \in Index |-> IF i \in hit THEN out[i][1] ELSE state[i]]
          /\ job' = [i \in Index |->
                       IF i \in hit /\ out[i][1] # "call" THEN NoBatch ELSE job[i]]
          /\ batch' = [b \in Batches |->
                         IF of(b) = {} THEN batch[b] ELSE out[CHOOSE i \in of(b) : TRUE][2]]
          /\ row' = [b \in Batches |->
                       IF of(b) = {} THEN row[b] ELSE out[CHOOSE i \in of(b) : TRUE][3]]
  /\ Goto("mark")
  /\ UNCHANGED <<thread, shutdown, inherits, processed, files, crashes, signals>>

\* stop removes the metrics files of the workers that have ended and returns:
\* signal.pause() returns after a handler ran in it, and main() with it.
StopMark ==
  /\ Top = "mark"
  /\ files' = [i \in Index |-> IF Alive(i) THEN files[i] ELSE 0]
  /\ LET below == Front(frames)
     IN frames' = IF below = <<"paused">> THEN <<"atexit">> ELSE below
  /\ UNCHANGED <<thread, shutdown, proc, batch, row, crashes, signals>>

\* Python joins the children, which are not daemons, before it exits.
Exit ==
  /\ frames = <<"atexit">>
  /\ \A i \in Index : ~Alive(i)
  /\ Goto("gone")
  /\ thread' = "done"
  /\ UNCHANGED <<shutdown, proc, batch, row, files, crashes, signals>>

-----------------------------------------------------------------------------
(* The maintenance thread: _maintain_pool and _restart_exited_workers.     *)

MaintainCheck ==
  /\ thread \in {"check", "sleep"}
  /\ thread' = IF thread = "sleep" THEN "check" ELSE IF shutdown THEN "done" ELSE "scan"
  /\ UNCHANGED <<frames, shutdown, proc, batch, row, files, crashes, signals>>

\* Fault: only workers that were recycled are replaced, not crashed ones.
RestartRecycled ==
  LET ended == {i \in Index : state[i] = "exited" /\ processed[i] > 0}
  IN /\ thread = "scan"
     /\ StartWorkers(ended)
     /\ files' = [i \in Index |-> IF i \in ended THEN 1 ELSE files[i]]
     /\ thread' = "sleep"
     /\ UNCHANGED <<frames, shutdown, job, batch, row, crashes, signals>>

\* The workers that have ended are marked dead in the metrics and replaced.
RestartExited ==
  LET ended == {i \in Index : state[i] = "exited"}
  IN /\ thread = "scan"
     /\ StartWorkers(ended)
     /\ files' = [i \in Index |-> IF i \in ended THEN 1 ELSE files[i]]
     /\ thread' = "sleep"
     /\ UNCHANGED <<frames, shutdown, job, batch, row, crashes, signals>>

-----------------------------------------------------------------------------
(* A worker process: run_gearman_worker, MCPGearmanWorker and run_task.    *)

To(i, s) == state' = [state EXCEPT ![i] = s]

\* The process loads the modules and registers its scripts.
Register(i) ==
  /\ state[i] = "boot"
  /\ To(i, "poll")
  /\ UNCHANGED <<frames, thread, shutdown, inherits, processed, job, batch, row, files,
                 crashes, signals>>

\* A poll that brings a job for one of the scripts of the worker.
Grab(i, b) ==
  /\ state[i] = "poll"
  /\ batch[b] = "queued" /\ ScriptOf[b] \in InitScripts(i)
  /\ To(i, "begin")
  /\ job' = [job EXCEPT ![i] = b]
  /\ batch' = [batch EXCEPT ![b] = "running"]
  /\ UNCHANGED <<frames, thread, shutdown, inherits, processed, row, files, crashes, signals>>

\* A poll that times out.
PollNothing(i) ==
  /\ state[i] = "poll"
  /\ To(i, "after")
  /\ UNCHANGED <<frames, thread, shutdown, inherits, processed, job, batch, row, files,
                 crashes, signals>>

\* run_task: the start times are saved.
SetStartTimes(i) ==
  /\ state[i] = "begin"
  /\ To(i, "call")
  /\ row' = [row EXCEPT ![job[i]] = IF @ = "new" THEN "started" ELSE @]
  /\ UNCHANGED <<frames, thread, shutdown, inherits, processed, job, batch, files, crashes,
                 signals>>

\* call() of the client script returns.
CallReturns(i) ==
  /\ state[i] = "call"
  /\ ScriptOf[job[i]] \notin Unloadable
  /\ To(i, "save")
  /\ UNCHANGED <<frames, thread, shutdown, inherits, processed, job, batch, row, files,
                 crashes, signals>>

\* call() raises, as it does when there is no module: the tasks are marked
\* failed, the exception goes on to the Gearman library, and the batch does
\* not count as processed.
CallRaises(i) ==
  /\ state[i] = "call"
  /\ row' = [row EXCEPT ![job[i]] = "failed"]
  /\ batch' = [batch EXCEPT ![job[i]] = "failed"]
  /\ job' = [job EXCEPT ![i] = NoBatch]
  /\ To(i, "after")
  /\ UNCHANGED <<frames, thread, shutdown, inherits, processed, files, crashes, signals>>

\* Fault: the results are answered before they are saved.
NotSaved(i) ==
  /\ state[i] = "save"
  /\ To(i, "reply")
  /\ UNCHANGED <<frames, thread, shutdown, inherits, processed, job, batch, row, files,
                 crashes, signals>>

\* run_task saves the results of the tasks.
UpdateTaskStatus(i) ==
  /\ state[i] = "save"
  /\ To(i, "reply")
  /\ row' = [row EXCEPT ![job[i]] = "ended"]
  /\ UNCHANGED <<frames, thread, shutdown, inherits, processed, job, batch, files, crashes,
                 signals>>

\* handle_job counts the batch and returns its results.
Reply(i) ==
  /\ state[i] = "reply"
  /\ processed' = [processed EXCEPT ![i] = @ + 1]
  /\ batch' = [batch EXCEPT ![job[i]] = "answered"]
  /\ job' = [job EXCEPT ![i] = NoBatch]
  /\ To(i, "after")
  /\ UNCHANGED <<frames, thread, shutdown, inherits, row, files, crashes, signals>>

\* Fault: a worker that is told to shut down goes on polling.
LeaveOnlyRecycled(i) == MaxTasks > 0 /\ processed[i] >= MaxTasks

\* after_poll says that the worker ends.
Leaves(i) == shutdown \/ (MaxTasks > 0 /\ processed[i] >= MaxTasks)

AfterPoll(i) ==
  /\ state[i] = "after"
  /\ To(i, IF Leaves(i) THEN "exited" ELSE "poll")
  /\ UNCHANGED <<frames, thread, shutdown, inherits, processed, job, batch, row, files,
                 crashes, signals>>

\* A worker dies on its own.
Crash(i) ==
  /\ crashes < MaxCrashes
  /\ Alive(i)
  /\ crashes' = crashes + 1
  /\ To(i, "exited")
  /\ job' = [job EXCEPT ![i] = NoBatch]
  /\ IF job[i] = NoBatch
     THEN UNCHANGED batch
     ELSE \E d \in Dropped : batch' = [batch EXCEPT ![job[i]] = d]
  /\ UNCHANGED <<frames, thread, shutdown, inherits, processed, row, files, signals>>

-----------------------------------------------------------------------------
Main == StartOne \/ StartThread \/ Install \/ Pause \/ StopSet \/ StopJoinThread
          \/ StopTerminate \/ StopMark \/ Exit
Maintain == MaintainCheck \/ RestartExited
Serve(i) == SetStartTimes(i) \/ CallReturns(i) \/ CallRaises(i) \/ UpdateTaskStatus(i)
              \/ Reply(i) \/ AfterPoll(i) \/ Register(i)
Poll(i) == PollNothing(i) \/ \E b \in Batches : Grab(i, b)

\* The parent is gone or was killed; or the signal came between the setting of
\* the handlers and signal.pause(), which now waits for another one.
Stopped ==
  /\ frames \in {<<"gone">>, <<"killed">>} \/ (frames = <<"paused">> /\ shutdown)
  /\ UNCHANGED vars

Next ==
  \/ Main \/ Signal \/ Maintain \/ Stopped
  \/ \E i \in Index : Serve(i) \/ Poll(i) \/ Crash(i)

\* The threads and processes run, client scripts return or raise, polls time
\* out, and the Gearman server hands a queued batch to a worker that keeps
\* asking for it.
Fairness ==
  /\ WF_vars(Main) /\ WF_vars(Maintain)
  /\ \A i \in Index : WF_vars(Serve(i)) /\ WF_vars(Poll(i))
  /\ \A b \in Batches : SF_vars(\E i \in Index : Grab(i, b))

Spec == Init /\ [][Next]_vars
LiveSpec == Spec /\ Fairness

-----------------------------------------------------------------------------
TypeOK ==
  /\ frames \in Seq({"start", "install", "ready", "paused", "atexit", "gone", "killed"}
                      \cup StopPoints)
  /\ Len(frames) \in 1..(1 + MaxSignals)
  /\ thread \in {"none", "check", "scan", "sleep", "done"}
  /\ shutdown \in BOOLEAN
  /\ state \in [Index -> {"none", "boot", "poll", "after", "exited"} \cup Working]
  /\ inherits \in [Index -> BOOLEAN]
  /\ processed \in [Index -> 0..(IF MaxTasks > 0 THEN MaxTasks ELSE Cardinality(Batches))]
  /\ job \in [Index -> Batches \cup {NoBatch}]
  /\ batch \in [Batches -> {"queued", "running", "answered", "failed", "lost"}]
  /\ row \in [Batches -> {"new", "started", "ended", "failed"}]
  /\ files \in [Index -> Nat]
  /\ crashes \in 0..MaxCrashes /\ signals \in 0..MaxSignals

\* "Only one process in the pool will handle tasks unless marked as safe for
\* concurrent instances" (pool.py): however the workers are replaced, no more
\* processes serve a script than it allows, and each batch has one worker.
WithinConcurrency ==
  /\ \A s \in Scripts :
       Cardinality({i \in Index : Alive(i) /\ s \in InitScripts(i)}) <= WorkersRequired[s]
  /\ \A b \in Batches :
       Cardinality({i \in Index : job[i] = b}) = IF batch[b] = "running" THEN 1 ELSE 0

\* A batch that was answered has its results in the Tasks table, also when it
\* was handed out again after a worker vanished (run_task, handle_job).
AnsweredIsSaved == \A b \in Batches : batch[b] = "answered" => row[b] = "ended"

\* A queued batch is taken by some worker unless the pool is told to stop:
\* each script stays registered through crashes and recycling of the workers.
QueuedIsTaken ==
  \A b \in Batches : batch[b] = "queued" ~> (batch[b] # "queued" \/ shutdown
                                               \/ frames[1] = "killed")

\* Whatever main() was doing, a handled signal ends every worker process,
\* those it was starting and those working on a batch included (stop).
SignalEndsWorkers ==
  (Len(frames) > 1) ~> (\A i \in Index : state[i] = "exited")
=============================================================================
