---------------------------- MODULE TaskBackend ----------------------------
(***************************************************************************)
(* A client script job of CCP and the batches it sends to the workers      *)
(* (internal/controller/task.go and jobs_client.go; worker/worker/client). *)
(*                                                                         *)
(* The goroutine of the job creates one task per file, groups the tasks in *)
(* batches, saves each batch in the store and submits it to the embedded   *)
(* Gearman server.  One goroutine per batch waits for the answer of the    *)
(* worker and merges the results.  When all of them have finished the job  *)
(* records the status that corresponds to the highest exit code.           *)
(***************************************************************************)
EXTENDS Integers, Sequences, FiniteSets, SequencesExt

CONSTANTS
  NumTasks,   \* the files of the package (1 for a directory job)
  BatchSize,  \* batchSize (128 in the code)
  ExitCodes,  \* exit codes a client script may return
  Faults,     \* how a batch may go wrong: subset of {"raise", "garbled"}
  MayCancel   \* whether the controller is closed at some point

Tasks == 1..NumTasks
Batches == 1..NumTasks

ASSUME TaskBackendAssumption ==
  /\ NumTasks \in Nat
  /\ BatchSize \in Nat \ {0}
  /\ ExitCodes \subseteq Nat /\ 0 \in ExitCodes
  /\ Faults \subseteq {"raise", "garbled"}
  /\ MayCancel \in BOOLEAN

NoCode == -1   \* NULL: no exit code yet
NoRow == -2    \* the task has not been saved

VARIABLES
  pc,           \* of the job: submit, wait, record, done, failed
  submitted,    \* tasks created so far
  batch,        \* b.batch, the tasks of the current batch
  sent,         \* b.tasks, one sequence per batch sent
  listener,     \* the goroutine that waits for each batch
  gearman,      \* batches in the job server or with a worker
  done,         \* the channel of each batch: the update received from Gearman
  results,      \* b.results: the exit code of each task, or NoCode
  row,          \* Tasks table: the exit code, NoCode or NoRow
  recorded,     \* the exit code that gave the job its status, or NoCode
  cancelled,    \* the context is done
  pendingGauge, \* metrics.GearmanPendingJobsGauge
  activeGauge   \* metrics.GearmanActiveJobsGauge

backend == <<submitted, batch, sent>>
vars == <<pc, backend, listener, gearman, done, results, row, recorded, cancelled,
          pendingGauge, activeGauge>>

\* The tasks of a batch.
In(b) == ToSet(sent[b])

Nothing == [type |-> "none"]

Init ==
  /\ pc = "submit"
  /\ submitted = 0
  /\ batch = <<>>
  /\ sent = <<>>
  /\ listener = [b \in Batches |-> "none"]
  /\ gearman = {}
  /\ done = [b \in Batches |-> Nothing]
  /\ results = [t \in Tasks |-> NoCode]
  /\ row = [t \in Tasks |-> NoRow]
  /\ recorded = NoCode
  /\ cancelled = FALSE
  /\ pendingGauge = 0
  /\ activeGauge = 0

-----------------------------------------------------------------------------
(* taskBackend.submit and sendBatch, in the goroutine of the job.          *)

\* Fault: a batch that is not full is cut one short.
CutShort(ln) == IF ln < BatchSize THEN ln - 1 ELSE BatchSize

\* The size of the batch taken from the end of b.batch.
Cut(ln) == IF ln < BatchSize THEN ln ELSE BatchSize

\* sendBatch with b.batch = tasks: the batch is cut off, saved in the store
\* (which fails once the context is done) and submitted to Gearman.
SendBatch(tasks) ==
  LET ln    == Len(tasks)
      first == SubSeq(tasks, 1, ln - Cut(ln))
      cut   == SubSeq(tasks, ln - Cut(ln) + 1, ln)
      b     == Len(sent) + 1
  IN /\ ~cancelled
     /\ batch' = first
     /\ sent' = Append(sent, cut)
     /\ row' = [t \in Tasks |-> IF Contains(cut, t) THEN NoCode ELSE row[t]]
     /\ listener' = [listener EXCEPT ![b] = "listen"]
     /\ gearman' = gearman \cup {b}
     /\ activeGauge' = activeGauge + 1

\* The task completes no batch.
SubmitTask ==
  LET tasks == Append(batch, submitted + 1)
  IN /\ pc = "submit"
     /\ submitted < NumTasks
     /\ Len(tasks) % BatchSize # 0
     /\ submitted' = submitted + 1
     /\ batch' = tasks
     /\ UNCHANGED <<pc, sent, listener, gearman, done, results, row, recorded, cancelled,
                    pendingGauge, activeGauge>>

\* The task completes a batch, which is sent: the pending gauge goes up in
\* submit and down again in sendBatch.
SubmitFull ==
  LET tasks == Append(batch, submitted + 1)
  IN /\ pc = "submit"
     /\ submitted < NumTasks
     /\ Len(tasks) % BatchSize = 0
     /\ submitted' = submitted + 1
     /\ SendBatch(tasks)
     /\ UNCHANGED <<pc, done, results, recorded, cancelled, pendingGauge>>

\* wait: what is left in the current batch is sent (sendBatch decrements the
\* pending gauge that nobody incremented), then the goroutine waits.
Wait ==
  /\ pc = "submit"
  /\ submitted = NumTasks
  /\ pc' = "wait"
  /\ IF Len(batch) > 0
     THEN SendBatch(batch) /\ pendingGauge' = pendingGauge - 1
     ELSE UNCHANGED <<batch, sent, listener, gearman, row, pendingGauge, activeGauge>>
  /\ UNCHANGED <<submitted, done, results, recorded, cancelled>>

\* The batch cannot be saved: the job fails, batches sent before are forgotten.
\* The pending gauge of a full batch has been incremented and stays so.
SaveFails ==
  /\ pc = "submit"
  /\ \/ /\ submitted < NumTasks
        /\ (Len(batch) + 1) % BatchSize = 0
        /\ submitted' = submitted + 1
        /\ pendingGauge' = pendingGauge + 1
     \/ /\ submitted = NumTasks
        /\ Len(batch) > 0
        /\ UNCHANGED <<submitted, pendingGauge>>
  /\ pc' = "failed"
  /\ batch' = <<>>
  /\ UNCHANGED <<sent, listener, gearman, done, results, row, recorded, cancelled,
                 activeGauge>>

-----------------------------------------------------------------------------
(* The worker: MCPGearmanWorker.handle_job, run_task and Job.              *)

\* _format_job_results: the exit code of each task of the batch.
Answer(codes) == [type |-> "complete", codes |-> codes]

\* The script handled every task of the batch: each row gets its exit code and
\* the results go back; what arrives may not be decodable.
WorkerCompletes(b) ==
  /\ b \in gearman
  /\ gearman' = gearman \ {b}
  /\ \E codes \in [In(b) -> ExitCodes] :
       /\ row' = [t \in Tasks |-> IF t \in In(b) THEN codes[t] ELSE row[t]]
       /\ \/ done' = [done EXCEPT ![b] = Answer(codes)]
          \/ /\ "garbled" \in Faults
             /\ done' = [done EXCEPT ![b] = [type |-> "garbled"]]
  /\ UNCHANGED <<pc, backend, listener, results, recorded, cancelled, pendingGauge,
                 activeGauge>>

\* The script raised: every task of the batch is marked failed with exit code 1
\* and the exception makes the Gearman job fail, without data.
WorkerRaises(b) ==
  /\ b \in gearman
  /\ "raise" \in Faults
  /\ gearman' = gearman \ {b}
  /\ row' = [t \in Tasks |-> IF t \in In(b) THEN 1 ELSE row[t]]
  /\ done' = [done EXCEPT ![b] = [type |-> "fail"]]
  /\ UNCHANGED <<pc, backend, listener, results, recorded, cancelled, pendingGauge,
                 activeGauge>>

-----------------------------------------------------------------------------
(* The goroutine of a batch: handleJobUpdate.                              *)

\* Fault: only the results of the latest batch are kept.
MergeLatest(b, u) ==
  results' = [t \in Tasks |-> IF t \in In(b) THEN u.codes[t] ELSE NoCode]

\* The loop over b.tasks under b.mu.
Merge(b, u) ==
  results' = [t \in Tasks |-> IF t \in In(b) THEN u.codes[t] ELSE results[t]]

\* Fault: the goroutine goes on listening after a failure.
HandleJobUpdateCompleteOnly(b) ==
  /\ listener[b] = "listen"
  /\ done[b].type = "complete"
  /\ ~cancelled
  /\ listener' = [listener EXCEPT ![b] = "gone"]
  /\ activeGauge' = activeGauge - 1
  /\ Merge(b, done[b])
  /\ UNCHANGED <<pc, backend, gearman, done, row, recorded, cancelled, pendingGauge>>

\* A failure, an exception and data that cannot be decoded leave no result.
HandleJobUpdate(b) ==
  /\ listener[b] = "listen"
  /\ done[b] # Nothing
  /\ ~cancelled
  /\ listener' = [listener EXCEPT ![b] = "gone"]
  /\ activeGauge' = activeGauge - 1
  /\ IF done[b].type = "complete" THEN Merge(b, done[b]) ELSE UNCHANGED results
  /\ UNCHANGED <<pc, backend, gearman, done, row, recorded, cancelled, pendingGauge>>

\* The context is done: the update, if any, is ignored.
ListenerCancelled(b) ==
  /\ listener[b] = "listen"
  /\ cancelled
  /\ listener' = [listener EXCEPT ![b] = "gone"]
  /\ UNCHANGED <<pc, backend, gearman, done, results, row, recorded, cancelled,
                 pendingGauge, activeGauge>>

-----------------------------------------------------------------------------
(* waitGroup, processTaskResults and updateStatusFromExitCode.             *)

\* Fault: the job goes on when any batch is done.
WaitGroupAny ==
  /\ pc = "wait"
  /\ Len(sent) = 0 \/ \E b \in 1..Len(sent) : listener[b] = "gone"
  /\ pc' = "record"
  /\ UNCHANGED <<backend, listener, gearman, done, results, row, recorded, cancelled,
                 pendingGauge, activeGauge>>

WaitGroup ==
  /\ pc = "wait"
  /\ \A b \in 1..Len(sent) : listener[b] = "gone"
  /\ pc' = "record"
  /\ UNCHANGED <<backend, listener, gearman, done, results, row, recorded, cancelled,
                 pendingGauge, activeGauge>>

WaitCancelled ==
  /\ pc = "wait"
  /\ cancelled
  /\ pc' = "failed"
  /\ UNCHANGED <<backend, listener, gearman, done, results, row, recorded, cancelled,
                 pendingGauge, activeGauge>>

\* The loop of processTaskResults over the results received, from 0.
MaxExitCode == Max({0} \cup {results[t] : t \in Tasks})

\* The status is saved; the store refuses once the context is done.
Record ==
  /\ pc = "record"
  /\ ~cancelled
  /\ recorded' = MaxExitCode
  /\ pc' = "done"
  /\ UNCHANGED <<backend, listener, gearman, done, results, row, cancelled, pendingGauge,
                 activeGauge>>

RecordFails ==
  /\ pc = "record"
  /\ pc' = "failed"
  /\ UNCHANGED <<backend, listener, gearman, done, results, row, recorded, cancelled,
                 pendingGauge, activeGauge>>

Cancel ==
  /\ MayCancel
  /\ ~cancelled
  /\ cancelled' = TRUE
  /\ UNCHANGED <<pc, backend, listener, gearman, done, results, row, recorded,
                 pendingGauge, activeGauge>>

-----------------------------------------------------------------------------

JobStep ==
  \/ SubmitTask \/ SubmitFull \/ Wait \/ SaveFails
  \/ WaitGroup \/ WaitCancelled \/ Record \/ RecordFails

WorkerStep(b) == WorkerCompletes(b) \/ WorkerRaises(b)

ListenerStep(b) == HandleJobUpdate(b) \/ ListenerCancelled(b)

Next ==
  \/ JobStep
  \/ \E b \in Batches : WorkerStep(b) \/ ListenerStep(b)
  \/ Cancel

Spec == Init /\ [][Next]_vars

(***************************************************************************)
(* Goroutines are scheduled, and some worker takes and answers every batch *)
(* (the worker pool restarts the workers that exit).                       *)
(***************************************************************************)
Fairness ==
  /\ WF_vars(JobStep)
  /\ \A b \in Batches : WF_vars(WorkerStep(b)) /\ WF_vars(ListenerStep(b))

FairSpec == Spec /\ Fairness

-----------------------------------------------------------------------------
(* Properties.                                                             *)

\* The variables have their types: no more batches than tasks are sent, and
\* GearmanActiveJobsGauge does not go below zero.
TypeOK ==
  /\ pc \in {"submit", "wait", "record", "done", "failed"}
  /\ submitted \in 0..NumTasks
  /\ batch \in Seq(Tasks)
  /\ sent \in Seq(Seq(Tasks)) /\ Len(sent) <= NumTasks
  /\ listener \in [Batches -> {"none", "listen", "gone"}]
  /\ gearman \subseteq Batches
  /\ results \in [Tasks -> ExitCodes \cup {NoCode}]
  /\ row \in [Tasks -> ExitCodes \cup {1, NoCode, NoRow}]
  /\ recorded \in ExitCodes \cup {NoCode}
  /\ cancelled \in BOOLEAN
  /\ pendingGauge \in Int
  /\ activeGauge \in Nat

\* Every task created is in the current batch or in exactly one batch sent, in
\* order, and no batch is empty or larger than batchSize; once the job waits
\* nothing is left behind.
TasksArePartitioned ==
  /\ pc # "failed" => FlattenSeq(sent) \o batch = [t \in 1..submitted |-> t]
  /\ \A b \in 1..Len(sent) : Len(sent[b]) \in 1..BatchSize
  /\ pc \in {"wait", "record", "done"} => batch = <<>> /\ submitted = NumTasks

\* Results are merged batch by batch, by concurrent goroutines: the job has the
\* exit code of exactly the tasks whose batch was answered and handled, and
\* each one is the code the worker saved in the Tasks table.
ResultsMatchRows ==
  \A b \in 1..Len(sent) : \A t \in In(b) :
    /\ results[t] # NoCode => listener[b] = "gone" /\ done[b].type = "complete" /\ results[t] = row[t]
    /\ listener[b] = "gone" /\ ~cancelled /\ done[b].type = "complete" => results[t] = row[t]

\* The exit code that decides the status of the job and its next link is the
\* highest of the tasks whose batch was answered, however the answers of the
\* workers, their handling and Close interleave.
StatusIsHighestAnswered ==
  pc = "done" => recorded = Max({0} \cup UNION {{row[t] : t \in In(b)} :
                               b \in {c \in 1..Len(sent) : done[c].type = "complete"}})

\* The job finishes, whether or not batches fail and the controller is closed.
JobFinishes == <>(pc \in {"done", "failed"})
=============================================================================
