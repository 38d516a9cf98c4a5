----------------------------- MODULE Controller -----------------------------
(***************************************************************************)
(* The package controller of CCP (internal/controller/controller.go).      *)
(*                                                                         *)
(* Packages arrive from the admin API (Submit) or from the filesystem      *)
(* watcher (Notify), are appended to queuedPackages and are moved by pick  *)
(* to activePackages, where a goroutine of an errgroup iterates over the   *)
(* jobs of the package.  A goroutine whose job needs a human decision      *)
(* moves its package to awaitingPackages and back when it is resolved.     *)
(* The lists are protected by one mutex, c.mu.  pick starts the goroutine  *)
(* with group.Go while it holds c.mu, and group.Go blocks while the group  *)
(* has reached its limit.                                                  *)
(*                                                                         *)
(* An element of Pkgs stands for one *Package object together with the     *)
(* goroutine that processes it.  Two objects may carry the same package    *)
(* id: a transfer that reaches a watched directory is notified again while *)
(* the goroutine that moved it there is still finishing.  The entries of   *)
(* activePackages are only ever compared by id, so the model keeps ids.    *)
(***************************************************************************)
EXTENDS Integers, Sequences, FiniteSets, SequencesExt

CONSTANTS
  Submitted,      \* packages created by Controller.Submit
  Notified,       \* packages created by Controller.Notify
  Attended,       \* packages some of whose decisions are not preconfigured
  Ids,            \* package identifiers
  IdOf,           \* the identifier of each package object
  Ticker,         \* the goroutine started by Controller.Run
  Free,           \* "nobody holds c.mu"
  MaxConcurrent,  \* maxConcurrentPackages (2 in the code)
  GroupLimit,     \* the limit of the errgroup (10 in the code)
  MaxJobs         \* bound: jobs in the workflow path of a package

Pkgs == Submitted \cup Notified
Threads == Pkgs \cup {Ticker}  \* who calls pick: submitter of p, or ticker

ASSUME ControllerAssumption ==
  /\ IsFiniteSet(Pkgs)
  /\ Submitted \cap Notified = {}
  /\ Attended \subseteq Pkgs
  /\ IdOf \in [Pkgs -> Ids]
  /\ Ticker \notin Pkgs
  /\ Free \notin Threads
  /\ MaxConcurrent \in Nat \ {0}
  /\ GroupLimit \in Nat \ {0}
  /\ MaxJobs \in Nat \ {0}

VARIABLES
  queued,      \* c.queuedPackages
  active,      \* c.activePackages, as ids
  awaiting,    \* c.awaitingPackages; a decision is named by its package object
  pc,          \* where the goroutine of each package is
  jobs,        \* jobs executed so far for each package
  res,         \* the resolution channel of the package's current decision
  thr,         \* the callers of pick
  mu,          \* the thread that holds c.mu inside group.Go, or Free
  cancelled,   \* groupCtx is done
  closer,      \* progress of Controller.Close
  activeGauge, \* metrics.ActivePackageGauge
  queueGauge   \* metrics.PackageQueueLengthGauge, summed over its labels

lists  == <<queued, active, awaiting>>
gauges == <<activeGauge, queueGauge>>
vars   == <<lists, pc, jobs, res, thr, mu, cancelled, closer, gauges>>

(***************************************************************************)
(* The states of a package goroutine, in the order they are reached.       *)
(*   next    at the top of the loop, before iter.next checks the context   *)
(*   exec    inside iter.next, a job is executing                          *)
(*   toAwait a job returned errWait, about to lock c.mu in queueToAwait    *)
(*   await   blocked in decision.await                                     *)
(*   resume  decision.await returned a link, about to dequeueFromAwait     *)
(*   abandon decision.await returned an error, about to dequeueFromAwait   *)
(*   leave   the loop returned, about to lock c.mu in deactivate           *)
(*   exit    the function returned, the errgroup slot not released yet     *)
(***************************************************************************)
Outside   == {"idle", "queued"}
Listed    == {"go", "next", "exec", "toAwait", "leave"}
Waiting   == {"await", "resume", "abandon"}
PCs       == Outside \cup Listed \cup Waiting \cup {"exit", "done"}

\* Goroutines that occupy a slot of the errgroup.
Goroutines == {p \in Pkgs : pc[p] \notin Outside \cup {"go", "done"}}

Init ==
  /\ queued = <<>>
  /\ active = <<>>
  /\ awaiting = [i \in Ids |-> <<>>]
  /\ pc = [p \in Pkgs |-> "idle"]
  /\ jobs = [p \in Pkgs |-> 0]
  /\ res = [p \in Pkgs |-> FALSE]
  /\ thr = [t \in Threads |-> "idle"]
  /\ mu = Free
  /\ cancelled = FALSE
  /\ closer = "open"
  /\ activeGauge = 0
  /\ queueGauge = 0

Move(p, from, to) ==
  /\ pc[p] = from
  /\ pc' = [pc EXCEPT ![p] = to]

-----------------------------------------------------------------------------
(* Arrival: Submit, Notify and queue.                                      *)

\* Fault: the queue length gauge is not incremented.
EnqueueUncounted(p) ==
  /\ mu = Free
  /\ Move(p, "idle", "queued")
  /\ queued' = Append(queued, p)
  /\ UNCHANGED queueGauge

\* Controller.queue: one critical section.
Enqueue(p) ==
  /\ mu = Free
  /\ Move(p, "idle", "queued")
  /\ queued' = Append(queued, p)
  /\ queueGauge' = queueGauge + 1

\* The copy of a submitted transfer is complete: queue(pkg), then pick().  The
\* copying goroutine does not look at groupCtx, so this may follow Close.
Submit(p) ==
  /\ Enqueue(p)
  /\ thr' = [thr EXCEPT ![p] = "pick"]
  /\ UNCHANGED <<active, awaiting, jobs, res, mu, cancelled, closer, activeGauge>>

\* All the notifications come from the one goroutine of the watcher, which runs
\* pick before it handles the next event.
WatcherIdle == \A q \in Notified : thr[q] \notin {"pick", "go"}

\* A directory appears in a watched directory.
Notify(p) ==
  /\ WatcherIdle
  /\ Enqueue(p)
  /\ thr' = [thr EXCEPT ![p] = "pick"]
  /\ UNCHANGED <<active, awaiting, jobs, res, mu, cancelled, closer, activeGauge>>

-----------------------------------------------------------------------------
(* pick, called by the submitter of a package and by the ticker.           *)

\* Controller.Run: the select of the ticker goroutine.
Tick ==
  /\ thr[Ticker] = "idle"
  /\ thr' = [thr EXCEPT ![Ticker] = "pick"]
  /\ UNCHANGED <<lists, pc, jobs, res, mu, cancelled, closer, gauges>>

\* Fault: the ticker goroutine may stop although nobody cancelled the context.
TickerDoneEarly ==
  /\ thr[Ticker] = "idle"
  /\ thr' = [thr EXCEPT ![Ticker] = "end"]
  /\ UNCHANGED <<lists, pc, jobs, res, mu, cancelled, closer, gauges>>

TickerDone ==
  /\ thr[Ticker] = "idle"
  /\ cancelled
  /\ thr' = [thr EXCEPT ![Ticker] = "end"]
  /\ UNCHANGED <<lists, pc, jobs, res, mu, cancelled, closer, gauges>>

\* What a caller does once pick returns.
Returned(t) == IF t = Ticker THEN "idle" ELSE "end"

\* The test that opens pick.
AtLimit == Len(active) = MaxConcurrent

\* pick has nothing to start.
PickNothing(t) ==
  /\ thr[t] = "pick"
  /\ mu = Free
  /\ AtLimit \/ queued = <<>>
  /\ thr' = [thr EXCEPT ![t] = Returned(t)]
  /\ UNCHANGED <<lists, pc, jobs, res, mu, cancelled, closer, gauges>>

\* Fault: the newest package is picked.
PickStartNewest(t) ==
  /\ thr[t] = "pick"
  /\ mu = Free
  /\ ~AtLimit
  /\ queued # <<>>
  /\ Move(Last(queued), "queued", "go")
  /\ active' = Append(active, IdOf[Last(queued)])
  /\ queued' = Front(queued)
  /\ activeGauge' = activeGauge + 1
  /\ thr' = [thr EXCEPT ![t] = "go"]
  /\ mu' = t
  /\ UNCHANGED <<awaiting, jobs, res, cancelled, closer, queueGauge>>

\* pick moves the oldest queued package to the active list and calls group.Go
\* with c.mu locked.
PickStart(t) ==
  /\ thr[t] = "pick"
  /\ mu = Free
  /\ ~AtLimit
  /\ queued # <<>>
  /\ Move(Head(queued), "queued", "go")
  /\ active' = Append(active, IdOf[Head(queued)])
  /\ queued' = Tail(queued)
  /\ activeGauge' = activeGauge + 1
  /\ thr' = [thr EXCEPT ![t] = "go"]
  /\ mu' = t
  /\ UNCHANGED <<awaiting, jobs, res, cancelled, closer, queueGauge>>

\* Fault: the group has no limit.
GroupGoUnlimited(t) ==
  /\ thr[t] = "go"
  /\ \E p \in Pkgs : Move(p, "go", "next")
  /\ thr' = [thr EXCEPT ![t] = Returned(t)]
  /\ mu' = Free
  /\ UNCHANGED <<lists, jobs, res, cancelled, closer, gauges>>

\* group.Go obtains a slot; pick then returns and unlocks c.mu.
GroupGo(t) ==
  /\ thr[t] = "go"
  /\ Cardinality(Goroutines) < GroupLimit
  /\ \E p \in Pkgs : Move(p, "go", "next")
  /\ thr' = [thr EXCEPT ![t] = Returned(t)]
  /\ mu' = Free
  /\ UNCHANGED <<lists, jobs, res, cancelled, closer, gauges>>

-----------------------------------------------------------------------------
(* The goroutine of a package.                                             *)

\* iter.next starts by checking the context.
NextCancelled(p) ==
  /\ cancelled
  /\ Move(p, "next", "leave")
  /\ UNCHANGED <<lists, jobs, res, thr, mu, cancelled, closer, gauges>>

\* Fault: the context is not checked before a job is run.
NextJobUnchecked(p) ==
  /\ Move(p, "next", "exec")
  /\ jobs' = [jobs EXCEPT ![p] = @ + 1]
  /\ UNCHANGED <<lists, res, thr, mu, cancelled, closer, gauges>>

NextJob(p) ==
  /\ ~cancelled
  /\ Move(p, "next", "exec")
  /\ jobs' = [jobs EXCEPT ![p] = @ + 1]
  /\ UNCHANGED <<lists, res, thr, mu, cancelled, closer, gauges>>

\* The job succeeded and names the next link.
JobContinues(p) ==
  /\ jobs[p] < MaxJobs
  /\ Move(p, "exec", "next")
  /\ UNCHANGED <<lists, jobs, res, thr, mu, cancelled, closer, gauges>>

\* The job was the last one (errEnd, io.EOF) or it failed: the loop returns.
JobEnds(p) ==
  /\ Move(p, "exec", "leave")
  /\ UNCHANGED <<lists, jobs, res, thr, mu, cancelled, closer, gauges>>

\* The job returned errWait with a new decision, whose channel is empty.
JobWaits(p) ==
  /\ p \in Attended
  /\ jobs[p] < MaxJobs
  /\ Move(p, "exec", "toAwait")
  /\ res' = [res EXCEPT ![p] = FALSE]
  /\ UNCHANGED <<lists, jobs, thr, mu, cancelled, closer, gauges>>

\* Fault: the loop that removes the package has no break.
QueueToAwaitAll(p) ==
  /\ mu = Free
  /\ Move(p, "toAwait", "await")
  /\ active' = SelectSeq(active, LAMBDA i : i # IdOf[p])
  /\ awaiting' = [awaiting EXCEPT ![IdOf[p]] = Append(@, p)]
  /\ UNCHANGED <<queued, jobs, res, thr, mu, cancelled, closer, gauges>>

\* Controller.queueToAwait: when the id is not in the active list the function
\* returns early, and its caller goes on to wait for the decision anyway.
QueueToAwait(p) ==
  /\ mu = Free
  /\ Move(p, "toAwait", "await")
  /\ IF Contains(active, IdOf[p])
     THEN /\ active' = RemoveFirst(active, IdOf[p])
          /\ awaiting' = [awaiting EXCEPT ![IdOf[p]] = Append(@, p)]
     ELSE UNCHANGED <<active, awaiting>>
  /\ UNCHANGED <<queued, jobs, res, thr, mu, cancelled, closer, gauges>>

\* Controller.ResolveDecision finds the decision in awaitingPackages under a
\* read lock and sends the choice.  (The module Decision models the locks.)
ResolveDecision(p) ==
  /\ mu = Free
  /\ Contains(awaiting[IdOf[p]], p)
  /\ ~res[p]
  /\ res' = [res EXCEPT ![p] = TRUE]
  /\ UNCHANGED <<lists, pc, jobs, thr, mu, cancelled, closer, gauges>>

\* decision.await received a choice and the decider accepted it.
AwaitResolved(p) ==
  /\ res[p]
  /\ Move(p, "await", "resume")
  /\ UNCHANGED <<lists, jobs, res, thr, mu, cancelled, closer, gauges>>

\* Fault: the select does not listen to the context.
AwaitFailedResolvedOnly(p) ==
  /\ res[p]
  /\ Move(p, "await", "abandon")
  /\ UNCHANGED <<lists, jobs, res, thr, mu, cancelled, closer, gauges>>

\* decision.await fails: the context is done, or the decider returned an error.
AwaitFailed(p) ==
  /\ cancelled \/ res[p]
  /\ Move(p, "await", "abandon")
  /\ UNCHANGED <<lists, jobs, res, thr, mu, cancelled, closer, gauges>>

\* Fault: every decision of the package is deleted, not only this one.
DequeueFromAwaitAll(p, from, to) ==
  /\ mu = Free
  /\ Move(p, from, to)
  /\ awaiting' = [awaiting EXCEPT ![IdOf[p]] = <<>>]
  /\ active' = Append(active, IdOf[p])
  /\ UNCHANGED <<queued, jobs, res, thr, mu, cancelled, closer, gauges>>

\* Controller.dequeueFromAwait, deferred by await on both outcomes.  It puts the
\* package back in the active list and never looks at the limit.
DequeueFromAwait(p, from, to) ==
  /\ mu = Free
  /\ Move(p, from, to)
  /\ IF Contains(awaiting[IdOf[p]], p)
     THEN /\ awaiting' = [awaiting EXCEPT ![IdOf[p]] = RemoveFirst(@, p)]
          /\ active' = Append(active, IdOf[p])
     ELSE UNCHANGED <<awaiting, active>>
  /\ UNCHANGED <<queued, jobs, res, thr, mu, cancelled, closer, gauges>>

\* Fault: c.mu is not locked.
DeactivateUnlocked(p) ==
  /\ Move(p, "leave", "exit")
  /\ IF Contains(active, IdOf[p])
     THEN /\ active' = RemoveFirst(active, IdOf[p])
          /\ activeGauge' = activeGauge - 1
          /\ queueGauge' = queueGauge - 1
     ELSE UNCHANGED <<active, gauges>>
  /\ UNCHANGED <<queued, awaiting, jobs, res, thr, mu, cancelled, closer>>

\* Controller.deactivate, deferred by the function the errgroup runs.
Deactivate(p) ==
  /\ mu = Free
  /\ Move(p, "leave", "exit")
  /\ IF Contains(active, IdOf[p])
     THEN /\ active' = RemoveFirst(active, IdOf[p])
          /\ activeGauge' = activeGauge - 1
          /\ queueGauge' = queueGauge - 1
     ELSE UNCHANGED <<active, gauges>>
  /\ UNCHANGED <<queued, awaiting, jobs, res, thr, mu, cancelled, closer>>

\* errgroup: the slot is released and the wait group is decremented.
GroupDone(p) ==
  /\ Move(p, "exit", "done")
  /\ UNCHANGED <<lists, jobs, res, thr, mu, cancelled, closer, gauges>>

-----------------------------------------------------------------------------
(* Controller.Close: groupCancel, then group.Wait.                         *)

CloseCancel ==
  /\ closer = "open"
  /\ cancelled' = TRUE
  /\ closer' = "wait"
  /\ UNCHANGED <<lists, pc, jobs, res, thr, mu, gauges>>

CloseReturn ==
  /\ closer = "wait"
  /\ Goroutines = {}
  /\ closer' = "closed"
  /\ UNCHANGED <<lists, pc, jobs, res, thr, mu, cancelled, gauges>>

-----------------------------------------------------------------------------

PickStep(t) == PickNothing(t) \/ PickStart(t) \/ GroupGo(t)

NextStep(p) == NextCancelled(p) \/ NextJob(p)

JobStep(p) == JobContinues(p) \/ JobEnds(p) \/ JobWaits(p)

AwaitStep(p) == AwaitResolved(p) \/ AwaitFailed(p)

LockStep(p) ==
  \/ QueueToAwait(p)
  \/ DequeueFromAwait(p, "resume", "next")
  \/ DequeueFromAwait(p, "abandon", "leave")
  \/ Deactivate(p)

Next ==
  \/ \E p \in Submitted : Submit(p)
  \/ \E p \in Notified : Notify(p)
  \/ Tick
  \/ TickerDone
  \/ \E t \in Threads : PickStep(t)
  \/ \E p \in Pkgs :
       \/ NextStep(p)
       \/ JobStep(p)
       \/ AwaitStep(p)
       \/ LockStep(p)
       \/ ResolveDecision(p)
       \/ GroupDone(p)
  \/ CloseCancel
  \/ CloseReturn

Spec == Init /\ [][Next]_vars

\* What the goroutine of a package does next, but for waiting for a decision.
GoroutineStep(p) == NextStep(p) \/ JobStep(p) \/ AwaitStep(p) \/ LockStep(p) \/ GroupDone(p)

(***************************************************************************)
(* Fairness.  Go schedules every runnable goroutine; a waiter of a         *)
(* sync.RWMutex is not starved (strong fairness where c.mu is needed); the *)
(* select of the ticker goroutine chooses among its ready cases at random; *)
(* a worker answers every job.  Nothing is assumed of the users: Submit,   *)
(* Notify, ResolveDecision and Close may never happen.                     *)
(***************************************************************************)
Fairness ==
  /\ WF_vars(Tick)
  /\ SF_vars(TickerDone)
  /\ \A t \in Threads : SF_vars(PickStep(t))
  /\ \A p \in Pkgs : SF_vars(GoroutineStep(p))
  /\ WF_vars(CloseReturn)

FairSpec == Spec /\ Fairness

-----------------------------------------------------------------------------
(* Properties.                                                             *)

Occurrences(s, x) == Cardinality({k \in DOMAIN s : s[k] = x})

\* The variables have their types; in particular no gauge goes below zero,
\* however queue, pick and deactivate interleave.
TypeOK ==
  /\ queued \in Seq(Pkgs)
  /\ active \in Seq(Ids)
  /\ awaiting \in [Ids -> Seq(Pkgs)]
  /\ pc \in [Pkgs -> PCs]
  /\ jobs \in [Pkgs -> 0..MaxJobs]
  /\ res \in [Pkgs -> BOOLEAN]
  /\ thr \in [Threads -> {"idle", "pick", "go", "end"}]
  /\ mu \in Threads \cup {Free}
  /\ cancelled \in BOOLEAN
  /\ closer \in {"open", "wait", "closed"}
  /\ activeGauge \in Nat
  /\ queueGauge \in Nat

\* The active list holds an id exactly as often as there are goroutines that
\* process a package with that id and do not wait for a decision.  queueToAwait
\* and deactivate remove by id, so with two objects of the same package one
\* may remove the entry of the other: the counts have to agree all the same.
ActiveMatchesGoroutines ==
  \A i \in Ids :
    Occurrences(active, i) = Cardinality({p \in Pkgs : IdOf[p] = i /\ pc[p] \in Listed})

\* A decision is listed in awaitingPackages, where ResolveDecision and the API
\* look it up, exactly while its goroutine waits for it, and only once: no
\* goroutine waits for a decision nobody can find, and none is left behind.
AwaitingMatchesGoroutines ==
  \A p \in Pkgs, i \in Ids :
    Occurrences(awaiting[i], p) = IF i = IdOf[p] /\ pc[p] \in Waiting THEN 1 ELSE 0

\* queuedPackages holds the packages that wait for pick, each one once.
QueuedMatchesPackages ==
  \A p \in Pkgs : Occurrences(queued, p) = IF pc[p] = "queued" THEN 1 ELSE 0

\* However the submitters and the ticker race in pick, one of them at a time is
\* inside group.Go, with exactly one package that has no slot yet: the package
\* whose goroutine it starts is the one it took from the queue.
PickHoldsLock ==
  /\ \A t \in Threads : thr[t] = "go" => mu = t
  /\ mu # Free => \E p \in Pkgs : \A q \in Pkgs : pc[q] = "go" <=> q = p
  /\ mu = Free => \A p \in Pkgs : pc[p] # "go"

\* Packages leave queuedPackages in the order in which they entered it,
\* whichever of the submitters and the ticker calls pick.
QueueIsFIFO ==
  [][\A j \in DOMAIN queued : \A k \in 1..j :
       Contains(queued', queued[k]) => Contains(queued', queued[j])]_vars

\* Once Close has returned no job is executing and nobody waits for a decision,
\* although a late Submit may still start a goroutine.
ClosedRunsNothing ==
  closer = "closed" => \A p \in Pkgs : pc[p] \notin {"exec", "toAwait"} \cup Waiting

(***************************************************************************)
(* The refinement mapping.  A package inside group.Go has no slot yet: it  *)
(* is still the first of the line.  A goroutine that left the lists keeps  *)
(* its slot until the errgroup releases it.                                *)
(***************************************************************************)
Line == IF mu = Free THEN queued ELSE <<CHOOSE p \in Pkgs : pc[p] = "go">> \o queued

Phase ==
  [p \in Pkgs |-> CASE pc[p] = "idle"             -> "new"
                    [] pc[p] \in {"queued", "go"}  -> "waiting"
                    [] pc[p] \in Waiting           -> "deciding"
                    [] pc[p] = "done"              -> "finished"
                    [] OTHER                       -> "running"]

Answered == {p \in Pkgs : pc[p] \in Waiting /\ res[p]}

Service == CASE closer = "open" -> "open" [] closer = "wait" -> "closing" [] OTHER -> "closed"

Lifecycle ==
  INSTANCE PackageLifecycle
  WITH Packages <- Pkgs, Asking <- Attended, Slots <- GroupLimit,
       line <- Line, phase <- Phase, answered <- Answered, service <- Service

\* The controller implements PackageLifecycle: whatever the interleaving of
\* submitters, watcher, ticker, decisions and Close, packages get their slot
\* in the order of arrival and once, never more of them than the errgroup
\* allows, leave a decision only when it was resolved or Close was called, and
\* Close returns only when none is in progress.
Refines == Lifecycle!Spec

\* At most maxConcurrentPackages are active at any time.
ActiveWithinLimit == Len(active) <= MaxConcurrent

\* pick holds c.mu and waits in group.Go for a slot, and every slot is taken by a
\* goroutine that needs c.mu before it can release it: nobody ever moves again.
Stuck ==
  /\ mu # Free
  /\ Cardinality(Goroutines) = GroupLimit
  /\ \A p \in Goroutines : pc[p] # "exit"

\* Stuck is a deadlock and not a delay: no resolution, no end of a job and no
\* Close takes the controller out of it.
StuckIsForever == [][Stuck => Stuck']_vars

\* A queued package is picked eventually, unless the controller is closed or
\* Stuck: a pick that found the list full is repeated, and a package that waits
\* for a decision forever holds the others up only when it has the last slot.
QueuedIsPicked ==
  \A p \in Pkgs : pc[p] = "queued" ~> (pc[p] # "queued" \/ cancelled \/ Stuck)

\* Once groupCancel is called every goroutine abandons and Close returns.  The
\* one thing that may keep it from returning is a pick inside group.Go, which
\* does not look at the context, with c.mu locked and no slot to come (Stuck).
CloseReturns == closer = "wait" ~> (closer = "closed" \/ Stuck)

=============================================================================
