------------------------------ MODULE Decision ------------------------------
(***************************************************************************)
(* A decision of CCP and the locks around it                               *)
(* (internal/controller/jobs_decision.go and controller.go).               *)
(*                                                                         *)
(* The goroutine of a package waits in decision.await for a position on a  *)
(* channel of capacity one.  API handlers resolve the decision while they  *)
(* hold c.mu for reading and then lock the decision itself; handlers that  *)
(* list decisions hold c.mu for reading and lock the decision for reading. *)
(* Everything else the controller does needs c.mu for writing: the Writer  *)
(* stands for queue, pick and deactivate of the other packages.            *)
(*                                                                         *)
(* No name is one of Controller's: ControllerProofs extends both modules.  *)
(***************************************************************************)
EXTENDS Integers, Sequences, FiniteSets

CONSTANTS
  Resolvers,    \* calls of ResolveDecision and ResolveDecisionLegacy
  Listers,      \* calls of Decisions and PackageDecisions
  Awaiter,      \* the goroutine of the package
  Writer,       \* any other goroutine of the controller
  None,
  NumChoices,   \* len(d.choices)
  Requests,     \* what a resolver may ask for, see Request
  MaxInFlight   \* bound: calls that resolve the decision at the same time

\* by "pos": resolveWithPos, the position as given; by "choice":
\* resolveWithChoice, NumChoices standing for a choice that matches nothing.
Request == [by : {"pos", "choice"}, pos : 0..NumChoices]
Valid(q) == q.pos < NumChoices

ASSUME DecisionAssumption ==
  /\ NumChoices \in Nat \ {0}
  /\ Requests \subseteq Request
  /\ MaxInFlight \in Nat \ {0}
  /\ IsFiniteSet(Resolvers) /\ IsFiniteSet(Listers) /\ Resolvers \cap Listers = {}
  /\ Awaiter # Writer /\ {Awaiter, Writer, None} \cap (Resolvers \cup Listers) = {}
  /\ None \notin {Awaiter, Writer}

VARIABLES
  cmu,        \* c.mu
  dmu,        \* the RWMutex embedded in the decision
  chan,       \* d.res
  resolved,   \* d.resolved
  listed,     \* the decision is in c.awaitingPackages
  at,         \* where every actor is
  req,        \* the request of each resolver
  out,        \* what each resolver returned
  applied,    \* the position the awaiter acted upon
  closing,    \* groupCtx is done
  panicked    \* the process died of an unrecovered panic

decisionVars == <<cmu, dmu, chan, resolved, listed, at, req, out, applied, closing, panicked>>

Actors == Resolvers \cup Listers \cup {Awaiter, Writer}

(***************************************************************************)
(* sync.RWMutex.  A writer first announces itself, which holds back new    *)
(* readers and other writers, and then waits for the readers to leave.     *)
(***************************************************************************)
Unlocked == [readers |-> 0, announced |-> None, writer |-> None]
MutexType == [readers : Nat, announced : Actors \cup {None}, writer : Actors \cup {None}]

Open(m) == m.announced = None /\ m.writer = None
RLocked(m) == [m EXCEPT !.readers = @ + 1]
RUnlocked(m) == [m EXCEPT !.readers = @ - 1]
Announced(m, a) == [m EXCEPT !.announced = a]
CanLock(m, a) == m.announced = a /\ m.readers = 0
Locked(m, a) == [m EXCEPT !.announced = None, !.writer = a]
WUnlocked(m) == [m EXCEPT !.writer = None]

At(a, here) == at[a] = here
Go(a, there) == at' = [at EXCEPT ![a] = there]

DecisionInit ==
  /\ cmu = Unlocked
  /\ dmu = Unlocked
  /\ chan = <<>>
  /\ resolved = FALSE
  /\ listed = TRUE
  /\ at = [a \in Actors |-> IF a = Awaiter THEN "await" ELSE "idle"]
  /\ req \in [Resolvers -> Requests]
  /\ out = [r \in Resolvers |-> "none"]
  /\ applied = None
  /\ closing = FALSE
  /\ panicked = FALSE

-----------------------------------------------------------------------------
(* ResolveDecision, ResolveDecisionLegacy, resolveWithPos and              *)
(* resolveWithChoice.                                                      *)

ResolvesInFlight == {r \in Resolvers : at[r] \notin {"idle", "done"}}

\* c.mu.RLock, released only when the call returns.
ResolveStart(r) ==
  /\ At(r, "idle") /\ Open(cmu)
  /\ Cardinality(ResolvesInFlight) < MaxInFlight
  /\ cmu' = RLocked(cmu)
  /\ Go(r, "lookup")
  /\ UNCHANGED <<dmu, chan, resolved, listed, req, out, applied, closing, panicked>>

\* The call returns: the deferred c.mu.RUnlock.
Return(r, result) ==
  /\ cmu' = RUnlocked(cmu)
  /\ out' = [out EXCEPT ![r] = result]
  /\ Go(r, "done")

\* Fault: an early return leaves c.mu locked for reading.
ResolveRefusedLocked(r) ==
  /\ At(r, "lookup")
  /\ out' = [out EXCEPT ![r] = "refused"]
  /\ Go(r, "done")
  /\ UNCHANGED <<cmu, dmu, chan, resolved, listed, req, applied, closing, panicked>>

\* The decision cannot be found, or the active agent cannot be saved.
ResolveRefused(r) ==
  /\ At(r, "lookup")
  /\ Return(r, "refused")
  /\ UNCHANGED <<dmu, chan, resolved, listed, req, applied, closing, panicked>>

ResolveFound(r) ==
  /\ At(r, "lookup") /\ listed
  /\ Go(r, "check")
  /\ UNCHANGED <<cmu, dmu, chan, resolved, listed, req, out, applied, closing, panicked>>

\* The decision is resolved already: the error path leaves d locked for reading.
CheckResolved(r) ==
  /\ At(r, "check") /\ Open(dmu) /\ resolved
  /\ dmu' = RLocked(dmu)
  /\ Return(r, "notPending")
  /\ UNCHANGED <<chan, resolved, listed, req, applied, closing, panicked>>

\* Not resolved: d.RLock is released, nothing is held when d.Lock is called.
CheckPending(r) ==
  /\ At(r, "check") /\ Open(dmu) /\ ~resolved
  /\ Go(r, "lock")
  /\ UNCHANGED <<cmu, dmu, chan, resolved, listed, req, out, applied, closing, panicked>>

LockAnnounce(r) ==
  /\ At(r, "lock") /\ Open(dmu)
  /\ dmu' = Announced(dmu, r)
  /\ Go(r, "locking")
  /\ UNCHANGED <<cmu, chan, resolved, listed, req, out, applied, closing, panicked>>

\* Fault: the decision is marked resolved before the choice is sent.
LockAcquireMarks(r) ==
  /\ At(r, "locking") /\ CanLock(dmu, r)
  /\ dmu' = Locked(dmu, r)
  /\ resolved' = TRUE
  /\ Go(r, "send")
  /\ UNCHANGED <<cmu, chan, listed, req, out, applied, closing, panicked>>

LockAcquire(r) ==
  /\ At(r, "locking") /\ CanLock(dmu, r)
  /\ dmu' = Locked(dmu, r)
  /\ Go(r, "send")
  /\ UNCHANGED <<cmu, chan, resolved, listed, req, out, applied, closing, panicked>>

\* resolveWithChoice found no such choice: the error path leaves d locked.
ChoiceUnmatched(r) ==
  /\ At(r, "send") /\ req[r].by = "choice" /\ ~Valid(req[r])
  /\ Return(r, "unmatched")
  /\ UNCHANGED <<dmu, chan, resolved, listed, req, applied, closing, panicked>>

SendLocked(r) ==
  /\ At(r, "send") /\ (req[r].by = "choice" => Valid(req[r]))
  /\ Len(chan) < 1
  /\ chan' = Append(chan, req[r].pos)
  /\ resolved' = TRUE
  /\ Return(r, "ok")
  /\ UNCHANGED <<dmu, listed, req, applied, closing, panicked>>

\* d.res <- pos blocks while the channel is full, with d and c.mu locked.
Send(r) ==
  /\ At(r, "send") /\ (req[r].by = "choice" => Valid(req[r]))
  /\ Len(chan) < 1
  /\ chan' = Append(chan, req[r].pos)
  /\ resolved' = TRUE
  /\ dmu' = WUnlocked(dmu)
  /\ Return(r, "ok")
  /\ UNCHANGED <<listed, req, applied, closing, panicked>>

-----------------------------------------------------------------------------
(* Decisions and PackageDecisions: convert takes d.RLock under c.mu.RLock. *)

ListStart(l) ==
  /\ At(l, "idle") /\ Open(cmu)
  /\ IF listed
     THEN cmu' = RLocked(cmu) /\ Go(l, "convert")
     ELSE UNCHANGED cmu /\ Go(l, "done")
  /\ UNCHANGED <<dmu, chan, resolved, listed, req, out, applied, closing, panicked>>

Convert(l) ==
  /\ At(l, "convert") /\ Open(dmu)
  /\ cmu' = RUnlocked(cmu)
  /\ Go(l, "done")
  /\ UNCHANGED <<dmu, chan, resolved, listed, req, out, applied, closing, panicked>>

-----------------------------------------------------------------------------
(* The awaiting goroutine: decision.await, then dequeueFromAwait.          *)

\* d.choices[pos]: the bounds check before it compares len(d.choices) with
\* itself and never fails, so a position out of range panics.
AwaitReceive ==
  /\ At(Awaiter, "await") /\ chan # <<>>
  /\ chan' = Tail(chan)
  /\ IF Head(chan) < NumChoices
     THEN applied' = Head(chan) /\ Go(Awaiter, "dequeue") /\ UNCHANGED panicked
     ELSE panicked' = TRUE /\ UNCHANGED <<applied, at>>
  /\ UNCHANGED <<cmu, dmu, resolved, listed, req, out, closing>>

AwaitCancelled ==
  /\ At(Awaiter, "await") /\ closing
  /\ Go(Awaiter, "dequeue")
  /\ UNCHANGED <<cmu, dmu, chan, resolved, listed, req, out, applied, closing, panicked>>

\* c.mu.Lock by the awaiter (dequeueFromAwait) and by the writer.
Announce(a, here, there) ==
  /\ At(a, here) /\ Open(cmu)
  /\ cmu' = Announced(cmu, a)
  /\ Go(a, there)
  /\ UNCHANGED <<dmu, chan, resolved, listed, req, out, applied, closing, panicked>>

\* dequeueFromAwait removes the decision and unlocks c.mu.
Dequeue ==
  /\ At(Awaiter, "locking") /\ CanLock(cmu, Awaiter)
  /\ cmu' = WUnlocked(Locked(cmu, Awaiter))
  /\ listed' = FALSE
  /\ Go(Awaiter, "done")
  /\ UNCHANGED <<dmu, chan, resolved, req, out, applied, closing, panicked>>

\* The critical section of another goroutine.
WriterStep ==
  /\ At(Writer, "locking") /\ CanLock(cmu, Writer)
  /\ cmu' = WUnlocked(Locked(cmu, Writer))
  /\ Go(Writer, "idle")
  /\ UNCHANGED <<dmu, chan, resolved, listed, req, out, applied, closing, panicked>>

\* Controller.Close: groupCancel.
Cancel ==
  /\ ~closing
  /\ closing' = TRUE
  /\ UNCHANGED <<cmu, dmu, chan, resolved, listed, at, req, out, applied, panicked>>

-----------------------------------------------------------------------------

ResolveStep(r) ==
  \/ ResolveRefused(r) \/ ResolveFound(r)
  \/ CheckResolved(r) \/ CheckPending(r)
  \/ LockAnnounce(r) \/ LockAcquire(r)
  \/ ChoiceUnmatched(r) \/ Send(r)

AwaiterStep ==
  \/ AwaitReceive \/ AwaitCancelled
  \/ Announce(Awaiter, "dequeue", "locking") \/ Dequeue

\* A panic that nobody recovers ends the process.
DecisionNext ==
  /\ ~panicked
  /\ \/ \E r \in Resolvers : ResolveStart(r) \/ ResolveStep(r)
     \/ \E l \in Listers : ListStart(l) \/ Convert(l)
     \/ AwaiterStep
     \/ Announce(Writer, "idle", "locking") \/ WriterStep
     \/ Cancel

DecisionSpec == DecisionInit /\ [][DecisionNext]_decisionVars

(***************************************************************************)
(* Goroutines are scheduled and a waiter of a RWMutex is not starved.      *)
(* Calls of the API and Close need not happen.                             *)
(***************************************************************************)
DecisionFairness ==
  /\ \A r \in Resolvers : SF_decisionVars(~panicked /\ ResolveStep(r))
  /\ \A l \in Listers : SF_decisionVars(~panicked /\ Convert(l))
  /\ SF_decisionVars(~panicked /\ AwaiterStep)
  /\ SF_decisionVars(~panicked /\ Announce(Writer, "idle", "locking"))
  /\ WF_decisionVars(~panicked /\ WriterStep)

DecisionFairSpec == DecisionSpec /\ DecisionFairness

-----------------------------------------------------------------------------
(* Properties.                                                             *)

\* The variables have their types: the channel never holds more than one
\* position, and neither mutex is unlocked more often than it was locked.
DecisionTypeOK ==
  /\ cmu \in MutexType
  /\ dmu \in MutexType
  /\ chan \in Seq(0..NumChoices) /\ Len(chan) <= 1
  /\ resolved \in BOOLEAN
  /\ listed \in BOOLEAN
  /\ at \in [Actors -> {"idle", "lookup", "check", "lock", "locking", "send", "convert",
                        "await", "dequeue", "done"}]
  /\ req \in [Resolvers -> Requests]
  /\ out \in [Resolvers -> {"none", "refused", "notPending", "unmatched", "ok"}]
  /\ applied \in 0..NumChoices \cup {None}
  /\ closing \in BOOLEAN
  /\ panicked \in BOOLEAN

\* No accepted choice is lost while it can still be acted upon: as long as the
\* goroutine waits, a decision somebody resolved has a choice in its channel;
\* and the goroutine only acts upon a choice that a call asked for and was told
\* had been accepted.
AcceptedReachesAwaiter ==
  /\ resolved /\ at[Awaiter] = "await" /\ ~panicked => chan # <<>>
  /\ applied # None => \E r \in Resolvers : out[r] = "ok" /\ req[r].pos = applied

\* A call that failed left the decision locked, for writing because it matched no
\* choice or for reading because the decision was resolved while another call
\* was about to lock it, and a call that holds c.mu waits for the decision.
LeftLocked ==
  /\ \/ \E r \in Resolvers : at[r] \in {"check", "lock", "locking"}
     \/ \E l \in Listers : at[l] = "convert"
  /\ \E r \in Resolvers : \/ out[r] = "unmatched" /\ dmu.writer = r
                          \/ out[r] = "notPending" /\ dmu.announced # None

\* A call is about to send a second choice and nobody is left to receive one.
SenderStuck ==
  /\ at[Awaiter] # "await" /\ chan # <<>>
  /\ \E r \in Resolvers : at[r] = "send" /\ (req[r].by = "choice" => Valid(req[r]))

\* A call of the API blocks the controller for good, or ended the process.
Jammed == LeftLocked \/ SenderStuck \/ panicked

\* Every call that resolves the decision returns, unless the controller is
\* Jammed: by a call that returned an error without unlocking the decision
\* (jobs_decision.go:113, 128, 140), by a second send after Close
\* (jobs_decision.go:118, 142), or by a position out of range.
ResolveReturns == \A r \in Resolvers : at[r] = "lookup" ~> (at[r] = "done" \/ Jammed)

\* The other goroutines of the controller obtain c.mu in the end, whatever calls
\* and listings are under way, unless one of the same three things happened.
WriterProceeds == at[Writer] = "locking" ~> (at[Writer] = "idle" \/ Jammed)
=============================================================================
