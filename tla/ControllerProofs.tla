-------------------------- MODULE ControllerProofs --------------------------
(***************************************************************************)
(* Proofs about Controller, and about the locks around its decisions       *)
(* (Decision), for every value of their constants.                         *)
(***************************************************************************)
EXTENDS Controller, Decision, FiniteSetTheorems, SequenceTheorems, WellFoundedInduction, TLAPS

-----------------------------------------------------------------------------
(* Sequences: what Append, Tail and RemoveFirst do to Occurrences.         *)

\* t is s without its element at position k.
Dropped(s, k, t) ==
  /\ Len(t) = Len(s) - 1
  /\ \A j \in 1..Len(t) : t[j] = IF j < k THEN s[j] ELSE s[j + 1]

\* RemoveFirst removes a position of an element that occurs: the least exists.
LEMMA RemoveFirstPosition ==
  ASSUME NEW s, Len(s) \in Nat, NEW e, Contains(s, e)
  PROVE  \E k \in 1..Len(s) : s[k] = e /\ RemoveFirst(s, e) = RemoveAt(s, k)
<1> DEFINE I == {i \in 1..Len(s) : s[i] = e}
<1>1. I \subseteq Nat /\ I # {}
  BY DEF Contains
<1>2. IsWellFoundedOn({ss \in Nat \X Nat : ss[1] < ss[2]}, Nat)
  BY NatLessThanWellFounded DEF OpToRel
<1>3. \E k \in I : \A j \in I : k =< j
  <2> DEFINE R == {ss \in Nat \X Nat : ss[1] < ss[2]}
  <2>1. \E k \in I : \A j \in I : ~ (<<j, k>> \in R)
    <3> HIDE DEF R, I
    <3> QED BY <1>1, <1>2, WFMin DEF R
  <2>2. PICK k \in I : \A j \in I : ~ (<<j, k>> \in R)
    BY <2>1
  <2>3. ASSUME NEW j \in I PROVE k =< j
    <3>1. j \in Nat /\ k \in Nat
      BY <1>1
    <3>2. ~ (j < k)
      BY <2>2, <3>1
    <3> QED
      BY <3>1, <3>2
  <2> QED
    BY <2>3
<1>4. Min(I) \in I
  BY <1>3 DEF Min
<1>5. RemoveFirst(s, e) = RemoveAt(s, Min(I))
  BY <1>1 DEF SelectInSeq, RemoveFirst, Contains
<1> QED
  BY <1>4, <1>5

\* The number of occurrences is a natural number, zero when there is none.
LEMMA OccurrencesType ==
  ASSUME NEW S, NEW s \in Seq(S), NEW x
  PROVE  /\ IsFiniteSet({k \in DOMAIN s : s[k] = x})
         /\ Occurrences(s, x) \in Nat
         /\ Contains(s, x) <=> Occurrences(s, x) # 0
<1> DEFINE P == {k \in DOMAIN s : s[k] = x}
<1>1. IsFiniteSet(1..Len(s))
  BY FS_Interval
<1>2. IsFiniteSet(P)
  BY <1>1, FS_Subset
<1>3. Contains(s, x) <=> P # {}
  BY DEF Contains
<1> QED
  BY <1>2, <1>3, FS_CardinalityType, FS_EmptySet DEF Occurrences

\* An empty list has no occurrences.
LEMMA OccurrencesEmpty == \A x : Occurrences(<<>>, x) = 0
<1>1. \A x : {k \in DOMAIN <<>> : <<>>[k] = x} = {}
  OBVIOUS
<1> QED
  BY <1>1, FS_EmptySet DEF Occurrences

\* Append adds one occurrence of the element appended.
LEMMA OccurrencesAppend ==
  ASSUME NEW S, NEW s \in Seq(S), NEW y \in S, NEW x
  PROVE  /\ Append(s, y) \in Seq(S)
         /\ Len(Append(s, y)) = Len(s) + 1
         /\ Occurrences(Append(s, y), x) = Occurrences(s, x) + (IF x = y THEN 1 ELSE 0)
<1> DEFINE P == {k \in DOMAIN s : s[k] = x}
           Q == {k \in DOMAIN Append(s, y) : Append(s, y)[k] = x}
<1>1. IsFiniteSet(P) /\ Cardinality(P) \in Nat
  BY OccurrencesType DEF Occurrences
<1>10. Occurrences(s, x) = Cardinality(P) /\ Occurrences(Append(s, y), x) = Cardinality(Q)
  BY DEF Occurrences
<1>11. Append(s, y) \in Seq(S) /\ Len(Append(s, y)) = Len(s) + 1
  OBVIOUS
<1>2. CASE x = y
  <2>1. Q = P \cup {Len(s) + 1}
    <3>1. \A k \in 1..(Len(s) + 1) : Append(s, y)[k] = IF k = Len(s) + 1 THEN y ELSE s[k]
      OBVIOUS
    <3>2. DOMAIN Append(s, y) = 1..(Len(s) + 1) /\ DOMAIN s = 1..Len(s)
      OBVIOUS
    <3> QED
      BY <1>2, <3>1, <3>2
  <2>2. Len(s) + 1 \notin P
    OBVIOUS
  <2> HIDE DEF P, Q
  <2>3. Cardinality(P \cup {Len(s) + 1}) = Cardinality(P) + 1
    BY <1>1, <2>2, FS_AddElement
  <2> QED
    BY <1>10, <1>11, <1>2, <2>1, <2>3
<1>3. CASE x # y
  <2>1. Q = P
    <3>1. \A k \in 1..(Len(s) + 1) : Append(s, y)[k] = IF k = Len(s) + 1 THEN y ELSE s[k]
      OBVIOUS
    <3>2. DOMAIN Append(s, y) = 1..(Len(s) + 1) /\ DOMAIN s = 1..Len(s)
      OBVIOUS
    <3> QED
      BY <1>3, <3>1, <3>2
  <2> HIDE DEF P, Q
  <2> QED
    BY <1>10, <1>11, <1>1, <1>3, <2>1
<1> QED
  BY <1>2, <1>3

\* Dropping a position takes one occurrence of its element away.
LEMMA OccurrencesDropped ==
  ASSUME NEW S, NEW s \in Seq(S), NEW t \in Seq(S), NEW k \in 1..Len(s), Dropped(s, k, t), NEW x
  PROVE  Occurrences(t, x) = Occurrences(s, x) - (IF x = s[k] THEN 1 ELSE 0)
<1> DEFINE P == {j \in DOMAIN s : s[j] = x}
           Q == {j \in DOMAIN t : t[j] = x}
           f == [j \in P \ {k} |-> IF j < k THEN j ELSE j - 1]
<1>1. IsFiniteSet(P) /\ Cardinality(P) \in Nat
  BY OccurrencesType DEF Occurrences
<1>2. f \in [P \ {k} -> Q]
  <2> SUFFICES ASSUME NEW j \in P \ {k} PROVE f[j] \in Q
    OBVIOUS
  <2>1. CASE j < k
    BY <2>1 DEF Dropped
  <2>2. CASE ~ (j < k)
    <3>1. j - 1 \in 1..Len(t) /\ ~ (j - 1 < k)
      BY <2>2 DEF Dropped
    <3>2. t[j - 1] = s[j]
      BY <3>1 DEF Dropped
    <3> QED
      BY <2>2, <3>1, <3>2
  <2> QED
    BY <2>1, <2>2
<1>3. \A a, b \in P \ {k} : f[a] = f[b] => a = b
  OBVIOUS
<1>4. \A b \in Q : \E a \in P \ {k} : f[a] = b
  <2> SUFFICES ASSUME NEW b \in Q PROVE \E a \in P \ {k} : f[a] = b
    OBVIOUS
  <2>1. CASE b < k
    BY <2>1 DEF Dropped
  <2>2. CASE ~ (b < k)
    <3>1. b + 1 \in P \ {k}
      BY <2>2 DEF Dropped
    <3>2. f[b + 1] = b
      BY <2>2, <3>1
    <3> QED
      BY <3>1, <3>2
  <2> QED
    BY <2>1, <2>2
<1>5. f \in Bijection(P \ {k}, Q)
  <2> HIDE DEF P, Q, f
  <2> QED
    BY <1>2, <1>3, <1>4 DEF Bijection, Injection, IsInjective, Surjection
<1>6. ExistsBijection(P \ {k}, Q)
  BY <1>5 DEF ExistsBijection
<1>7. Cardinality(Q) = Cardinality(P \ {k})
  BY <1>1, <1>6, FS_Bijection, FS_RemoveElement
<1>8. k \in P <=> x = s[k]
  OBVIOUS
<1>9. Occurrences(s, x) = Cardinality(P) /\ Occurrences(t, x) = Cardinality(Q)
  BY DEF Occurrences
<1> HIDE DEF P, Q, f
<1>10. Cardinality(P \ {k}) = IF k \in P THEN Cardinality(P) - 1 ELSE Cardinality(P)
  BY <1>1, FS_RemoveElement
<1> QED
  BY <1>1, <1>7, <1>8, <1>9, <1>10

\* Tail takes one occurrence of the head away.
LEMMA OccurrencesTail ==
  ASSUME NEW S, NEW s \in Seq(S), s # <<>>, NEW x
  PROVE  Occurrences(Tail(s), x) = Occurrences(s, x) - (IF x = Head(s) THEN 1 ELSE 0)
<1>1. Tail(s) \in Seq(S) /\ 1 \in 1..Len(s) /\ Head(s) = s[1]
  BY HeadTailProperties, EmptySeq
<1>2. Dropped(s, 1, Tail(s))
  BY DEF Dropped
<1>3. Occurrences(Tail(s), x) = Occurrences(s, x) - (IF x = s[1] THEN 1 ELSE 0)
  BY <1>1, <1>2, OccurrencesDropped, ZenonT(60)
<1> QED
  BY <1>1, <1>3

\* RemoveFirst takes one occurrence of an element that occurs away.
LEMMA OccurrencesRemoveFirst ==
  ASSUME NEW S, NEW s \in Seq(S), NEW e, Contains(s, e)
  PROVE  /\ RemoveFirst(s, e) \in Seq(S)
         /\ Len(RemoveFirst(s, e)) = Len(s) - 1
         /\ \A x : Occurrences(RemoveFirst(s, e), x) =
                    Occurrences(s, x) - (IF x = e THEN 1 ELSE 0)
<1> DEFINE t == RemoveFirst(s, e)
<1>1. PICK k \in 1..Len(s) : s[k] = e /\ t = RemoveAt(s, k)
  BY RemoveFirstPosition
<1>2. t = SubSeq(s, 1, k - 1) \o SubSeq(s, k + 1, Len(s))
  BY <1>1 DEF RemoveAt
<1> HIDE DEF t
<1> DEFINE a == SubSeq(s, 1, k - 1)
           b == SubSeq(s, k + 1, Len(s))
<1>3. /\ a \in Seq(S) /\ Len(a) = k - 1 /\ \A j \in 1..Len(a) : a[j] = s[j]
      /\ b \in Seq(S) /\ Len(b) = Len(s) - k /\ \A j \in 1..Len(b) : b[j] = s[k + j]
  BY <1>1
<1> HIDE DEF a, b
<1>4. t = a \o b
  BY <1>2 DEF a, b
<1>5. /\ t \in Seq(S) /\ Len(t) = Len(s) - 1
      /\ \A j \in 1..Len(t) : t[j] = IF j <= Len(a) THEN a[j] ELSE b[j - Len(a)]
  BY <1>1, <1>3, <1>4
<1>6. ASSUME NEW j \in 1..Len(t) PROVE t[j] = IF j < k THEN s[j] ELSE s[j + 1]
  <2>1. CASE j < k
    BY <1>1, <1>3, <1>5, <2>1
  <2>2. CASE ~ (j < k)
    <3>1. j - Len(a) \in 1..Len(b) /\ k + (j - Len(a)) = j + 1
      BY <1>1, <1>3, <1>5, <2>2
    <3> QED
      BY <1>1, <1>3, <1>5, <2>2, <3>1
  <2> QED
    BY <2>1, <2>2
<1>7. Dropped(s, k, t)
  BY <1>5, <1>6 DEF Dropped
<1>8. \A x : Occurrences(t, x) = Occurrences(s, x) - (IF x = s[k] THEN 1 ELSE 0)
  BY <1>1, <1>5, <1>7, OccurrencesDropped
<1> QED
  BY <1>1, <1>5, <1>8 DEF t
-----------------------------------------------------------------------------
(* Counting packages by the state of their goroutine.                      *)

\* The packages of Q whose entry of f is in L.
CountIn(f, Q, L) == Cardinality({q \in Q : f[q] \in L})
-----------------------------------------------------------------------------
(* Types.                                                                  *)

\* TypeOK, except that nothing is said yet of the sign of the gauges.
Types ==
  /\ queued \in Seq(Pkgs)
  /\ active \in Seq(Ids)
  /\ awaiting \in [Ids -> Seq(Pkgs)]
  /\ pc \in [Pkgs -> PCs]
  /\ jobs \in [Pkgs -> 0..MaxJobs]
  /\ res \in [Pkgs -> BOOLEAN]
  /\ thr \in [Threads -> {"idle", "pick", "go", "end"}]
  /\ mu \in Threads \cup {Free}
  /\ cancelled \in BOOLEAN
  /\ closer \in {"open", "wait", "closed"}
  /\ activeGauge \in Int
  /\ queueGauge \in Int

\* A goroutine that may run another job has not used up the bound.
JobsLeft ==
  \A p \in Pkgs :
    pc[p] \in {"idle", "queued", "go", "next", "toAwait", "await", "resume"} => jobs[p] < MaxJobs

\* The controller New returns has the types.
LEMMA TypesInit == Init => Types /\ JobsLeft
<1> SUFFICES ASSUME Init PROVE Types /\ JobsLeft
  OBVIOUS
<1> USE ControllerAssumption DEF Init
<1>1. queued \in Seq(Pkgs) /\ active \in Seq(Ids) /\ awaiting \in [Ids -> Seq(Pkgs)]
  OBVIOUS
<1>2. pc \in [Pkgs -> PCs] /\ thr \in [Threads -> {"idle", "pick", "go", "end"}]
  BY DEF PCs, Outside
<1>3. jobs \in [Pkgs -> 0..MaxJobs] /\ JobsLeft
  BY DEF JobsLeft
<1>4. res \in [Pkgs -> BOOLEAN] /\ cancelled \in BOOLEAN
  OBVIOUS
<1>5. mu \in Threads \cup {Free} /\ closer \in {"open", "wait", "closed"}
  OBVIOUS
<1>6. activeGauge \in Int /\ queueGauge \in Int
  OBVIOUS
<1> QED
  BY <1>1, <1>2, <1>3, <1>4, <1>5, <1>6, Zenon DEF Types

\* Every step keeps the types and the bound on jobs.
LEMMA TypesStep ==
  ASSUME Types, JobsLeft, [Next]_vars
  PROVE  Types' /\ JobsLeft'
<1> USE ControllerAssumption DEF Types, JobsLeft, PCs, Outside, Listed, Waiting, lists, gauges
<1>1. ASSUME NEW p \in Pkgs, Submit(p) \/ Notify(p) PROVE Types' /\ JobsLeft'
  <2>1. p \in Threads /\ Append(queued, p) \in Seq(Pkgs)
    BY DEF Threads
  <2>2. pc[p] = "idle" /\ pc' = [pc EXCEPT ![p] = "queued"] /\ queued' = Append(queued, p)
    BY <1>1 DEF Submit, Notify, Enqueue, Move
  <2>3. thr' = [thr EXCEPT ![p] = "pick"] /\ queueGauge' = queueGauge + 1
    BY <1>1 DEF Submit, Notify, Enqueue
  <2>4. UNCHANGED <<active, awaiting, jobs, res, mu, cancelled, closer, activeGauge>>
    BY <1>1 DEF Submit, Notify
  <2> QED
    BY <2>1, <2>2, <2>3, <2>4
<1>2. ASSUME Tick \/ TickerDone PROVE Types' /\ JobsLeft'
  BY <1>2 DEF Tick, TickerDone, Threads
<1>3. ASSUME NEW t \in Threads, PickNothing(t) PROVE Types' /\ JobsLeft'
  BY <1>3 DEF PickNothing, Returned
<1>4. ASSUME NEW t \in Threads, PickStart(t) PROVE Types' /\ JobsLeft'
  <2>1. Head(queued) \in Pkgs /\ Tail(queued) \in Seq(Pkgs)
    BY <1>4, HeadTailProperties DEF PickStart
  <2> QED
    BY <1>4, <2>1 DEF PickStart, Move
<1>5. ASSUME NEW t \in Threads, GroupGo(t) PROVE Types' /\ JobsLeft'
  BY <1>5 DEF GroupGo, Move, Returned
<1>6. ASSUME NEW p \in Pkgs, NextStep(p) PROVE Types' /\ JobsLeft'
  <2>1. CASE NextCancelled(p)
    BY <2>1 DEF NextCancelled, Move
  <2>2. CASE NextJob(p)
    <3>1. jobs[p] < MaxJobs /\ jobs[p] \in 0..MaxJobs
      BY <2>2 DEF NextJob, Move
    <3>2. jobs' \in [Pkgs -> 0..MaxJobs]
      BY <2>2, <3>1 DEF NextJob
    <3> QED
      BY <2>2, <3>2 DEF NextJob, Move
  <2> QED
    BY <1>6, <2>1, <2>2 DEF NextStep
<1>7. ASSUME NEW p \in Pkgs, JobStep(p) PROVE Types' /\ JobsLeft'
  BY <1>7 DEF JobStep, JobContinues, JobEnds, JobWaits, Move
<1>8. ASSUME NEW p \in Pkgs, AwaitStep(p) PROVE Types' /\ JobsLeft'
  BY <1>8 DEF AwaitStep, AwaitResolved, AwaitFailed, Move
<1>9. ASSUME NEW p \in Pkgs, QueueToAwait(p) PROVE Types' /\ JobsLeft'
  <2>1. Contains(active, IdOf[p]) => RemoveFirst(active, IdOf[p]) \in Seq(Ids)
    BY OccurrencesRemoveFirst
  <2>2. IdOf[p] \in Ids /\ Append(awaiting[IdOf[p]], p) \in Seq(Pkgs)
    OBVIOUS
  <2>3. active' \in Seq(Ids) /\ awaiting' \in [Ids -> Seq(Pkgs)]
    BY <1>9, <2>1, <2>2 DEF QueueToAwait
  <2> QED
    BY <1>9, <2>3 DEF QueueToAwait, Move
<1>10. ASSUME NEW p \in Pkgs,
              DequeueFromAwait(p, "resume", "next") \/ DequeueFromAwait(p, "abandon", "leave")
       PROVE Types' /\ JobsLeft'
  <2>1. Contains(awaiting[IdOf[p]], p) => RemoveFirst(awaiting[IdOf[p]], p) \in Seq(Pkgs)
    BY OccurrencesRemoveFirst
  <2>2. IdOf[p] \in Ids /\ Append(active, IdOf[p]) \in Seq(Ids)
    OBVIOUS
  <2>3. active' \in Seq(Ids) /\ awaiting' \in [Ids -> Seq(Pkgs)]
    BY <1>10, <2>1, <2>2 DEF DequeueFromAwait
  <2> QED
    BY <1>10, <2>3 DEF DequeueFromAwait, Move
<1>11. ASSUME NEW p \in Pkgs, Deactivate(p) PROVE Types' /\ JobsLeft'
  <2>1. Contains(active, IdOf[p]) => RemoveFirst(active, IdOf[p]) \in Seq(Ids)
    BY OccurrencesRemoveFirst
  <2> QED
    BY <1>11, <2>1 DEF Deactivate, Move
<1>12. ASSUME NEW p \in Pkgs, ResolveDecision(p) \/ GroupDone(p) PROVE Types' /\ JobsLeft'
  BY <1>12 DEF ResolveDecision, GroupDone, Move
<1>13. ASSUME CloseCancel \/ CloseReturn PROVE Types' /\ JobsLeft'
  BY <1>13 DEF CloseCancel, CloseReturn
<1>14. ASSUME UNCHANGED vars PROVE Types' /\ JobsLeft'
  BY <1>14 DEF vars
<1> QED
  BY <1>1, <1>2, <1>3, <1>4, <1>5, <1>6, <1>7, <1>8, <1>9, <1>10, <1>11, <1>12, <1>13, <1>14
  DEF Next, PickStep, LockStep, Pkgs
-----------------------------------------------------------------------------
(* Accounting: the lists and the gauges agree with the goroutines.         *)

\* What queue, pick and deactivate do to the gauges: ActivePackageGauge counts
\* the packages picked and not yet deactivated, awaiting ones included, and
\* PackageQueueLengthGauge those and the queued ones.
GaugesCountInFlight ==
  /\ activeGauge = Cardinality({p \in Pkgs : pc[p] \in Listed \cup Waiting})
  /\ queueGauge = activeGauge + Len(queued)

Accounting ==
  /\ QueuedMatchesPackages
  /\ ActiveMatchesGoroutines
  /\ AwaitingMatchesGoroutines
  /\ GaugesCountInFlight

\* The package objects that carry an id.
OfId(i) == {p \in Pkgs : IdOf[p] = i}

InFlight == Listed \cup Waiting

\* The four parts in terms of CountIn.
Counts ==
  /\ \A p \in Pkgs : Occurrences(queued, p) = IF pc[p] = "queued" THEN 1 ELSE 0
  /\ \A i \in Ids : Occurrences(active, i) = CountIn(pc, OfId(i), Listed)
  /\ \A p \in Pkgs, i \in Ids :
       Occurrences(awaiting[i], p) = IF i = IdOf[p] /\ pc[p] \in Waiting THEN 1 ELSE 0
  /\ activeGauge = CountIn(pc, Pkgs, InFlight)
  /\ queueGauge = activeGauge + Len(queued)

\* Counts is Accounting with each cardinality named.
LEMMA AccountingIsCounts == (Accounting <=> Counts) /\ (Accounting' <=> Counts')
<1>1. ASSUME NEW f, NEW i
      PROVE  CountIn(f, OfId(i), Listed)
               = Cardinality({p \in Pkgs : IdOf[p] = i /\ f[p] \in Listed})
  <2>1. {q \in OfId(i) : f[q] \in Listed} = {p \in Pkgs : IdOf[p] = i /\ f[p] \in Listed}
    BY DEF OfId
  <2> QED
    BY <2>1 DEF CountIn
<1>2. \A f : CountIn(f, Pkgs, InFlight)
              = Cardinality({p \in Pkgs : f[p] \in Listed \cup Waiting})
  BY DEF CountIn, InFlight
<1>3. /\ \A i \in Ids : CountIn(pc, OfId(i), Listed)
                         = Cardinality({p \in Pkgs : IdOf[p] = i /\ pc[p] \in Listed})
      /\ CountIn(pc, Pkgs, InFlight) = Cardinality({p \in Pkgs : pc[p] \in Listed \cup Waiting})
  BY <1>1, <1>2, Zenon
<1>4. /\ \A i \in Ids : CountIn(pc', OfId(i), Listed)
                         = Cardinality({p \in Pkgs : IdOf[p] = i /\ pc'[p] \in Listed})
      /\ CountIn(pc', Pkgs, InFlight) = Cardinality({p \in Pkgs : pc'[p] \in Listed \cup Waiting})
  BY <1>1, <1>2, Zenon
<1>5. Accounting <=> Counts
  BY <1>3, Zenon DEF Accounting, Counts, QueuedMatchesPackages, ActiveMatchesGoroutines,
     AwaitingMatchesGoroutines, GaugesCountInFlight
<1>6. Accounting' <=> Counts'
  BY <1>4, Zenon DEF Accounting, Counts, QueuedMatchesPackages, ActiveMatchesGoroutines,
     AwaitingMatchesGoroutines, GaugesCountInFlight
<1> QED
  BY <1>5, <1>6

\* How the counts change when one goroutine moves.
LEMMA CountsAfterMove ==
  ASSUME Types, NEW p \in Pkgs, NEW from, NEW to, Move(p, from, to)
  PROVE  /\ \A i \in Ids :
              /\ CountIn(pc, OfId(i), Listed) \in Nat
              /\ i = IdOf[p] /\ from \in Listed => CountIn(pc, OfId(i), Listed) # 0
              /\ CountIn(pc', OfId(i), Listed) = CountIn(pc, OfId(i), Listed)
                   + (IF i = IdOf[p] /\ to \in Listed THEN 1 ELSE 0) - (IF i = IdOf[p] /\ from \in Listed THEN 1 ELSE 0)
         /\ CountIn(pc, Pkgs, InFlight) \in Nat
         /\ CountIn(pc', Pkgs, InFlight) = CountIn(pc, Pkgs, InFlight)
              + (IF to \in InFlight THEN 1 ELSE 0) - (IF from \in InFlight THEN 1 ELSE 0)
<1>1. pc \in [Pkgs -> PCs] /\ pc[p] = from /\ pc' = [pc EXCEPT ![p] = to]
  BY DEF Types, Move
<1>2. \A i \in Ids : OfId(i) \in SUBSET Pkgs /\ (p \in OfId(i) <=> i = IdOf[p])
  BY DEF OfId
<1>3. ASSUME NEW Q \in SUBSET Pkgs, NEW L
      PROVE  /\ CountIn(pc, Q, L) \in Nat
             /\ p \in Q /\ from \in L => CountIn(pc, Q, L) # 0
             /\ CountIn(pc', Q, L) = CountIn(pc, Q, L) + (IF p \in Q /\ to \in L THEN 1 ELSE 0)
                                                      - (IF p \in Q /\ from \in L THEN 1 ELSE 0)
  <2> DEFINE A == {q \in Q : pc[q] \in L}
             B == {q \in Q : pc'[q] \in L}
  <2>1. IsFiniteSet(A) /\ Cardinality(A) \in Nat /\ (A # {} => Cardinality(A) # 0)
    <3>1. IsFiniteSet(Pkgs)
      BY ControllerAssumption
    <3>2. A \in SUBSET Pkgs
      OBVIOUS
    <3> HIDE DEF A
    <3> QED
      BY <3>1, <3>2, FS_Subset, FS_CardinalityType, FS_EmptySet
  <2>2. CountIn(pc, Q, L) = Cardinality(A) /\ CountIn(pc', Q, L) = Cardinality(B)
    BY DEF CountIn
  <2>3. B = IF p \in Q /\ to \in L THEN A \cup {p} ELSE A \ {p}
    BY <1>1
  <2>4. p \in A <=> p \in Q /\ from \in L
    BY <1>1
  <2> HIDE DEF A, B
  <2>5. /\ Cardinality(A \cup {p}) = IF p \in A THEN Cardinality(A) ELSE Cardinality(A) + 1
        /\ Cardinality(A \ {p}) = IF p \in A THEN Cardinality(A) - 1 ELSE Cardinality(A)
    BY <2>1, FS_AddElement, FS_RemoveElement
  <2>6. p \in A => Cardinality(A) # 0
    BY <2>1
  <2> QED
    BY <2>1, <2>2, <2>3, <2>4, <2>5, <2>6
<1>4. \A i \in Ids :
        /\ CountIn(pc, OfId(i), Listed) \in Nat
        /\ i = IdOf[p] /\ from \in Listed => CountIn(pc, OfId(i), Listed) # 0
        /\ CountIn(pc', OfId(i), Listed) = CountIn(pc, OfId(i), Listed)
              + (IF i = IdOf[p] /\ to \in Listed THEN 1 ELSE 0)
              - (IF i = IdOf[p] /\ from \in Listed THEN 1 ELSE 0)
  BY <1>2, <1>3
<1>5. /\ CountIn(pc, Pkgs, InFlight) \in Nat
      /\ CountIn(pc', Pkgs, InFlight) = CountIn(pc, Pkgs, InFlight)
           + (IF to \in InFlight THEN 1 ELSE 0) - (IF from \in InFlight THEN 1 ELSE 0)
  BY <1>3
<1> QED
  BY <1>4, <1>5

\* A goroutine moves between states that count the same; the lists stay.
LEMMA SilentMove ==
  ASSUME Types, Accounting, NEW p \in Pkgs, NEW from, NEW to, Move(p, from, to),
         from \in Listed <=> to \in Listed, from \in Waiting <=> to \in Waiting,
         from # "queued", to # "queued",
         UNCHANGED <<queued, active, awaiting, activeGauge, queueGauge>>
  PROVE  Accounting'
<1>1. pc \in [Pkgs -> PCs] /\ pc[p] = from /\ pc' = [pc EXCEPT ![p] = to]
  BY DEF Types, Move
<1>2. /\ \A i \in Ids : CountIn(pc', OfId(i), Listed) = CountIn(pc, OfId(i), Listed)
      /\ CountIn(pc', Pkgs, InFlight) = CountIn(pc, Pkgs, InFlight)
  <2>1. from \in InFlight <=> to \in InFlight
    BY DEF InFlight
  <2> QED
    BY <2>1, CountsAfterMove
<1> QED
  BY <1>1, <1>2, AccountingIsCounts DEF Counts

\* Nothing that is counted changes.
LEMMA NoMove ==
  ASSUME Accounting, UNCHANGED <<queued, active, awaiting, pc, activeGauge, queueGauge>>
  PROVE  Accounting'
<1>1. Counts'
  BY AccountingIsCounts DEF Counts
<1> QED
  BY <1>1, AccountingIsCounts

\* Before anything arrives the lists are empty and the gauges are zero.
LEMMA AccountingInit == Init => Accounting
<1> SUFFICES ASSUME Init PROVE Counts
  BY AccountingIsCounts
<1>1. ASSUME NEW Q \in SUBSET Pkgs, NEW L, "idle" \notin L PROVE CountIn(pc, Q, L) = 0
  <2>1. {q \in Q : pc[q] \in L} = {}
    BY <1>1 DEF Init
  <2> QED
    BY <2>1, FS_EmptySet DEF CountIn
<1>2. \A i \in Ids : CountIn(pc, OfId(i), Listed) = 0
  BY <1>1 DEF OfId, Listed
<1>3. CountIn(pc, Pkgs, InFlight) = 0
  BY <1>1 DEF InFlight, Listed, Waiting
<1>4. /\ \A p \in Pkgs : pc[p] = "idle" /\ pc[p] \notin Waiting
      /\ queued = <<>> /\ active = <<>> /\ \A i \in Ids : awaiting[i] = <<>>
      /\ activeGauge = 0 /\ queueGauge = 0 /\ Len(queued) = 0
  BY DEF Init, Waiting
<1> QED
  BY <1>2, <1>3, <1>4, OccurrencesEmpty DEF Counts

\* queue appends a package that was not counted and increments one gauge.
LEMMA AccountingEnqueue ==
  ASSUME Types, Accounting, NEW p \in Pkgs, Enqueue(p),
         UNCHANGED <<active, awaiting, activeGauge>>
  PROVE  Accounting'
<1>1. pc \in [Pkgs -> PCs] /\ Move(p, "idle", "queued") /\ queued \in Seq(Pkgs)
  BY DEF Types, Enqueue
<1>2. pc[p] = "idle" /\ pc' = [pc EXCEPT ![p] = "queued"] /\ queued' = Append(queued, p)
  BY <1>1 DEF Enqueue, Move
<1>3. /\ \A i \in Ids : CountIn(pc', OfId(i), Listed) = CountIn(pc, OfId(i), Listed)
      /\ CountIn(pc', Pkgs, InFlight) = CountIn(pc, Pkgs, InFlight)
      /\ CountIn(pc, Pkgs, InFlight) \in Nat
  BY <1>1, CountsAfterMove DEF Listed, Waiting, InFlight
<1>4. Counts
  BY AccountingIsCounts
<1>5. \A q \in Pkgs : Occurrences(queued', q) = IF pc'[q] = "queued" THEN 1 ELSE 0
  <2> SUFFICES ASSUME NEW q \in Pkgs
               PROVE  Occurrences(queued', q) = IF pc'[q] = "queued" THEN 1 ELSE 0
    OBVIOUS
  <2>1. Occurrences(queued', q) = Occurrences(queued, q) + (IF q = p THEN 1 ELSE 0)
    BY <1>1, <1>2, OccurrencesAppend
  <2>2. Occurrences(queued, q) = IF pc[q] = "queued" THEN 1 ELSE 0
    BY <1>4 DEF Counts
  <2> QED
    BY <1>1, <1>2, <2>1, <2>2
<1>6. Len(queued') = Len(queued) + 1 /\ queueGauge' = queueGauge + 1
  BY <1>1, <1>2, OccurrencesAppend DEF Enqueue
<1>7. \A q \in Pkgs : pc'[q] \in Waiting <=> pc[q] \in Waiting
  BY <1>1, <1>2 DEF Waiting
<1>8. /\ \A i \in Ids : Occurrences(active', i) = CountIn(pc', OfId(i), Listed)
      /\ activeGauge' = CountIn(pc', Pkgs, InFlight)
  BY <1>3, <1>4 DEF Counts
<1>9. queueGauge' = activeGauge' + Len(queued')
  BY <1>1, <1>3, <1>4, <1>6, <1>8 DEF Counts
<1>10. \A q \in Pkgs, i \in Ids :
         Occurrences(awaiting'[i], q) = IF i = IdOf[q] /\ pc'[q] \in Waiting THEN 1 ELSE 0
  BY <1>4, <1>7 DEF Counts
<1>11. Counts'
  BY <1>5, <1>8, <1>9, <1>10 DEF Counts
<1> QED
  BY <1>11, AccountingIsCounts

\* pick takes the head of the queue, which is queued once, to the active list.
LEMMA AccountingPickStart ==
  ASSUME Types, Accounting, NEW t \in Threads, PickStart(t)
  PROVE  Accounting'
<1> DEFINE p == Head(queued)
<1>1. queued \in Seq(Pkgs) /\ queued # <<>> /\ p \in Pkgs /\ active \in Seq(Ids)
  BY HeadTailProperties DEF Types, PickStart
<1>2. /\ Move(p, "queued", "go")
      /\ active' = Append(active, IdOf[p]) /\ queued' = Tail(queued)
      /\ activeGauge' = activeGauge + 1
      /\ UNCHANGED <<awaiting, queueGauge>>
  BY DEF PickStart
<1> HIDE DEF p
<1>3. pc \in [Pkgs -> PCs] /\ pc[p] = "queued" /\ pc' = [pc EXCEPT ![p] = "go"] /\ IdOf[p] \in Ids
  BY <1>1, <1>2, ControllerAssumption DEF Types, Move
<1>4. /\ \A i \in Ids : /\ CountIn(pc', OfId(i), Listed)
                             = CountIn(pc, OfId(i), Listed) + (IF i = IdOf[p] THEN 1 ELSE 0)
                        /\ CountIn(pc, OfId(i), Listed) \in Nat
      /\ CountIn(pc', Pkgs, InFlight) = CountIn(pc, Pkgs, InFlight) + 1
      /\ CountIn(pc, Pkgs, InFlight) \in Nat
  BY <1>1, <1>2, CountsAfterMove DEF Listed, Waiting, InFlight
<1>5. Counts
  BY AccountingIsCounts
<1>6. \A q \in Pkgs : Occurrences(queued', q) = IF pc'[q] = "queued" THEN 1 ELSE 0
  <2> SUFFICES ASSUME NEW q \in Pkgs
               PROVE  Occurrences(queued', q) = IF pc'[q] = "queued" THEN 1 ELSE 0
    OBVIOUS
  <2>1. Occurrences(queued', q) = Occurrences(queued, q) - (IF q = p THEN 1 ELSE 0)
    BY <1>1, <1>2, OccurrencesTail DEF p
  <2>2. Occurrences(queued, q) = IF pc[q] = "queued" THEN 1 ELSE 0
    BY <1>5 DEF Counts
  <2> QED
    BY <1>3, <2>1, <2>2
<1>7. \A i \in Ids : Occurrences(active', i) = CountIn(pc', OfId(i), Listed)
  <2> SUFFICES ASSUME NEW i \in Ids
               PROVE  Occurrences(active', i) = CountIn(pc', OfId(i), Listed)
    OBVIOUS
  <2>1. Occurrences(active', i) = Occurrences(active, i) + (IF i = IdOf[p] THEN 1 ELSE 0)
    BY <1>1, <1>2, <1>3, OccurrencesAppend
  <2>2. Occurrences(active, i) = CountIn(pc, OfId(i), Listed)
    BY <1>5 DEF Counts
  <2> QED
    BY <1>4, <2>1, <2>2
<1>8. \A q \in Pkgs : pc'[q] \in Waiting <=> pc[q] \in Waiting
  BY <1>3 DEF Waiting
<1>9. \A q \in Pkgs, i \in Ids :
        Occurrences(awaiting'[i], q) = IF i = IdOf[q] /\ pc'[q] \in Waiting THEN 1 ELSE 0
  BY <1>2, <1>5, <1>8 DEF Counts
<1>10. activeGauge' = CountIn(pc', Pkgs, InFlight) /\ queueGauge' = activeGauge' + Len(queued')
  <2>1. Len(queued') = Len(queued) - 1 /\ Len(queued) \in Nat
    BY <1>1, <1>2
  <2>2. activeGauge = CountIn(pc, Pkgs, InFlight) /\ queueGauge = activeGauge + Len(queued)
    BY <1>5 DEF Counts
  <2>3. activeGauge' = activeGauge + 1 /\ queueGauge' = queueGauge
    BY <1>2
  <2>4. activeGauge \in Nat /\ activeGauge' = CountIn(pc', Pkgs, InFlight)
    BY <1>4, <2>2, <2>3
  <2> QED
    BY <2>1, <2>2, <2>3, <2>4
<1>11. Counts'
  BY <1>6, <1>7, <1>9, <1>10 DEF Counts
<1> QED
  BY <1>11, AccountingIsCounts

\* The goroutine of an active package finds an entry with its id.
LEMMA ActiveIsListed ==
  ASSUME Types, Accounting, NEW p \in Pkgs, NEW from \in Listed, NEW to, Move(p, from, to)
  PROVE  Contains(active, IdOf[p])
<1>1. IdOf[p] \in Ids /\ active \in Seq(Ids)
  BY ControllerAssumption DEF Types
<1>2. CountIn(pc, OfId(IdOf[p]), Listed) # 0
  BY <1>1, CountsAfterMove
<1>3. Occurrences(active, IdOf[p]) # 0
  BY <1>1, <1>2, AccountingIsCounts DEF Counts
<1> QED
  BY <1>1, <1>3, OccurrencesType

\* The goroutine that waits for a decision finds it in awaitingPackages.
LEMMA AwaitingIsListed ==
  ASSUME Types, Accounting, NEW p \in Pkgs, pc[p] \in Waiting
  PROVE  Contains(awaiting[IdOf[p]], p)
<1>1. IdOf[p] \in Ids /\ awaiting[IdOf[p]] \in Seq(Pkgs)
  BY ControllerAssumption DEF Types
<1>2. Occurrences(awaiting[IdOf[p]], p) = 1 /\ 1 # 0
  BY <1>1, AccountingIsCounts DEF Counts
<1>3. Occurrences(awaiting[IdOf[p]], p) # 0
  BY <1>2
<1> QED
  BY <1>1, <1>3, OccurrencesType

\* queueToAwait removes one entry of the id and lists the decision once.
LEMMA AccountingQueueToAwait ==
  ASSUME Types, Accounting, NEW p \in Pkgs, QueueToAwait(p)
  PROVE  Accounting'
<1> DEFINE e == IdOf[p]
<1>1. /\ Move(p, "toAwait", "await") /\ "toAwait" \in Listed
      /\ UNCHANGED <<queued, activeGauge, queueGauge>>
  BY DEF QueueToAwait, gauges, Listed
<1>2. Contains(active, e)
  BY <1>1, ActiveIsListed
<1>3. /\ active' = RemoveFirst(active, e)
      /\ awaiting' = [awaiting EXCEPT ![e] = Append(awaiting[e], p)]
  BY <1>2 DEF QueueToAwait
<1>4. /\ pc \in [Pkgs -> PCs] /\ pc[p] = "toAwait" /\ pc' = [pc EXCEPT ![p] = "await"]
      /\ active \in Seq(Ids) /\ awaiting \in [Ids -> Seq(Pkgs)] /\ e \in Ids
      /\ awaiting[e] \in Seq(Pkgs)
  BY <1>1, ControllerAssumption DEF Types, Move
<1>5. /\ \A i \in Ids : /\ CountIn(pc', OfId(i), Listed)
                             = CountIn(pc, OfId(i), Listed) - (IF i = e THEN 1 ELSE 0)
                        /\ CountIn(pc, OfId(i), Listed) \in Nat
      /\ CountIn(pc', Pkgs, InFlight) = CountIn(pc, Pkgs, InFlight)
  BY <1>1, CountsAfterMove DEF Listed, Waiting, InFlight
<1>6. Counts
  BY AccountingIsCounts
<1> HIDE DEF e
<1>7. \A i \in Ids : Occurrences(active', i) = CountIn(pc', OfId(i), Listed)
  <2>1. \A i \in Ids : Occurrences(active', i) = Occurrences(active, i) - (IF i = e THEN 1 ELSE 0)
    BY <1>2, <1>3, <1>4, OccurrencesRemoveFirst
  <2> QED
    BY <1>5, <1>6, <2>1 DEF Counts
<1>8. ASSUME NEW q \in Pkgs, NEW i \in Ids
      PROVE  Occurrences(awaiting'[i], q) = IF i = IdOf[q] /\ pc'[q] \in Waiting THEN 1 ELSE 0
  <2>1. Occurrences(awaiting[i], q) = IF i = IdOf[q] /\ pc[q] \in Waiting THEN 1 ELSE 0
    BY <1>6 DEF Counts
  <2>2. pc'[q] \in Waiting <=> (pc[q] \in Waiting \/ q = p)
    BY <1>4 DEF Waiting
  <2>3. p \in Pkgs /\ pc[p] \notin Waiting
    BY <1>4 DEF Waiting
  <2>4. CASE i = e
    <3>1. Occurrences(awaiting'[i], q) = Occurrences(awaiting[i], q) + (IF q = p THEN 1 ELSE 0)
      BY <1>3, <1>4, <2>4, OccurrencesAppend
    <3> QED
      BY <2>1, <2>2, <2>3, <2>4, <3>1 DEF e
  <2>5. CASE i # e
    <3>1. awaiting'[i] = awaiting[i]
      BY <1>3, <1>4, <2>5
    <3> QED
      BY <2>1, <2>2, <2>5, <3>1 DEF e
  <2> QED
    BY <2>4, <2>5
<1>9. \A q \in Pkgs : Occurrences(queued', q) = IF pc'[q] = "queued" THEN 1 ELSE 0
  BY <1>1, <1>4, <1>6 DEF Counts
<1>10. activeGauge' = CountIn(pc', Pkgs, InFlight) /\ queueGauge' = activeGauge' + Len(queued')
  BY <1>1, <1>5, <1>6 DEF Counts
<1>11. Counts'
  BY <1>7, <1>8, <1>9, <1>10 DEF Counts
<1> QED
  BY <1>11, AccountingIsCounts

\* dequeueFromAwait takes the decision of this goroutine out, and no other, and
\* gives the package its entry of the active list back.
LEMMA AccountingDequeueFromAwait ==
  ASSUME Types, Accounting, NEW p \in Pkgs, NEW from \in Waiting, NEW to \in Listed,
         DequeueFromAwait(p, from, to)
  PROVE  Accounting'
<1> DEFINE e == IdOf[p]
<1>1. Move(p, from, to) /\ UNCHANGED <<queued, activeGauge, queueGauge>>
  BY DEF DequeueFromAwait, gauges
<1>2. /\ pc \in [Pkgs -> PCs] /\ pc[p] = from /\ pc' = [pc EXCEPT ![p] = to]
      /\ active \in Seq(Ids) /\ awaiting \in [Ids -> Seq(Pkgs)] /\ e \in Ids
      /\ awaiting[e] \in Seq(Pkgs)
  BY <1>1, ControllerAssumption DEF Types, Move
<1>3. Contains(awaiting[e], p)
  BY <1>2, AwaitingIsListed
<1>4. /\ active' = Append(active, e)
      /\ awaiting' = [awaiting EXCEPT ![e] = RemoveFirst(awaiting[e], p)]
  BY <1>3 DEF DequeueFromAwait
<1>5. /\ from \notin Listed /\ to \notin Waiting /\ from # "queued" /\ to # "queued"
      /\ from \in InFlight /\ to \in InFlight
  BY DEF Listed, Waiting, InFlight
<1>6. /\ \A i \in Ids : /\ CountIn(pc', OfId(i), Listed)
                             = CountIn(pc, OfId(i), Listed) + (IF i = e THEN 1 ELSE 0)
                        /\ CountIn(pc, OfId(i), Listed) \in Nat
      /\ CountIn(pc', Pkgs, InFlight) = CountIn(pc, Pkgs, InFlight)
  BY <1>1, <1>5, CountsAfterMove
<1>7. Counts
  BY AccountingIsCounts
<1> HIDE DEF e
<1>8. \A i \in Ids : Occurrences(active', i) = CountIn(pc', OfId(i), Listed)
  <2>1. \A i \in Ids : Occurrences(active', i) = Occurrences(active, i) + (IF i = e THEN 1 ELSE 0)
    BY <1>2, <1>4, OccurrencesAppend
  <2> QED
    BY <1>6, <1>7, <2>1 DEF Counts
<1>9. ASSUME NEW q \in Pkgs, NEW i \in Ids
      PROVE  Occurrences(awaiting'[i], q) = IF i = IdOf[q] /\ pc'[q] \in Waiting THEN 1 ELSE 0
  <2>1. Occurrences(awaiting[i], q) = IF i = IdOf[q] /\ pc[q] \in Waiting THEN 1 ELSE 0
    BY <1>7 DEF Counts
  <2>2. pc'[q] \in Waiting <=> (pc[q] \in Waiting /\ q # p)
    BY <1>2, <1>5
  <2>3. pc[p] \in Waiting
    BY <1>2
  <2>4. CASE i = e
    <3>1. Occurrences(awaiting'[i], q) = Occurrences(awaiting[i], q) - (IF q = p THEN 1 ELSE 0)
      BY <1>2, <1>3, <1>4, <2>4, OccurrencesRemoveFirst
    <3> QED
      BY <2>1, <2>2, <2>3, <2>4, <3>1 DEF e
  <2>5. CASE i # e
    <3>1. awaiting'[i] = awaiting[i]
      BY <1>2, <1>4, <2>5
    <3> QED
      BY <2>1, <2>2, <2>5, <3>1 DEF e
  <2> QED
    BY <2>4, <2>5
<1>10. \A q \in Pkgs : Occurrences(queued', q) = IF pc'[q] = "queued" THEN 1 ELSE 0
  BY <1>1, <1>2, <1>5, <1>7 DEF Counts
<1>11. activeGauge' = CountIn(pc', Pkgs, InFlight) /\ queueGauge' = activeGauge' + Len(queued')
  BY <1>1, <1>6, <1>7 DEF Counts
<1>12. Counts'
  BY <1>8, <1>9, <1>10, <1>11 DEF Counts
<1> QED
  BY <1>12, AccountingIsCounts

\* deactivate removes one entry of the id and decrements both gauges.
LEMMA AccountingDeactivate ==
  ASSUME Types, Accounting, NEW p \in Pkgs, Deactivate(p)
  PROVE  Accounting'
<1> DEFINE e == IdOf[p]
<1>1. Move(p, "leave", "exit") /\ "leave" \in Listed /\ UNCHANGED <<queued, awaiting>>
  BY DEF Deactivate, Listed
<1>2. Contains(active, e)
  BY <1>1, ActiveIsListed
<1>3. /\ active' = RemoveFirst(active, e)
      /\ activeGauge' = activeGauge - 1 /\ queueGauge' = queueGauge - 1
  BY <1>2 DEF Deactivate
<1>4. /\ pc \in [Pkgs -> PCs] /\ pc[p] = "leave" /\ pc' = [pc EXCEPT ![p] = "exit"]
      /\ active \in Seq(Ids) /\ queued \in Seq(Pkgs) /\ e \in Ids
  BY <1>1, ControllerAssumption DEF Types, Move
<1>5. /\ \A i \in Ids : /\ CountIn(pc', OfId(i), Listed)
                             = CountIn(pc, OfId(i), Listed) - (IF i = e THEN 1 ELSE 0)
                        /\ CountIn(pc, OfId(i), Listed) \in Nat
      /\ CountIn(pc', Pkgs, InFlight) = CountIn(pc, Pkgs, InFlight) - 1
      /\ CountIn(pc, Pkgs, InFlight) \in Nat
  BY <1>1, CountsAfterMove DEF Listed, Waiting, InFlight
<1>6. Counts
  BY AccountingIsCounts
<1> HIDE DEF e
<1>7. \A i \in Ids : Occurrences(active', i) = CountIn(pc', OfId(i), Listed)
  <2>1. \A i \in Ids : Occurrences(active', i) = Occurrences(active, i) - (IF i = e THEN 1 ELSE 0)
    BY <1>2, <1>3, <1>4, OccurrencesRemoveFirst
  <2> QED
    BY <1>5, <1>6, <2>1 DEF Counts
<1>8. /\ \A q \in Pkgs : Occurrences(queued', q) = IF pc'[q] = "queued" THEN 1 ELSE 0
      /\ \A q \in Pkgs, i \in Ids :
           Occurrences(awaiting'[i], q) = IF i = IdOf[q] /\ pc'[q] \in Waiting THEN 1 ELSE 0
  <2>1. \A q \in Pkgs : /\ pc'[q] = "queued" <=> pc[q] = "queued"
                        /\ pc'[q] \in Waiting <=> pc[q] \in Waiting
    BY <1>4 DEF Waiting
  <2> QED
    BY <1>1, <1>6, <2>1 DEF Counts
<1>9. activeGauge' = CountIn(pc', Pkgs, InFlight) /\ queueGauge' = activeGauge' + Len(queued')
  <2>1. activeGauge = CountIn(pc, Pkgs, InFlight) /\ queueGauge = activeGauge + Len(queued)
    BY <1>6 DEF Counts
  <2>2. activeGauge \in Nat /\ Len(queued) \in Nat /\ queued' = queued
    BY <1>1, <1>4, <1>5, <2>1
  <2>3. activeGauge' = CountIn(pc', Pkgs, InFlight)
    BY <1>3, <1>5, <2>1
  <2> QED
    BY <1>3, <2>1, <2>2, <2>3
<1>10. Counts'
  BY <1>7, <1>8, <1>9 DEF Counts
<1> QED
  BY <1>10, AccountingIsCounts

\* Every step keeps the lists and the gauges in agreement with the goroutines.
LEMMA AccountingStep ==
  ASSUME Types, Accounting, [Next]_vars
  PROVE  Accounting'
<1> USE DEF lists, gauges
<1>1. ASSUME NEW p \in Pkgs, Submit(p) \/ Notify(p) PROVE Accounting'
  BY <1>1, AccountingEnqueue DEF Submit, Notify
<1>2. ASSUME Tick \/ TickerDone PROVE Accounting'
  BY <1>2, NoMove DEF Tick, TickerDone
<1>3. ASSUME NEW t \in Threads, PickNothing(t) PROVE Accounting'
  BY <1>3, NoMove DEF PickNothing
<1>4. ASSUME NEW t \in Threads, PickStart(t) PROVE Accounting'
  BY <1>4, AccountingPickStart
<1>5. ASSUME NEW t \in Threads, GroupGo(t) PROVE Accounting'
  <2>1. PICK p \in Pkgs : Move(p, "go", "next")
    BY <1>5 DEF GroupGo
  <2>2. UNCHANGED <<queued, active, awaiting, activeGauge, queueGauge>>
    BY <1>5 DEF GroupGo
  <2> QED
    BY <2>1, <2>2, SilentMove DEF Listed, Waiting
<1>6. ASSUME NEW p \in Pkgs, NextStep(p) PROVE Accounting'
  BY <1>6, SilentMove DEF NextStep, NextCancelled, NextJob, Listed, Waiting
<1>7. ASSUME NEW p \in Pkgs, JobStep(p) PROVE Accounting'
  BY <1>7, SilentMove DEF JobStep, JobContinues, JobEnds, JobWaits, Listed, Waiting
<1>8. ASSUME NEW p \in Pkgs, AwaitStep(p) PROVE Accounting'
  BY <1>8, SilentMove DEF AwaitStep, AwaitResolved, AwaitFailed, Listed, Waiting
<1>9. ASSUME NEW p \in Pkgs, LockStep(p) PROVE Accounting'
  BY <1>9, AccountingQueueToAwait, AccountingDequeueFromAwait, AccountingDeactivate
  DEF LockStep, Listed, Waiting
<1>10. ASSUME NEW p \in Pkgs, ResolveDecision(p) PROVE Accounting'
  BY <1>10, NoMove DEF ResolveDecision
<1>11. ASSUME NEW p \in Pkgs, GroupDone(p) PROVE Accounting'
  BY <1>11, SilentMove DEF GroupDone, Listed, Waiting
<1>12. ASSUME CloseCancel \/ CloseReturn PROVE Accounting'
  BY <1>12, NoMove DEF CloseCancel, CloseReturn
<1>13. ASSUME UNCHANGED vars PROVE Accounting'
  BY <1>13, NoMove DEF vars
<1> QED
  BY <1>1, <1>2, <1>3, <1>4, <1>5, <1>6, <1>7, <1>8, <1>9, <1>10, <1>11, <1>12, <1>13
  DEF Next, PickStep, Pkgs
-----------------------------------------------------------------------------
(* The theorems.                                                           *)

\* The inductive invariant: types, the bound on jobs and the accounting.
LEMMA SpecAccounting == Spec => [](Types /\ JobsLeft /\ Accounting)
<1> DEFINE IInv == Types /\ JobsLeft /\ Accounting
<1>1. Init => IInv
  BY TypesInit, AccountingInit
<1>2. IInv /\ [Next]_vars => IInv'
  BY TypesStep, AccountingStep
<1> QED
  BY <1>1, <1>2, PTL DEF Spec

\* The types hold, and no interleaving of queue, pick and deactivate takes a
\* gauge below zero: each gauge is the size of a set or such a size and a length.
THEOREM TypeCorrect == Spec => []TypeOK
<1>1. Types /\ JobsLeft /\ Accounting => TypeOK
  <2> SUFFICES ASSUME Types, Accounting PROVE TypeOK
    OBVIOUS
  <2>1. activeGauge = CountIn(pc, Pkgs, InFlight) /\ queueGauge = activeGauge + Len(queued)
    BY AccountingIsCounts DEF Counts
  <2>2. CountIn(pc, Pkgs, InFlight) \in Nat
    <3> DEFINE A == {q \in Pkgs : pc[q] \in InFlight}
    <3>1. IsFiniteSet(Pkgs) /\ A \in SUBSET Pkgs
      BY ControllerAssumption
    <3> HIDE DEF A
    <3>2. Cardinality(A) \in Nat
      BY <3>1, FS_Subset, FS_CardinalityType
    <3> QED
      BY <3>2 DEF CountIn, A
  <2>3. Len(queued) \in Nat
    BY DEF Types
  <2>4. activeGauge \in Nat /\ queueGauge \in Nat
    BY <2>1, <2>2, <2>3
  <2> QED
    BY <2>4, Zenon DEF Types, TypeOK
<1> QED
  BY <1>1, SpecAccounting, PTL

\* The active list always agrees with the goroutines, id by id, although
\* queueToAwait and deactivate remove entries by id.
THEOREM ActiveListCorrect == Spec => []ActiveMatchesGoroutines
<1>1. Accounting => ActiveMatchesGoroutines
  BY DEF Accounting
<1> QED
  BY <1>1, SpecAccounting, PTL

\* A decision can be found by ResolveDecision exactly while its goroutine
\* waits for it.
THEOREM AwaitingListCorrect == Spec => []AwaitingMatchesGoroutines
<1>1. Accounting => AwaitingMatchesGoroutines
  BY DEF Accounting
<1> QED
  BY <1>1, SpecAccounting, PTL

\* After Close has returned no job executes and nobody waits for a decision.
\* The strengthening is that groupCtx is done from the first step of Close on,
\* so that iter.next lets no job of a late package start.
THEOREM ClosedIsQuiet == Spec => []ClosedRunsNothing
<1> DEFINE Quiet == Types /\ JobsLeft /\ (closer # "open" => cancelled) /\ ClosedRunsNothing
<1>1. Init => Quiet
  BY TypesInit DEF Init, ClosedRunsNothing
<1>2. Quiet /\ [Next]_vars => Quiet'
  <2> SUFFICES ASSUME Quiet, [Next]_vars
               PROVE  (closer # "open" => cancelled)' /\ ClosedRunsNothing'
    BY TypesStep
  <2> USE DEF Types, ClosedRunsNothing, Waiting, Move
  <2>1. ASSUME NEW p \in Pkgs, Submit(p) \/ Notify(p)
        PROVE  (closer # "open" => cancelled)' /\ ClosedRunsNothing'
    BY <2>1 DEF Submit, Notify, Enqueue
  <2>2. ASSUME Tick \/ TickerDone
        PROVE  (closer # "open" => cancelled)' /\ ClosedRunsNothing'
    BY <2>2 DEF Tick, TickerDone
  <2>3. ASSUME NEW t \in Threads, PickStep(t)
        PROVE  (closer # "open" => cancelled)' /\ ClosedRunsNothing'
    BY <2>3 DEF PickStep, PickNothing, PickStart, GroupGo
  <2>4. ASSUME NEW p \in Pkgs, NextStep(p)
        PROVE  (closer # "open" => cancelled)' /\ ClosedRunsNothing'
    BY <2>4 DEF NextStep, NextCancelled, NextJob
  <2>5. ASSUME NEW p \in Pkgs, JobStep(p) \/ AwaitStep(p)
        PROVE  (closer # "open" => cancelled)' /\ ClosedRunsNothing'
    BY <2>5 DEF JobStep, JobContinues, JobEnds, JobWaits, AwaitStep, AwaitResolved, AwaitFailed
  <2>6. ASSUME NEW p \in Pkgs, LockStep(p)
        PROVE  (closer # "open" => cancelled)' /\ ClosedRunsNothing'
    BY <2>6 DEF LockStep, QueueToAwait, DequeueFromAwait, Deactivate
  <2>7. ASSUME NEW p \in Pkgs, ResolveDecision(p) \/ GroupDone(p)
        PROVE  (closer # "open" => cancelled)' /\ ClosedRunsNothing'
    BY <2>7 DEF ResolveDecision, GroupDone
  <2>8. ASSUME CloseCancel PROVE (closer # "open" => cancelled)' /\ ClosedRunsNothing'
    BY <2>8 DEF CloseCancel
  <2>9. ASSUME CloseReturn PROVE (closer # "open" => cancelled)' /\ ClosedRunsNothing'
    BY <2>9 DEF CloseReturn, Goroutines, Outside
  <2>10. ASSUME UNCHANGED vars PROVE (closer # "open" => cancelled)' /\ ClosedRunsNothing'
    BY <2>10 DEF vars
  <2> HIDE DEF Types, ClosedRunsNothing, Waiting, Move
  <2> QED
    BY <2>1, <2>2, <2>3, <2>4, <2>5, <2>6, <2>7, <2>8, <2>9, <2>10 DEF Next, Pkgs
<1> QED
  BY <1>1, <1>2, PTL DEF Spec

\* When every decision is preconfigured, the list of active packages stays
\* within maxConcurrentPackages: the test of pick with == is then enough, since
\* only pick adds to the list.  With attended packages it is not: the one that
\* returns from a decision is added whatever the length.
THEOREM UnattendedWithinLimit == Attended = {} => (Spec => []ActiveWithinLimit)
<1> SUFFICES ASSUME Attended = {} PROVE Spec => []ActiveWithinLimit
  OBVIOUS
<1> DEFINE NoneWaits == \A p \in Pkgs : pc[p] \notin {"toAwait"} \cup Waiting
           Inv == Types /\ JobsLeft /\ NoneWaits /\ ActiveWithinLimit
<1>1. Init => Inv
  <2> SUFFICES ASSUME Init PROVE NoneWaits /\ ActiveWithinLimit
    BY TypesInit
  <2>1. NoneWaits
    BY DEF Init, Waiting
  <2>2. ActiveWithinLimit
    BY ControllerAssumption DEF Init, ActiveWithinLimit
  <2> QED
    BY <2>1, <2>2
<1>2. Inv /\ [Next]_vars => Inv'
  <2> SUFFICES ASSUME Inv, [Next]_vars PROVE NoneWaits' /\ ActiveWithinLimit'
    BY TypesStep
  <2>0. pc \in [Pkgs -> PCs] /\ active \in Seq(Ids) /\ MaxConcurrent \in Nat
    BY ControllerAssumption DEF Types
  <2> USE DEF ActiveWithinLimit, Waiting, Move, lists, gauges
  <2>1. ASSUME NEW p \in Pkgs, Submit(p) \/ Notify(p) PROVE NoneWaits' /\ ActiveWithinLimit'
    BY <2>0, <2>1 DEF Submit, Notify, Enqueue
  <2>2. ASSUME Tick \/ TickerDone PROVE NoneWaits' /\ ActiveWithinLimit'
    BY <2>2 DEF Tick, TickerDone
  <2>3. ASSUME NEW t \in Threads, PickNothing(t) \/ GroupGo(t) PROVE NoneWaits' /\ ActiveWithinLimit'
    BY <2>0, <2>3 DEF PickNothing, GroupGo
  <2>4. ASSUME NEW t \in Threads, PickStart(t) PROVE NoneWaits' /\ ActiveWithinLimit'
    <3>1. NoneWaits'
      BY <2>0, <2>4 DEF PickStart
    <3>2. queued \in Seq(Pkgs) /\ queued # <<>> /\ Head(queued) \in Pkgs
      BY <2>4, HeadTailProperties DEF PickStart, Types
    <3>3. IdOf[Head(queued)] \in Ids /\ active' = Append(active, IdOf[Head(queued)])
      BY <2>4, <3>2, ControllerAssumption DEF PickStart
    <3>4. Len(active') = Len(active) + 1 /\ Len(active) \in Nat
      BY <2>0, <3>3
    <3>5. Len(active) # MaxConcurrent /\ Len(active) <= MaxConcurrent
      BY <2>4 DEF PickStart, AtLimit
    <3> QED
      BY <2>0, <3>1, <3>4, <3>5
  <2>5. ASSUME NEW p \in Pkgs, NextStep(p) \/ JobStep(p) PROVE NoneWaits' /\ ActiveWithinLimit'
    BY <2>0, <2>5 DEF NextStep, NextCancelled, NextJob, JobStep, JobContinues, JobEnds, JobWaits
  <2>6. ASSUME NEW p \in Pkgs, AwaitStep(p) PROVE NoneWaits' /\ ActiveWithinLimit'
    BY <2>0, <2>6 DEF AwaitStep, AwaitResolved, AwaitFailed
  <2>7. ASSUME NEW p \in Pkgs, LockStep(p) PROVE NoneWaits' /\ ActiveWithinLimit'
    <3>1. Deactivate(p)
      BY <2>0, <2>7 DEF LockStep, QueueToAwait, DequeueFromAwait
    <3>2. NoneWaits'
      BY <2>0, <3>1 DEF Deactivate
    <3>3. Contains(active, IdOf[p]) => Len(RemoveFirst(active, IdOf[p])) = Len(active) - 1
      BY <2>0, OccurrencesRemoveFirst
    <3>4. Len(active) \in Nat /\ (Len(active') = Len(active) \/ Len(active') = Len(active) - 1)
      BY <2>0, <3>1, <3>3 DEF Deactivate
    <3> QED
      BY <2>0, <3>2, <3>4
  <2>8. ASSUME NEW p \in Pkgs, ResolveDecision(p) \/ GroupDone(p) PROVE NoneWaits' /\ ActiveWithinLimit'
    BY <2>0, <2>8 DEF ResolveDecision, GroupDone
  <2>9. ASSUME CloseCancel \/ CloseReturn PROVE NoneWaits' /\ ActiveWithinLimit'
    BY <2>9 DEF CloseCancel, CloseReturn
  <2>10. ASSUME UNCHANGED vars PROVE NoneWaits' /\ ActiveWithinLimit'
    BY <2>10 DEF vars
  <2> HIDE DEF NoneWaits, ActiveWithinLimit
  <2> QED
    BY <2>1, <2>2, <2>3, <2>4, <2>5, <2>6, <2>7, <2>8, <2>9, <2>10 DEF Next, PickStep, Pkgs
<1> QED
  BY <1>1, <1>2, PTL DEF Spec

\* A step leaves the queue as it is, appends to it or takes its head.
LEMMA QueueStep ==
  ASSUME Types, [Next]_vars
  PROVE  \/ queued' = queued
         \/ \E p \in Pkgs : queued' = Append(queued, p)
         \/ queued # <<>> /\ queued' = Tail(queued)
BY DEF Next, vars, lists, Pkgs, Submit, Notify, Enqueue, Tick, TickerDone, PickStep, PickNothing,
   PickStart, GroupGo, NextStep, NextCancelled, NextJob, JobStep, JobContinues, JobEnds, JobWaits,
   AwaitStep, AwaitResolved, AwaitFailed, LockStep, QueueToAwait, DequeueFromAwait, Deactivate,
   ResolveDecision, GroupDone, CloseCancel, CloseReturn

\* No package overtakes another in queuedPackages, whoever calls pick.
THEOREM QueueCorrect == Spec => QueueIsFIFO
<1> DEFINE Ordered == \A j \in DOMAIN queued : \A k \in 1..j :
                        Contains(queued', queued[k]) => Contains(queued', queued[j])
<1>1. Types /\ [Next]_vars => [Ordered]_vars
  <2> SUFFICES ASSUME Types, [Next]_vars, NEW j \in DOMAIN queued, NEW k \in 1..j,
                      Contains(queued', queued[k])
               PROVE  Contains(queued', queued[j])
    OBVIOUS
  <2>1. queued \in Seq(Pkgs) /\ j \in 1..Len(queued) /\ Len(queued) \in Nat
    BY DEF Types
  <2>2. CASE queued' = queued
    BY <2>1, <2>2 DEF Contains
  <2>3. ASSUME NEW p \in Pkgs, queued' = Append(queued, p) PROVE Contains(queued', queued[j])
    <3>1. Len(queued') = Len(queued) + 1 /\ queued'[j] = queued[j]
      BY <2>1, <2>3
    <3> QED
      BY <2>1, <3>1 DEF Contains
  <2>4. CASE queued # <<>> /\ queued' = Tail(queued)
    <3>1. CASE j = 1
      BY <3>1
    <3>2. CASE j # 1
      <4>1. Len(queued') = Len(queued) - 1 /\ j - 1 \in 1..Len(queued')
        BY <2>1, <2>4, <3>2
      <4>2. queued'[j - 1] = queued[j]
        BY <2>1, <2>4, <4>1
      <4> QED
        BY <4>1, <4>2 DEF Contains
    <3> QED
      BY <3>1, <3>2
  <2> QED
    BY <2>2, <2>3, <2>4, QueueStep
<1>2. (Types /\ JobsLeft /\ Accounting) /\ [Next]_vars => [Ordered]_vars
  BY <1>1
<1> QED
  BY <1>2, SpecAccounting, PTL DEF Spec, QueueIsFIFO

\* c.mu makes the move to the active list and the start of the goroutine one
\* unit: two callers of pick are never inside group.Go together.
THEOREM PickIsExclusive == Spec => []PickHoldsLock
<1> DEFINE Inv == Types /\ JobsLeft /\ PickHoldsLock
<1>1. Init => Inv
  BY TypesInit, ControllerAssumption DEF Init, PickHoldsLock
<1>2. Inv /\ [Next]_vars => Inv'
  <2> SUFFICES ASSUME Inv, [Next]_vars PROVE PickHoldsLock'
    BY TypesStep
  <2>0. /\ pc \in [Pkgs -> PCs] /\ thr \in [Threads -> {"idle", "pick", "go", "end"}]
        /\ Free \notin Threads /\ Ticker \in Threads /\ Pkgs \subseteq Threads
    BY ControllerAssumption DEF Types, Threads
  <2> USE <2>0 DEF PickHoldsLock, Move
  <2>1. ASSUME NEW p \in Pkgs, Submit(p) \/ Notify(p) PROVE PickHoldsLock'
    BY <2>1 DEF Submit, Notify, Enqueue
  <2>2. ASSUME Tick \/ TickerDone PROVE PickHoldsLock'
    BY <2>2 DEF Tick, TickerDone
  <2>3. ASSUME NEW t \in Threads, PickNothing(t) PROVE PickHoldsLock'
    BY <2>3 DEF PickNothing, Returned
  <2>4. ASSUME NEW t \in Threads, PickStart(t) PROVE PickHoldsLock'
    <3>1. PICK p \in Pkgs : pc[p] = "queued" /\ pc' = [pc EXCEPT ![p] = "go"]
      BY <2>4, HeadTailProperties DEF PickStart, Types
    <3>2. mu = Free /\ mu' = t /\ thr' = [thr EXCEPT ![t] = "go"]
      BY <2>4 DEF PickStart
    <3> QED
      BY <3>1, <3>2
  <2>5. ASSUME NEW t \in Threads, GroupGo(t) PROVE PickHoldsLock'
    <3>1. PICK p \in Pkgs : pc[p] = "go" /\ pc' = [pc EXCEPT ![p] = "next"]
      BY <2>5 DEF GroupGo
    <3>2. thr[t] = "go" /\ mu' = Free /\ thr' = [thr EXCEPT ![t] = Returned(t)]
      BY <2>5 DEF GroupGo
    <3> QED
      BY <3>1, <3>2 DEF Returned
  <2>6. ASSUME NEW p \in Pkgs, NextStep(p) \/ JobStep(p) \/ AwaitStep(p) PROVE PickHoldsLock'
    BY <2>6 DEF NextStep, NextCancelled, NextJob, JobStep, JobContinues, JobEnds, JobWaits,
       AwaitStep, AwaitResolved, AwaitFailed
  <2>7. ASSUME NEW p \in Pkgs, LockStep(p) PROVE PickHoldsLock'
    BY <2>7 DEF LockStep, QueueToAwait, DequeueFromAwait, Deactivate
  <2>8. ASSUME NEW p \in Pkgs, ResolveDecision(p) \/ GroupDone(p) PROVE PickHoldsLock'
    BY <2>8 DEF ResolveDecision, GroupDone
  <2>9. ASSUME CloseCancel \/ CloseReturn PROVE PickHoldsLock'
    BY <2>9 DEF CloseCancel, CloseReturn
  <2>10. ASSUME UNCHANGED vars PROVE PickHoldsLock'
    BY <2>10 DEF vars
  <2> HIDE DEF PickHoldsLock
  <2> QED
    BY <2>1, <2>2, <2>3, <2>4, <2>5, <2>6, <2>7, <2>8, <2>9, <2>10 DEF Next, PickStep, Pkgs
<1> QED
  BY <1>1, <1>2, PTL DEF Spec

\* While pick waits in group.Go with c.mu locked for a slot, and no goroutine of
\* the group is past deactivate, nothing changes that: the deadlock of
\* controller.go:213 is final, whatever users and Close do.
THEOREM StuckForever == Spec => StuckIsForever
<1>1. Types /\ [Next]_vars => [Stuck => Stuck']_vars
  <2> SUFFICES ASSUME Types, [Next]_vars, Stuck
               PROVE  Stuck'
    OBVIOUS
  <2>0. /\ mu # Free /\ Cardinality(Goroutines) = GroupLimit
        /\ \A p \in Goroutines : pc[p] # "exit"
    BY DEF Stuck
  <2>1. ASSUME mu' = mu, pc' = pc
        PROVE  Stuck'
    BY <2>0, <2>1 DEF Stuck, Goroutines
  <2>2. ASSUME NEW p \in Pkgs, NEW from \in PCs \ (Outside \cup {"go", "done"}),
               NEW to \in PCs \ (Outside \cup {"go", "done", "exit"}),
               Move(p, from, to), mu' = mu
        PROVE  Stuck'
    <3>1. p \in Goroutines /\ pc' = [pc EXCEPT ![p] = to]
      BY <2>2 DEF Move, Goroutines
    <3>2. Goroutines' = Goroutines
      BY <2>2, <3>1 DEF Goroutines, Types
    <3>3. \A q \in Goroutines : pc'[q] # "exit"
      BY <2>0, <2>2, <3>1 DEF Types, Goroutines
    <3> QED
      BY <2>0, <2>2, <3>2, <3>3 DEF Stuck
  <2>3. ASSUME NEW p \in Pkgs, NextStep(p) \/ JobStep(p) \/ AwaitStep(p)
        PROVE  Stuck'
    BY <2>3, <2>2
    DEF NextStep, NextCancelled, NextJob, JobStep, JobContinues, JobEnds, JobWaits, AwaitStep,
        AwaitResolved, AwaitFailed, PCs, Outside, Listed, Waiting
  <2>4. ASSUME NEW p \in Pkgs, LockStep(p)
        PROVE  FALSE
    BY <2>0, <2>4 DEF LockStep, QueueToAwait, DequeueFromAwait, Deactivate
  <2>5. ASSUME NEW p \in Pkgs, GroupDone(p)
        PROVE  FALSE
    BY <2>0, <2>5 DEF GroupDone, Move, Goroutines, Outside
  <2>6. ASSUME NEW t \in Threads, PickStep(t)
        PROVE  FALSE
    <3>1. GroupLimit \in Nat /\ ~(Cardinality(Goroutines) < GroupLimit)
      BY <2>0, ControllerAssumption
    <3> QED
      BY <2>0, <2>6, <3>1 DEF PickStep, PickNothing, PickStart, GroupGo
  <2>7. ASSUME NEW p \in Pkgs, Submit(p) \/ Notify(p) \/ ResolveDecision(p)
        PROVE  FALSE
    BY <2>0, <2>7 DEF Submit, Notify, Enqueue, ResolveDecision
  <2>8. CASE Tick \/ TickerDone \/ CloseCancel \/ CloseReturn \/ UNCHANGED vars
    BY <2>8, <2>1 DEF Tick, TickerDone, CloseCancel, CloseReturn, vars
  <2> QED
    BY <2>3, <2>4, <2>5, <2>6, <2>7, <2>8 DEF Next, Pkgs
<1> QED
  BY <1>1, SpecAccounting, PTL DEF Spec, StuckIsForever
-----------------------------------------------------------------------------
(* The refinement of PackageLifecycle.                                     *)


\* The phase a state of the goroutine stands for.
PhaseOf(s) ==
  CASE s = "idle"             -> "new"
    [] s \in {"queued", "go"} -> "waiting"
    [] s \in Waiting          -> "deciding"
    [] s = "done"             -> "finished"
    [] OTHER                  -> "running"

\* What the refinement needs beyond the accounting: a decision is new when its
\* goroutine starts to wait, is left only once it was resolved or the context
\* is done, and only attended packages have one.
DecisionState ==
  /\ cancelled <=> closer # "open"
  /\ \A p \in Pkgs :
       /\ pc[p] = "toAwait" => ~res[p]
       /\ pc[p] = "resume" => res[p]
       /\ pc[p] = "abandon" => res[p] \/ cancelled
       /\ pc[p] \in {"toAwait"} \cup Waiting => p \in Attended

\* The invariant of the refinement.
RefInv == Types /\ JobsLeft /\ Accounting /\ PickHoldsLock /\ ClosedRunsNothing /\ DecisionState

\* A decision that is listed has a goroutine that waits for it.
LEMMA ListedIsAwaiting ==
  ASSUME Types, AwaitingMatchesGoroutines, NEW p \in Pkgs, Contains(awaiting[IdOf[p]], p)
  PROVE  pc[p] \in Waiting
<1>1. IdOf[p] \in Ids /\ awaiting[IdOf[p]] \in Seq(Pkgs)
  BY ControllerAssumption DEF Types
<1>2. Occurrences(awaiting[IdOf[p]], p) # 0
  BY <1>1, OccurrencesType
<1> QED
  BY <1>1, <1>2 DEF AwaitingMatchesGoroutines

\* Every step keeps it: only a listed decision is resolved.
LEMMA DecisionStateStep ==
  ASSUME Types, AwaitingMatchesGoroutines, DecisionState, [Next]_vars
  PROVE  DecisionState'
<1> USE DEF DecisionState, Waiting, Move
<1>0. /\ pc \in [Pkgs -> PCs] /\ res \in [Pkgs -> BOOLEAN] /\ cancelled \in BOOLEAN
      /\ closer \in {"open", "wait", "closed"}
  BY DEF Types
<1> USE <1>0
<1>1. ASSUME NEW p \in Pkgs, Submit(p) \/ Notify(p) PROVE DecisionState'
  BY <1>1 DEF Submit, Notify, Enqueue
<1>2. ASSUME Tick \/ TickerDone PROVE DecisionState'
  BY <1>2 DEF Tick, TickerDone
<1>3. ASSUME NEW t \in Threads, PickStep(t) PROVE DecisionState'
  BY <1>3 DEF PickStep, PickNothing, PickStart, GroupGo
<1>4. ASSUME NEW p \in Pkgs, NextStep(p) PROVE DecisionState'
  BY <1>4 DEF NextStep, NextCancelled, NextJob
<1>5. ASSUME NEW p \in Pkgs, JobStep(p) PROVE DecisionState'
  BY <1>5 DEF JobStep, JobContinues, JobEnds, JobWaits
<1>6. ASSUME NEW p \in Pkgs, AwaitStep(p) PROVE DecisionState'
  BY <1>6 DEF AwaitStep, AwaitResolved, AwaitFailed
<1>7. ASSUME NEW p \in Pkgs, LockStep(p) PROVE DecisionState'
  BY <1>7 DEF LockStep, QueueToAwait, DequeueFromAwait, Deactivate
<1>8. ASSUME NEW p \in Pkgs, ResolveDecision(p) PROVE DecisionState'
  <2>1. pc[p] \in Waiting
    BY <1>8, ListedIsAwaiting DEF ResolveDecision
  <2> QED
    BY <1>8, <2>1 DEF ResolveDecision
<1>9. ASSUME NEW p \in Pkgs, GroupDone(p) PROVE DecisionState'
  BY <1>9 DEF GroupDone
<1>10. ASSUME CloseCancel \/ CloseReturn PROVE DecisionState'
  BY <1>10 DEF CloseCancel, CloseReturn
<1>11. ASSUME UNCHANGED vars PROVE DecisionState'
  BY <1>11 DEF vars
<1> HIDE DEF DecisionState
<1> QED
  BY <1>1, <1>2, <1>3, <1>4, <1>5, <1>6, <1>7, <1>8, <1>9, <1>10, <1>11 DEF Next, Pkgs

\* The mapping of the phases, package by package.
LEMMA PhaseIs == Phase = [p \in Pkgs |-> PhaseOf(pc[p])]
BY DEF Phase, PhaseOf

\* A step of the goroutine of p changes the phase of p only.
LEMMA PhaseAfterMove ==
  ASSUME Types, NEW p \in Pkgs, NEW to, pc' = [pc EXCEPT ![p] = to]
  PROVE  Phase' = [Phase EXCEPT ![p] = PhaseOf(to)]
<1>1. Phase' = [q \in Pkgs |-> PhaseOf(pc'[q])]
  BY DEF Phase, PhaseOf
<1>2. \A q \in Pkgs : pc'[q] = IF q = p THEN to ELSE pc[q]
  BY DEF Types
<1>3. Phase' = [q \in Pkgs |-> IF q = p THEN PhaseOf(to) ELSE PhaseOf(pc[q])]
  BY <1>1, <1>2
<1> QED
  BY <1>3, PhaseIs

\* The package inside group.Go is the one at the head of the line.
LEMMA LineInGo ==
  ASSUME PickHoldsLock, mu # Free, NEW p \in Pkgs, pc[p] = "go"
  PROVE  Line = <<p>> \o queued
<1>1. \A q \in Pkgs : pc[q] = "go" <=> q = p
  BY DEF PickHoldsLock
<1> QED
  BY <1>1 DEF Line

\* The same for the next state.
LEMMA LineInGoPrime ==
  ASSUME PickHoldsLock', mu' # Free, NEW p \in Pkgs, pc'[p] = "go"
  PROVE  Line' = <<p>> \o queued'
<1>1. \A q \in Pkgs : pc'[q] = "go" <=> q = p
  BY DEF PickHoldsLock
<1> QED
  BY <1>1 DEF Line

\* The line stays as it is when neither the queue nor who is inside group.Go changes.
LEMMA LineKept ==
  ASSUME PickHoldsLock, PickHoldsLock', UNCHANGED <<queued, mu>>,
         \A q \in Pkgs : pc'[q] = "go" <=> pc[q] = "go"
  PROVE  Line' = Line
<1>1. CASE mu = Free
  BY <1>1 DEF Line
<1>2. CASE mu # Free
  <2>1. PICK p \in Pkgs : pc[p] = "go"
    BY <1>2 DEF PickHoldsLock
  <2> QED
    BY <1>2, <2>1, LineInGo, LineInGoPrime
<1> QED
  BY <1>1, <1>2

\* Packages in progress are the goroutines that have a slot.
LEMMA InProgressIs == Lifecycle!InProgress = Goroutines
BY DEF Lifecycle!InProgress, Goroutines, Phase, Outside, Waiting

-----------------------------------------------------------------------------
(* Each step of the controller is a step of the lifecycle or a stutter.     *)

\* The mapped variables do not change.
Stutter == UNCHANGED <<Line, Phase, Answered, Service>>

\* What a step does to the mapped variables when only the goroutine of p moves,
\* to a state of the same phase.
LEMMA RefineSilent ==
  ASSUME Types, PickHoldsLock, PickHoldsLock', NEW p \in Pkgs, NEW to,
         pc' = [pc EXCEPT ![p] = to], pc[p] # "go", to # "go",
         PhaseOf(to) = PhaseOf(pc[p]),
         UNCHANGED <<queued, mu, closer>>,
         res' = res \/ (pc[p] \notin Waiting /\ \A q \in Pkgs : q # p => res'[q] = res[q])
  PROVE  Stutter
<1>0. pc \in [Pkgs -> PCs]
  BY DEF Types
<1>1. Line' = Line
  BY <1>0, LineKept
<1>2. Phase' = Phase
  <2>1. Phase' = [Phase EXCEPT ![p] = PhaseOf(to)] /\ Phase[p] = PhaseOf(to)
    BY PhaseAfterMove, PhaseIs
  <2> QED
    BY <2>1, PhaseIs
<1>3. Answered' = Answered
  BY <1>0 DEF Answered, PhaseOf, Waiting
<1>4. Service' = Service
  BY DEF Service
<1> QED
  BY <1>1, <1>2, <1>3, <1>4 DEF Stutter

\* Submit and Notify put a package at the end of the line.
LEMMA RefineArrive ==
  ASSUME RefInv, PickHoldsLock', NEW p \in Pkgs, Submit(p) \/ Notify(p)
  PROVE  Lifecycle!Arrive(p)
<1>1. /\ mu = Free /\ mu' = Free /\ pc[p] = "idle" /\ pc' = [pc EXCEPT ![p] = "queued"]
      /\ queued' = Append(queued, p) /\ UNCHANGED <<res, closer>>
  BY DEF Submit, Notify, Enqueue, Move
<1>2. Line = queued /\ Line' = Append(Line, p)
  BY <1>1 DEF Line
<1>3. Phase[p] = "new" /\ Phase' = [Phase EXCEPT ![p] = "waiting"]
  BY <1>1, PhaseIs, PhaseAfterMove DEF PhaseOf, RefInv, Waiting
<1>4. Answered' = Answered /\ Service' = Service
  BY <1>1 DEF Answered, Service, Waiting, RefInv, Types
<1> QED
  BY <1>2, <1>3, <1>4 DEF Lifecycle!Arrive, Lifecycle!Becomes

\* pick takes the head of the queue into group.Go: the line stays as it is.
LEMMA RefinePickStart ==
  ASSUME RefInv, PickHoldsLock', NEW t \in Threads, PickStart(t)
  PROVE  Stutter
<1> DEFINE p == Head(queued)
<1>1. queued \in Seq(Pkgs) /\ queued # <<>> /\ p \in Pkgs
  BY HeadTailProperties DEF PickStart, RefInv, Types
<1>2. /\ mu = Free /\ mu' # Free /\ pc[p] = "queued" /\ pc' = [pc EXCEPT ![p] = "go"]
      /\ queued' = Tail(queued) /\ UNCHANGED <<res, closer>>
  BY ControllerAssumption DEF PickStart, Move
<1> HIDE DEF p
<1>3. pc'[p] = "go"
  BY <1>1, <1>2 DEF RefInv, Types
<1>4. Line' = <<p>> \o Tail(queued)
  BY <1>1, <1>2, <1>3, LineInGoPrime
<1>5. <<p>> \o Tail(queued) = queued
  BY <1>1 DEF p
<1>6. Line' = Line
  BY <1>2, <1>4, <1>5 DEF Line
<1>7. Phase' = Phase
  <2>1. Phase' = [Phase EXCEPT ![p] = "waiting"] /\ Phase[p] = "waiting"
    BY <1>1, <1>2, PhaseIs, PhaseAfterMove DEF PhaseOf, RefInv, Waiting
  <2> QED
    BY <2>1, PhaseIs
<1>8. Answered' = Answered /\ Service' = Service
  BY <1>1, <1>2 DEF Answered, Service, Waiting, RefInv, Types
<1> QED
  BY <1>6, <1>7, <1>8 DEF Stutter

\* The errgroup gives a slot to the package inside group.Go.
LEMMA RefineGroupGo ==
  ASSUME RefInv, NEW t \in Threads, GroupGo(t)
  PROVE  \E p \in Pkgs : Lifecycle!Start(p)
<1>1. PICK p \in Pkgs : pc[p] = "go" /\ pc' = [pc EXCEPT ![p] = "next"]
  BY DEF GroupGo, Move
<1>2. mu # Free /\ mu' = Free /\ queued' = queued /\ UNCHANGED <<res, closer>>
  BY ControllerAssumption DEF GroupGo, PickHoldsLock, RefInv, lists
<1>3. Line = <<p>> \o queued /\ Line' = queued /\ queued \in Seq(Pkgs)
  BY <1>1, <1>2, LineInGo DEF Line, RefInv, Types
<1>4. Line # <<>> /\ Head(Line) = p /\ Tail(Line) = queued
  BY <1>3
<1>5. Lifecycle!Cardinality(Lifecycle!InProgress) < GroupLimit
  <2>1. Lifecycle!Cardinality(Goroutines) = Cardinality(Goroutines)
    BY DEF Cardinality, Lifecycle!Cardinality
  <2> QED
    BY <2>1, InProgressIs DEF GroupGo
<1>6. Phase[p] = "waiting" /\ Phase' = [Phase EXCEPT ![p] = "running"]
  BY <1>1, PhaseIs, PhaseAfterMove DEF PhaseOf, RefInv, Waiting
<1>7. Answered' = Answered /\ Service' = Service
  BY <1>1, <1>2 DEF Answered, Service, Waiting, RefInv, Types
<1>8. Lifecycle!Start(p)
  BY <1>3, <1>4, <1>5, <1>6, <1>7 DEF Lifecycle!Start, Lifecycle!Becomes
<1> QED
  BY <1>8

\* queueToAwait: a package that has a decision asks for it.
LEMMA RefineAsk ==
  ASSUME RefInv, PickHoldsLock', NEW p \in Pkgs, QueueToAwait(p)
  PROVE  Lifecycle!Ask(p)
<1>1. /\ pc[p] = "toAwait" /\ pc' = [pc EXCEPT ![p] = "await"]
      /\ UNCHANGED <<queued, mu, res, closer>>
  BY DEF QueueToAwait, Move
<1>2. pc \in [Pkgs -> PCs] /\ ~res[p] /\ p \in Attended /\ closer # "closed"
  BY <1>1 DEF RefInv, Types, DecisionState, ClosedRunsNothing
<1>3. Line' = Line
  BY <1>1, <1>2, LineKept DEF RefInv
<1>4. Phase[p] = "running" /\ Phase' = [Phase EXCEPT ![p] = "deciding"]
  BY <1>1, PhaseIs, PhaseAfterMove DEF PhaseOf, RefInv, Waiting
<1>5. Answered' = Answered
  BY <1>1, <1>2 DEF Answered, Waiting
<1>6. Service' = Service /\ Service # "closed"
  BY <1>1, <1>2 DEF Service, RefInv, Types
<1> QED
  BY <1>2, <1>3, <1>4, <1>5, <1>6 DEF Lifecycle!Ask, Lifecycle!Becomes

\* ResolveDecision answers a decision that somebody waits for, once.
LEMMA RefineAnswer ==
  ASSUME RefInv, PickHoldsLock', NEW p \in Pkgs, ResolveDecision(p)
  PROVE  Lifecycle!Answer(p)
<1>1. pc[p] \in Waiting
  BY ListedIsAwaiting DEF ResolveDecision, RefInv, Accounting
<1>2. ~res[p] /\ res' = [res EXCEPT ![p] = TRUE] /\ UNCHANGED <<queued, mu, pc, closer>>
  BY DEF ResolveDecision, lists
<1>3. Line' = Line
  BY <1>2, LineKept DEF RefInv
<1>4. Phase' = Phase /\ Phase[p] = "deciding" /\ Service' = Service
  BY <1>1, <1>2, PhaseIs DEF Phase, PhaseOf, Service, Waiting
<1>5. p \notin Answered /\ Answered' = Answered \cup {p}
  BY <1>1, <1>2 DEF Answered, RefInv, Types
<1> QED
  BY <1>3, <1>4, <1>5 DEF Lifecycle!Answer

\* dequeueFromAwait: the wait is over, resolved or closed.
LEMMA RefineGoOn ==
  ASSUME RefInv, PickHoldsLock', NEW p \in Pkgs,
         DequeueFromAwait(p, "resume", "next") \/ DequeueFromAwait(p, "abandon", "leave")
  PROVE  Lifecycle!GoOn(p)
<1>1. PICK to \in {"next", "leave"} :
        /\ pc[p] \in {"resume", "abandon"} /\ pc' = [pc EXCEPT ![p] = to]
        /\ UNCHANGED <<queued, mu, res, closer>>
  BY DEF DequeueFromAwait, Move
<1>2. pc \in [Pkgs -> PCs] /\ (res[p] \/ closer # "open")
  BY <1>1 DEF RefInv, Types, DecisionState
<1>3. Line' = Line
  BY <1>1, <1>2, LineKept DEF RefInv
<1>4. Phase[p] = "deciding" /\ Phase' = [Phase EXCEPT ![p] = "running"]
  BY <1>1, PhaseIs, PhaseAfterMove DEF PhaseOf, RefInv, Waiting
<1>5. Answered' = Answered \ {p} /\ (res[p] => p \in Answered)
  BY <1>1, <1>2 DEF Answered, Waiting
<1>6. Service' = Service /\ (closer # "open" => Service # "open")
  BY <1>1 DEF Service, RefInv, Types
<1> QED
  BY <1>2, <1>3, <1>4, <1>5, <1>6 DEF Lifecycle!GoOn, Lifecycle!Becomes

\* The errgroup releases the slot.
LEMMA RefineFinish ==
  ASSUME RefInv, PickHoldsLock', NEW p \in Pkgs, GroupDone(p)
  PROVE  Lifecycle!Finish(p)
<1>1. /\ pc[p] = "exit" /\ pc' = [pc EXCEPT ![p] = "done"] /\ pc \in [Pkgs -> PCs]
      /\ UNCHANGED <<queued, mu, res, closer>>
  BY DEF GroupDone, Move, lists, RefInv, Types
<1>2. Line' = Line
  BY <1>1, LineKept DEF RefInv
<1>3. Phase[p] = "running" /\ Phase' = [Phase EXCEPT ![p] = "finished"]
  BY <1>1, PhaseIs, PhaseAfterMove DEF PhaseOf, RefInv, Waiting
<1>4. Answered' = Answered /\ Service' = Service
  BY <1>1 DEF Answered, Service, Waiting
<1> QED
  BY <1>2, <1>3, <1>4 DEF Lifecycle!Finish, Lifecycle!Becomes

\* Close cancels the context, and returns when no slot is taken.
LEMMA RefineClose ==
  ASSUME RefInv, PickHoldsLock', CloseCancel \/ CloseReturn
  PROVE  Lifecycle!Close \/ Lifecycle!Closed
<1>1. UNCHANGED <<queued, mu, pc, res>>
  BY DEF CloseCancel, CloseReturn, lists
<1>2. Line' = Line
  BY <1>1, LineKept DEF RefInv
<1>3. Phase' = Phase /\ Answered' = Answered
  BY <1>1 DEF Phase, Answered
<1>4. CASE CloseCancel
  BY <1>2, <1>3, <1>4 DEF CloseCancel, Service, Lifecycle!Close
<1>5. CASE CloseReturn
  <2>1. Lifecycle!InProgress = {}
    BY <1>5, InProgressIs DEF CloseReturn
  <2> QED
    BY <1>2, <1>3, <1>5, <2>1 DEF CloseReturn, Service, Lifecycle!Closed
<1> QED
  BY <1>4, <1>5

\* The steps of a goroutine between two phases.
LEMMA RefineWithin ==
  ASSUME RefInv, PickHoldsLock', NEW p \in Pkgs,
         NextStep(p) \/ JobStep(p) \/ AwaitStep(p) \/ Deactivate(p)
  PROVE  Stutter
<1>1. PICK to \in {"leave", "exec", "next", "toAwait", "resume", "abandon", "exit"} :
        /\ pc' = [pc EXCEPT ![p] = to]
        /\ \/ pc[p] \in {"next", "exec", "leave"} /\ to \notin Waiting
           \/ pc[p] = "await" /\ to \in Waiting /\ res' = res
        /\ UNCHANGED <<queued, mu, closer>>
        /\ res' = res \/ res' = [res EXCEPT ![p] = FALSE]
  BY DEF NextStep, NextCancelled, NextJob, JobStep, JobContinues, JobEnds, JobWaits, AwaitStep,
         AwaitResolved, AwaitFailed, Deactivate, Move, lists, Waiting
<1>2. PhaseOf(to) = PhaseOf(pc[p]) /\ pc[p] # "go" /\ to # "go"
  BY <1>1 DEF PhaseOf, Waiting
<1>3. res' = res \/ (pc[p] \notin Waiting /\ \A q \in Pkgs : q # p => res'[q] = res[q])
  BY <1>1 DEF Waiting, RefInv, Types
<1> QED
  BY <1>1, <1>2, <1>3, RefineSilent DEF RefInv

\* The invariant of the refinement, from the theorems above and DecisionState.
LEMMA SpecRefInv == Spec => []RefInv
<1>1. Init => DecisionState
  BY DEF Init, DecisionState, Waiting
<1>2. (Types /\ JobsLeft /\ Accounting) /\ DecisionState /\ [Next]_vars => DecisionState'
  BY DecisionStateStep DEF Accounting
<1>3. Spec => []DecisionState
  BY <1>1, <1>2, SpecAccounting, PTL DEF Spec
<1> QED
  BY <1>3, SpecAccounting, PickIsExclusive, ClosedIsQuiet, PTL DEF RefInv

\* Each step of the controller is a step of the lifecycle or a stutter.
LEMMA RefineStep ==
  ASSUME RefInv, PickHoldsLock', [Next]_vars
  PROVE  [Lifecycle!Next]_(Lifecycle!vars)
<1> USE DEF Lifecycle!Next, Lifecycle!vars
<1>0. Stutter => UNCHANGED Lifecycle!vars
  BY DEF Stutter
<1>1. ASSUME NEW p \in Pkgs, Submit(p) \/ Notify(p) PROVE Lifecycle!Next
  BY <1>1, RefineArrive
<1>2. ASSUME Tick \/ TickerDone \/ UNCHANGED vars \/ \E t \in Threads : PickNothing(t)
      PROVE  Stutter
  <2>1. UNCHANGED <<queued, mu, pc, res, closer>>
    BY <1>2 DEF Tick, TickerDone, PickNothing, vars, lists
  <2>2. Line' = Line
    BY <2>1, LineKept DEF RefInv
  <2> QED
    BY <2>1, <2>2 DEF Stutter, Phase, Answered, Service
<1>3. ASSUME NEW t \in Threads, PickStart(t) PROVE Stutter
  BY <1>3, RefinePickStart
<1>4. ASSUME NEW t \in Threads, GroupGo(t) PROVE Lifecycle!Next
  BY <1>4, RefineGroupGo
<1>5. ASSUME NEW p \in Pkgs, NextStep(p) \/ JobStep(p) \/ AwaitStep(p) \/ Deactivate(p)
      PROVE  Stutter
  BY <1>5, RefineWithin
<1>6. ASSUME NEW p \in Pkgs, QueueToAwait(p) PROVE Lifecycle!Next
  BY <1>6, RefineAsk
<1>7. ASSUME NEW p \in Pkgs,
             DequeueFromAwait(p, "resume", "next") \/ DequeueFromAwait(p, "abandon", "leave")
      PROVE  Lifecycle!Next
  BY <1>7, RefineGoOn
<1>8. ASSUME NEW p \in Pkgs, ResolveDecision(p) PROVE Lifecycle!Next
  BY <1>8, RefineAnswer
<1>9. ASSUME NEW p \in Pkgs, GroupDone(p) PROVE Lifecycle!Next
  BY <1>9, RefineFinish
<1>10. ASSUME CloseCancel \/ CloseReturn PROVE Lifecycle!Next
  BY <1>10, RefineClose
<1> HIDE DEF Lifecycle!Next, Lifecycle!vars
<1> QED
  BY <1>0, <1>1, <1>2, <1>3, <1>4, <1>5, <1>6, <1>7, <1>8, <1>9, <1>10
     DEF Next, PickStep, LockStep, Pkgs

\* The controller implements PackageLifecycle, for every set of packages, every
\* sharing of ids and every limit: queue, pick, group.Go, await and Close keep
\* the promise whatever the interleaving.
THEOREM Implements == Spec => Refines
<1>1. Init => Lifecycle!Init
  BY ControllerAssumption DEF Init, Lifecycle!Init, Line, Phase, Answered, Service, Waiting
<1>2. RefInv /\ RefInv' /\ [Next]_vars => [Lifecycle!Next]_(Lifecycle!vars)
  BY RefineStep DEF RefInv
<1> QED
  BY <1>1, <1>2, SpecRefInv, PTL DEF Spec, Refines, Lifecycle!Spec

-----------------------------------------------------------------------------
(***************************************************************************)
(* Decision: the locks of the controller around one decision, for any      *)
(* number of calls that resolve and list it at the same time and any       *)
(* number of choices.  Its goroutine and its callers have places of their  *)
(* own (at) and see the end of groupCtx (closing).                         *)
(***************************************************************************)
Inside == {"lookup", "check", "lock", "locking", "send", "convert"}

\* The calls that hold c.mu for reading.
Readers == {a \in Resolvers \cup Listers : at[a] \in Inside}

Places == {"idle", "lookup", "check", "lock", "locking", "send", "convert", "await", "dequeue", "done"}

\* What DecisionTypeOK says of all but the counters of the mutexes.
DecisionTypes ==
  /\ cmu \in [readers : Int, announced : Actors \cup {None}, writer : Actors \cup {None}]
  /\ dmu \in MutexType
  /\ chan \in Seq(0..NumChoices) /\ Len(chan) <= 1
  /\ resolved \in BOOLEAN /\ listed \in BOOLEAN
  /\ at \in [Actors -> Places]
  /\ req \in [Resolvers -> Requests]
  /\ out \in [Resolvers -> {"none", "refused", "notPending", "unmatched", "ok"}]
  /\ applied \in 0..NumChoices \cup {None}
  /\ closing \in BOOLEAN /\ panicked \in BOOLEAN

\* c.mu counts exactly the calls that hold it.
Counted == cmu.readers = Cardinality(Readers)

\* A call that sends holds the lock of the decision, one that waits for it has
\* announced itself, and nobody announces himself while it is held.
Exclusion ==
  /\ \A r \in Resolvers : /\ at[r] = "locking" => dmu.announced = r
                          /\ at[r] = "send" => dmu.writer = r
  /\ dmu.announced = None \/ dmu.writer = None

\* What was sent and what was applied was accepted from a call.
Accepted(c) == \E r \in Resolvers : out[r] = "ok" /\ req[r].pos = c

Delivery ==
  /\ \A r \in Resolvers : out[r] = "ok" => at[r] = "done"
  /\ chan # <<>> => Accepted(chan[1])
  /\ applied # None => Accepted(applied)
  /\ resolved /\ at[Awaiter] = "await" /\ ~panicked => chan # <<>>

DecisionInv == DecisionTypes /\ Counted /\ Exclusion /\ Delivery

\* At most one call is sending its choice (d.Lock in resolveWithPos and
\* resolveWithChoice), also after calls that returned with the lock held.
SendIsExclusive ==
  \A r, s \in Resolvers : at[r] = "send" /\ at[s] = "send" => r = s

-----------------------------------------------------------------------------
(* The number of readers.                                                  *)

\* The sets of calls are finite, and nobody is two actors.
LEMMA ActorFacts ==
  /\ IsFiniteSet(Readers) /\ Cardinality(Readers) \in Nat
  /\ Resolvers \subseteq Actors /\ Listers \subseteq Actors /\ Awaiter \in Actors /\ Writer \in Actors
<1>1. IsFiniteSet(Resolvers \cup Listers)
  BY DecisionAssumption, FS_Union
<1>2. IsFiniteSet(Readers)
  BY <1>1, FS_Subset DEF Readers
<1> QED
  BY <1>2, FS_CardinalityType DEF Actors

\* A call that moves to a place outside or inside the lock.
LEMMA ReadersMove ==
  ASSUME DecisionTypes, Counted, NEW a \in Resolvers \cup Listers, NEW to \in Places,
         at' = [at EXCEPT ![a] = to]
  PROVE  /\ at[a] \notin Inside /\ to \in Inside =>
              Cardinality(Readers') = cmu.readers + 1
         /\ at[a] \in Inside /\ to \notin Inside =>
              Cardinality(Readers') = cmu.readers - 1 /\ cmu.readers > 0
         /\ (at[a] \in Inside <=> to \in Inside) => Cardinality(Readers') = cmu.readers
<1>0. at'[a] = to /\ \A b \in Resolvers \cup Listers : b # a => at'[b] = at[b]
  BY ActorFacts DEF DecisionTypes
<1>1. ASSUME at[a] \notin Inside, to \in Inside
      PROVE  Cardinality(Readers') = cmu.readers + 1
  <2>1. Readers' = Readers \cup {a} /\ a \notin Readers
    BY <1>0, <1>1 DEF Readers
  <2> QED
    BY <2>1, ActorFacts, FS_AddElement DEF Counted
<1>2. ASSUME at[a] \in Inside, to \notin Inside
      PROVE  Cardinality(Readers') = cmu.readers - 1 /\ cmu.readers > 0
  <2>1. Readers' = Readers \ {a} /\ a \in Readers
    BY <1>0, <1>2 DEF Readers
  <2>2. Cardinality(Readers) # 0
    BY <2>1, ActorFacts, FS_EmptySet
  <2> QED
    <3>1. Cardinality(Readers \ {a}) = Cardinality(Readers) - 1
      BY <2>1, ActorFacts, FS_RemoveElement
    <3> QED
      BY <2>1, <2>2, <3>1, ActorFacts DEF Counted
<1>3. ASSUME at[a] \in Inside <=> to \in Inside
      PROVE  Cardinality(Readers') = cmu.readers
  <2>1. Readers' = Readers
    BY <1>0, <1>3 DEF Readers
  <2> QED
    BY <2>1 DEF Counted
<1> QED
  BY <1>1, <1>2, <1>3

\* The other actors are no readers.
LEMMA OthersMove ==
  ASSUME DecisionTypes, Counted, NEW a \in {Awaiter, Writer}, NEW to \in Places,
         at' = [at EXCEPT ![a] = to]
  PROVE  Cardinality(Readers') = cmu.readers
<1>1. \A b \in Resolvers \cup Listers : at'[b] = at[b]
  BY DecisionAssumption, ActorFacts DEF DecisionTypes
<1>2. Readers' = Readers
  BY <1>1 DEF Readers
<1> QED
  BY <1>2 DEF Counted

-----------------------------------------------------------------------------
(* The steps.                                                              *)

\* Every step keeps the types and the count of readers.
LEMMA DecisionTypesStep ==
  ASSUME DecisionTypes, Counted, DecisionNext
  PROVE  DecisionTypes' /\ Counted'
<1> USE ActorFacts, DecisionAssumption
<1>c. cmu.readers \in Nat
  BY DEF Counted
<1>1. ASSUME NEW r \in Resolvers, ResolveStart(r)
      PROVE  DecisionTypes' /\ Counted'
  <2>1. DecisionTypes'
    BY <1>1 DEF DecisionTypes, ResolveStart, RLocked, Go, At, Places
  <2>2. cmu'.readers = cmu.readers + 1
    BY <1>1 DEF DecisionTypes, ResolveStart, RLocked
  <2> QED
    BY <1>1, <2>1, <2>2, ReadersMove DEF ResolveStart, Go, At, Counted, Inside, Places
<1>2. ASSUME NEW r \in Resolvers, NEW result \in {"refused", "notPending", "unmatched", "ok"},
             Return(r, result), at[r] \in {"lookup", "check", "send"},
             req' = req, listed' = listed, applied' = applied, closing' = closing,
             panicked' = panicked, dmu' \in MutexType, resolved' \in BOOLEAN,
             chan' \in Seq(0..NumChoices), Len(chan') <= 1
      PROVE  DecisionTypes' /\ Counted'
  <2>1. DecisionTypes'
    <3>1. cmu' \in [readers : Int, announced : Actors \cup {None}, writer : Actors \cup {None}]
      BY <1>2 DEF DecisionTypes, Return, RUnlocked
    <3>2. at' \in [Actors -> Places]
      BY <1>2 DEF DecisionTypes, Return, Go, Places
    <3>3. out' \in [Resolvers -> {"none", "refused", "notPending", "unmatched", "ok"}]
      BY <1>2 DEF DecisionTypes, Return
    <3> QED
      BY <1>2, <3>1, <3>2, <3>3 DEF DecisionTypes
  <2>2. cmu'.readers = cmu.readers - 1
    BY <1>2 DEF DecisionTypes, Return, RUnlocked
  <2> QED
    BY <1>2, <2>1, <2>2, ReadersMove DEF Return, Go, Counted, Inside, Places
<1>3. ASSUME NEW r \in Resolvers, ResolveRefused(r)
      PROVE  DecisionTypes' /\ Counted'
  BY <1>2, <1>3 DEF ResolveRefused, At, DecisionTypes
<1>4. ASSUME NEW r \in Resolvers, CheckResolved(r)
      PROVE  DecisionTypes' /\ Counted'
  <2>1. dmu' \in MutexType
    BY <1>4 DEF CheckResolved, RLocked, DecisionTypes, MutexType
  <2> QED
    BY <1>2, <1>4, <2>1 DEF CheckResolved, At, DecisionTypes
<1>5. ASSUME NEW r \in Resolvers, ChoiceUnmatched(r)
      PROVE  DecisionTypes' /\ Counted'
  BY <1>2, <1>5 DEF ChoiceUnmatched, At, DecisionTypes
<1>6. ASSUME NEW r \in Resolvers, Send(r)
      PROVE  DecisionTypes' /\ Counted'
  <2>1. dmu' \in MutexType
    BY <1>6 DEF Send, WUnlocked, DecisionTypes, MutexType
  <2>2. req[r].pos \in 0..NumChoices
    BY DEF DecisionTypes, Request
  <2>3. chan' \in Seq(0..NumChoices) /\ Len(chan') <= 1
    BY <1>6, <2>2 DEF Send, DecisionTypes
  <2>4. resolved' \in BOOLEAN
    BY <1>6 DEF Send
  <2> QED
    BY <1>2, <1>6, <2>1, <2>3, <2>4 DEF Send, At, DecisionTypes
<1>7. ASSUME NEW r \in Resolvers, ResolveFound(r) \/ CheckPending(r) \/ LockAnnounce(r) \/ LockAcquire(r)
      PROVE  DecisionTypes' /\ Counted'
  <2>1. dmu' \in MutexType
    <3>1. dmu' \in {dmu, Announced(dmu, r), Locked(dmu, r)}
      BY <1>7 DEF ResolveFound, CheckPending, LockAnnounce, LockAcquire
    <3>2. Announced(dmu, r) \in MutexType
      BY DEF Announced, DecisionTypes, MutexType
    <3>3. Locked(dmu, r) \in MutexType
      BY DEF Locked, DecisionTypes, MutexType
    <3> QED
      BY <3>1, <3>2, <3>3 DEF DecisionTypes
  <2>2. PICK to \in {"check", "lock", "locking", "send"} : at' = [at EXCEPT ![r] = to]
    BY <1>7 DEF ResolveFound, CheckPending, LockAnnounce, LockAcquire, Go
  <2>3. UNCHANGED <<cmu, chan, resolved, listed, req, out, applied, closing, panicked>>
    BY <1>7 DEF ResolveFound, CheckPending, LockAnnounce, LockAcquire
  <2>4. at[r] \in {"lookup", "check", "lock", "locking"}
    BY <1>7 DEF ResolveFound, CheckPending, LockAnnounce, LockAcquire, At
  <2>5. DecisionTypes'
    BY <2>1, <2>2, <2>3 DEF DecisionTypes, Places
  <2> QED
    BY <2>2, <2>3, <2>4, <2>5, ReadersMove DEF Counted, Inside, Places
<1>8. ASSUME NEW l \in Listers, ListStart(l)
      PROVE  DecisionTypes' /\ Counted'
  <2>1. UNCHANGED <<dmu, chan, resolved, listed, req, out, applied, closing, panicked>>
    BY <1>8 DEF ListStart
  <2>2. CASE listed
    <3>1. cmu' = RLocked(cmu) /\ at' = [at EXCEPT ![l] = "convert"] /\ at[l] = "idle"
      BY <1>8, <2>2 DEF ListStart, Go, At
    <3>2. DecisionTypes'
      BY <2>1, <3>1 DEF DecisionTypes, RLocked, Places
    <3>3. cmu'.readers = cmu.readers + 1
      BY <3>1 DEF DecisionTypes, RLocked
    <3> QED
      BY <3>1, <3>2, <3>3, ReadersMove DEF Counted, Inside, Places
  <2>3. CASE ~listed
    <3>1. cmu' = cmu /\ at' = [at EXCEPT ![l] = "done"] /\ at[l] = "idle"
      BY <1>8, <2>3 DEF ListStart, Go, At
    <3>2. DecisionTypes'
      BY <2>1, <3>1 DEF DecisionTypes, Places
    <3> QED
      BY <3>1, <3>2, ReadersMove DEF Counted, Inside, Places
  <2> QED
    BY <2>2, <2>3
<1>9. ASSUME NEW l \in Listers, Convert(l)
      PROVE  DecisionTypes' /\ Counted'
  <2>1. /\ cmu' = RUnlocked(cmu) /\ at' = [at EXCEPT ![l] = "done"] /\ at[l] = "convert"
        /\ UNCHANGED <<dmu, chan, resolved, listed, req, out, applied, closing, panicked>>
    BY <1>9 DEF Convert, Go, At
  <2>2. DecisionTypes'
    BY <2>1 DEF DecisionTypes, RUnlocked, Places
  <2>3. cmu'.readers = cmu.readers - 1
    BY <2>1 DEF DecisionTypes, RUnlocked
  <2> QED
    BY <2>1, <2>2, <2>3, ReadersMove DEF Counted, Inside, Places
<1>10. CASE AwaitReceive
  <2>1. /\ chan' = Tail(chan) /\ chan # <<>> /\ UNCHANGED <<cmu, dmu, resolved, listed, req, out, closing>>
    BY <1>10 DEF AwaitReceive
  <2>2. chan' \in Seq(0..NumChoices) /\ Len(chan') <= 1 /\ Head(chan) \in 0..NumChoices
    BY <2>1 DEF DecisionTypes
  <2>3. CASE Head(chan) < NumChoices
    <3>1. applied' = Head(chan) /\ at' = [at EXCEPT ![Awaiter] = "dequeue"] /\ panicked' = panicked
      BY <1>10, <2>3 DEF AwaitReceive, Go
    <3>2. DecisionTypes'
      BY <2>1, <2>2, <3>1 DEF DecisionTypes, Places
    <3> QED
      BY <2>1, <3>1, <3>2, OthersMove DEF Counted, Places
  <2>4. CASE ~(Head(chan) < NumChoices)
    <3>1. panicked' = TRUE /\ UNCHANGED <<applied, at>>
      BY <1>10, <2>4 DEF AwaitReceive
    <3>2. panicked' \in BOOLEAN
      BY <3>1, Zenon
    <3>3. DecisionTypes'
      BY <2>1, <2>2, <3>1, <3>2 DEF DecisionTypes
    <3> QED
      BY <2>1, <3>1, <3>3 DEF Counted, Readers
  <2> QED
    BY <2>3, <2>4
<1>11. CASE AwaitCancelled
  <2>1. at' = [at EXCEPT ![Awaiter] = "dequeue"] /\ UNCHANGED <<cmu, dmu, chan, resolved, listed, req, out, applied, closing, panicked>>
    BY <1>11 DEF AwaitCancelled, Go
  <2>2. DecisionTypes'
    BY <2>1 DEF DecisionTypes, Places
  <2> QED
    BY <2>1, <2>2, OthersMove DEF Counted, Places
<1>12. ASSUME NEW a \in {Awaiter, Writer}, NEW from, NEW to \in Places, Announce(a, from, to)
       PROVE  DecisionTypes' /\ Counted'
  <2>1. /\ at' = [at EXCEPT ![a] = to] /\ cmu' = Announced(cmu, a)
        /\ UNCHANGED <<dmu, chan, resolved, listed, req, out, applied, closing, panicked>>
    BY <1>12 DEF Announce, Go
  <2>2. DecisionTypes' /\ cmu'.readers = cmu.readers
    BY <2>1 DEF DecisionTypes, Announced
  <2> QED
    BY <2>1, <2>2, OthersMove DEF Counted
<1>13. CASE Dequeue
  <2>1. /\ at' = [at EXCEPT ![Awaiter] = "done"] /\ cmu' = WUnlocked(Locked(cmu, Awaiter))
        /\ UNCHANGED <<dmu, chan, resolved, req, out, applied, closing, panicked>>
    BY <1>13 DEF Dequeue, Go
  <2>2. listed' \in BOOLEAN
    BY <1>13, Zenon DEF Dequeue
  <2>3. DecisionTypes' /\ cmu'.readers = cmu.readers
    BY <2>1, <2>2 DEF DecisionTypes, WUnlocked, Locked, Places
  <2> QED
    BY <2>1, <2>3, OthersMove DEF Counted, Places
<1>14. CASE WriterStep
  <2>1. /\ at' = [at EXCEPT ![Writer] = "idle"] /\ cmu' = WUnlocked(Locked(cmu, Writer))
        /\ UNCHANGED <<dmu, chan, resolved, listed, req, out, applied, closing, panicked>>
    BY <1>14 DEF WriterStep, Go
  <2>2. DecisionTypes' /\ cmu'.readers = cmu.readers
    BY <2>1 DEF DecisionTypes, WUnlocked, Locked, Places
  <2> QED
    BY <2>1, <2>2, OthersMove DEF Counted, Places
<1>15. CASE Cancel
  <2>1. closing' \in BOOLEAN
    BY <1>15, Zenon DEF Cancel
  <2> QED
    BY <1>15, <2>1 DEF Cancel, DecisionTypes, Counted, Readers
<1> QED
  BY <1>1, <1>3, <1>4, <1>5, <1>6, <1>7, <1>8, <1>9, <1>10, <1>11, <1>12, <1>13, <1>14, <1>15
  DEF DecisionNext, ResolveStep, AwaiterStep, Places

\* The lock of the decision excludes.
LEMMA ExclusionStep ==
  ASSUME DecisionTypes, Exclusion, DecisionNext
  PROVE  Exclusion'
<1> USE ActorFacts, DecisionAssumption
<1>m. ASSUME NEW a \in Actors, NEW to, at' = [at EXCEPT ![a] = to],
             a \in Resolvers => to \notin {"locking", "send"}, dmu' = dmu
      PROVE  Exclusion'
  <2>1. \A r \in Resolvers : at'[r] = at[r] \/ at'[r] \notin {"locking", "send"}
    BY <1>m DEF DecisionTypes
  <2> QED
    BY <1>m, <2>1 DEF Exclusion
<1>1. ASSUME NEW r \in Resolvers, ResolveStart(r) \/ ResolveRefused(r) \/ ResolveFound(r)
                                    \/ CheckPending(r) \/ ChoiceUnmatched(r)
      PROVE  Exclusion'
  BY <1>1, <1>m DEF ResolveStart, ResolveRefused, ResolveFound, CheckPending, ChoiceUnmatched, Return, Go
<1>2. ASSUME NEW r \in Resolvers, CheckResolved(r)
      PROVE  Exclusion'
  <2>1. dmu'.announced = dmu.announced /\ dmu'.writer = dmu.writer
    BY <1>2 DEF CheckResolved, RLocked, DecisionTypes, MutexType
  <2>2. \A s \in Resolvers : at'[s] = at[s] \/ at'[s] = "done"
    BY <1>2 DEF CheckResolved, Return, Go, DecisionTypes
  <2> QED
    BY <2>1, <2>2 DEF Exclusion
<1>3. ASSUME NEW r \in Resolvers, LockAnnounce(r)
      PROVE  Exclusion'
  <2>1. /\ dmu.announced = None /\ dmu.writer = None /\ dmu'.announced = r /\ dmu'.writer = None
        /\ at'[r] = "locking" /\ \A s \in Resolvers : s # r => at'[s] = at[s]
    BY <1>3 DEF LockAnnounce, Open, Announced, Go, DecisionTypes, MutexType
  <2> QED
    BY <2>1 DEF Exclusion
<1>4. ASSUME NEW r \in Resolvers, LockAcquire(r)
      PROVE  Exclusion'
  <2>1. /\ dmu.announced = r /\ dmu'.announced = None /\ dmu'.writer = r
        /\ at'[r] = "send" /\ \A s \in Resolvers : s # r => at'[s] = at[s]
    BY <1>4 DEF LockAcquire, CanLock, Locked, Go, DecisionTypes, MutexType
  <2> QED
    BY <2>1 DEF Exclusion
<1>5. ASSUME NEW r \in Resolvers, Send(r)
      PROVE  Exclusion'
  <2>1. /\ dmu'.announced = dmu.announced /\ dmu'.writer = None /\ at[r] = "send"
        /\ at'[r] = "done" /\ \A s \in Resolvers : s # r => at'[s] = at[s]
    BY <1>5 DEF Send, WUnlocked, Return, Go, At, DecisionTypes, MutexType
  <2> QED
    BY <2>1 DEF Exclusion
<1>6. ASSUME NEW l \in Listers, ListStart(l) \/ Convert(l)
      PROVE  Exclusion'
  BY <1>6, <1>m DEF ListStart, Convert, Go
<1>7. CASE AwaiterStep
  <2>1. CASE AwaitReceive
    <3>1. dmu' = dmu /\ \A r \in Resolvers : at'[r] = at[r]
      BY <2>1 DEF AwaitReceive, Go, DecisionTypes
    <3> QED
      BY <3>1 DEF Exclusion
  <2> QED
    BY <1>7, <2>1, <1>m DEF AwaiterStep, AwaitCancelled, Announce, Dequeue, Go
<1>8. CASE Announce(Writer, "idle", "locking") \/ WriterStep
  BY <1>8, <1>m DEF Announce, WriterStep, Go
<1>9. CASE Cancel
  BY <1>9 DEF Cancel, Exclusion
<1> QED
  BY <1>1, <1>2, <1>3, <1>4, <1>5, <1>6, <1>7, <1>8, <1>9 DEF DecisionNext, ResolveStep

\* A channel that is not empty holds one position; receiving it empties it.
LEMMA OnlyElement ==
  ASSUME NEW S, NEW c \in Seq(S), c # <<>>, Len(c) <= 1
  PROVE  Tail(c) = <<>> /\ Len(Tail(c)) = 0 /\ Head(c) = c[1]
<1>1. Len(c) \in Nat /\ Len(c) # 0
  BY EmptySeq
<1>2. \A n \in Nat : n # 0 /\ n <= 1 => n = 1
  OBVIOUS
<1>3. Len(c) = 1
  BY <1>1, <1>2
<1>4. Len(Tail(c)) = 0 /\ Tail(c) \in Seq(S)
  BY <1>3
<1>5. Tail(c) = <<>>
  BY <1>4, EmptySeq
<1> QED
  BY <1>4, <1>5

\* Accepted choices reach the goroutine that waits.
LEMMA DeliveryStep ==
  ASSUME DecisionTypes, Delivery, DecisionNext
  PROVE  Delivery'
<1> USE ActorFacts, DecisionAssumption
<1>m. ASSUME NEW a \in Actors, NEW to, at' = [at EXCEPT ![a] = to], to # "await",
             a \in Resolvers => at[a] # "done",
             UNCHANGED <<chan, resolved, req, out, applied, panicked>>
      PROVE  Delivery'
  <2>1. \A r \in Resolvers : at[r] = "done" => at'[r] = "done"
    BY <1>m DEF DecisionTypes
  <2>2. at'[Awaiter] = "await" => at[Awaiter] = "await"
    BY <1>m DEF DecisionTypes
  <2> QED
    BY <1>m, <2>1, <2>2 DEF Delivery, Accepted
<1>r. ASSUME NEW r \in Resolvers, NEW result, Return(r, result), at[r] # "done", req' = req
      PROVE  /\ at'[r] = "done" /\ out'[r] = result
             /\ \A s \in Resolvers : s # r => out'[s] = out[s] /\ at'[s] = at[s]
             /\ at'[Awaiter] = at[Awaiter]
             /\ \A c : Accepted(c) => Accepted(c)'
  <2>1. /\ at'[r] = "done" /\ out'[r] = result /\ at'[Awaiter] = at[Awaiter]
        /\ \A s \in Resolvers : s # r => out'[s] = out[s] /\ at'[s] = at[s]
    BY <1>r DEF Return, Go, DecisionTypes
  <2>2. out[r] # "ok"
    BY <1>r DEF Delivery
  <2> QED
    BY <1>r, <2>1, <2>2 DEF Accepted
<1>1. ASSUME NEW r \in Resolvers, ResolveRefused(r) \/ CheckResolved(r) \/ ChoiceUnmatched(r)
      PROVE  Delivery'
  <2>1. /\ at[r] # "done" /\ req' = req /\ UNCHANGED <<chan, resolved, applied, panicked>>
        /\ Return(r, "refused") \/ Return(r, "notPending") \/ Return(r, "unmatched")
    BY <1>1 DEF ResolveRefused, CheckResolved, ChoiceUnmatched, At
  <2>2. /\ at'[r] = "done" /\ out'[r] # "ok"
        /\ \A s \in Resolvers : s # r => out'[s] = out[s] /\ at'[s] = at[s]
        /\ at'[Awaiter] = at[Awaiter]
        /\ \A c : Accepted(c) => Accepted(c)'
    BY <2>1, <1>r
  <2> QED
    BY <2>1, <2>2 DEF Delivery
<1>2. ASSUME NEW r \in Resolvers, Send(r)
      PROVE  Delivery'
  <2>1. /\ at[r] # "done" /\ req' = req /\ applied' = applied /\ Return(r, "ok")
        /\ chan = <<>> /\ chan' = <<req[r].pos>>
    <3>1. Len(chan) < 1 /\ chan' = Append(chan, req[r].pos)
      BY <1>2 DEF Send
    <3>2. Len(chan) \in Nat
      BY DEF DecisionTypes
    <3>3. chan = <<>>
      BY <3>1, <3>2 DEF DecisionTypes
    <3> QED
      BY <1>2, <3>1, <3>3 DEF Send, At
  <2>2. /\ at'[r] = "done" /\ out'[r] = "ok"
        /\ \A s \in Resolvers : s # r => out'[s] = out[s] /\ at'[s] = at[s]
        /\ \A c : Accepted(c) => Accepted(c)'
    BY <2>1, <1>r
  <2>3. Accepted(req[r].pos)'
    BY <2>1, <2>2 DEF Accepted
  <2> QED
    BY <2>1, <2>2, <2>3 DEF Delivery
<1>3. ASSUME NEW r \in Resolvers, ResolveStart(r) \/ ResolveFound(r) \/ CheckPending(r)
                                    \/ LockAnnounce(r) \/ LockAcquire(r)
      PROVE  Delivery'
  BY <1>3, <1>m DEF ResolveStart, ResolveFound, CheckPending, LockAnnounce, LockAcquire, Go, At
<1>4. ASSUME NEW l \in Listers, ListStart(l) \/ Convert(l)
      PROVE  Delivery'
  BY <1>4, <1>m DEF ListStart, Convert, Go
<1>5. CASE AwaitReceive
  <2>1. /\ chan # <<>> /\ chan' = Tail(chan) /\ Len(chan') = 0 /\ Head(chan) = chan[1]
        /\ UNCHANGED <<req, out>>
    <3>1. chan # <<>> /\ chan' = Tail(chan) /\ UNCHANGED <<req, out>>
      BY <1>5 DEF AwaitReceive
    <3>2. chan \in Seq(0..NumChoices) /\ Len(chan) <= 1
      BY DEF DecisionTypes
    <3> QED
      BY <3>1, <3>2, OnlyElement
  <2>2. chan' = <<>>
    BY <2>1 DEF DecisionTypes
  <2>3. CASE Head(chan) < NumChoices
    <3>1. /\ applied' = chan[1] /\ at'[Awaiter] = "dequeue"
          /\ \A r \in Resolvers : at'[r] = at[r]
      BY <1>5, <2>1, <2>3 DEF AwaitReceive, Go, DecisionTypes
    <3> QED
      BY <2>1, <2>2, <3>1 DEF Delivery, Accepted
  <2>4. CASE ~(Head(chan) < NumChoices)
    BY <1>5, <2>1, <2>2, <2>4 DEF AwaitReceive, Delivery, Accepted
  <2> QED
    BY <2>3, <2>4
<1>6. CASE \/ AwaitCancelled \/ Announce(Awaiter, "dequeue", "locking") \/ Dequeue
           \/ Announce(Writer, "idle", "locking") \/ WriterStep
  BY <1>6, <1>m DEF AwaitCancelled, Announce, Dequeue, WriterStep, Go
<1>7. CASE Cancel
  BY <1>7 DEF Cancel, Delivery, Accepted
<1> QED
  BY <1>1, <1>2, <1>3, <1>4, <1>5, <1>6, <1>7 DEF DecisionNext, ResolveStep, AwaiterStep

\* Nothing is held and nothing was sent when the decision is created.
LEMMA DecisionInitially == DecisionInit => DecisionInv
<1> SUFFICES ASSUME DecisionInit PROVE DecisionInv
  OBVIOUS
<1> USE ActorFacts, DecisionAssumption
<1>1. DecisionTypes
  <2>1. cmu \in [readers : Int, announced : Actors \cup {None}, writer : Actors \cup {None}]
        /\ dmu \in MutexType
    BY DEF DecisionInit, Unlocked, MutexType
  <2>2. resolved \in BOOLEAN /\ listed \in BOOLEAN /\ closing \in BOOLEAN /\ panicked \in BOOLEAN
    BY Zenon DEF DecisionInit
  <2>3. chan \in Seq(0..NumChoices) /\ Len(chan) <= 1
    BY DEF DecisionInit
  <2>4. at \in [Actors -> Places]
    BY DEF DecisionInit, Places
  <2> QED
    BY <2>1, <2>2, <2>3, <2>4 DEF DecisionInit, DecisionTypes
<1>2. Readers = {}
  BY DEF DecisionInit, Readers, Inside
<1>3. Counted
  BY <1>2, FS_EmptySet DEF DecisionInit, Unlocked, Counted
<1>4. Exclusion /\ Delivery
  BY DEF DecisionInit, Unlocked, Exclusion, Delivery
<1> QED
  BY <1>1, <1>3, <1>4 DEF DecisionInv

\* The inductive invariant of the decision and its locks.
LEMMA DecisionAlways == DecisionSpec => []DecisionInv
<1>1. DecisionInv /\ [DecisionNext]_decisionVars => DecisionInv'
  <2>1. CASE UNCHANGED decisionVars
    BY <2>1 DEF decisionVars, DecisionInv, DecisionTypes, Counted, Readers, Exclusion, Delivery, Accepted
  <2> QED
    BY <2>1, DecisionTypesStep, ExclusionStep, DeliveryStep DEF DecisionInv
<1> QED
  BY DecisionInitially, <1>1, PTL DEF DecisionSpec

\* The variables have their types: the channel never holds more than one
\* position, and neither mutex is unlocked more often than it was locked.
THEOREM DecisionTypeCorrect == DecisionSpec => []DecisionTypeOK
<1>1. DecisionInv => DecisionTypeOK
  <2> SUFFICES ASSUME DecisionInv PROVE DecisionTypeOK
    OBVIOUS
  <2>1. cmu \in MutexType
    BY ActorFacts DEF DecisionInv, DecisionTypes, Counted, MutexType
  <2> QED
    BY <2>1 DEF DecisionInv, DecisionTypes, DecisionTypeOK, Places
<1> QED
  BY DecisionAlways, <1>1, PTL

\* No accepted choice is lost while the goroutine can act upon it, and it only
\* acts upon a choice that a call was told had been accepted (resolveWithPos,
\* resolveWithChoice, decision.await), for any number of concurrent calls.
THEOREM AcceptedReaches == DecisionSpec => []AcceptedReachesAwaiter
<1>1. DecisionInv => AcceptedReachesAwaiter
  BY DEF DecisionInv, Delivery, Accepted, AcceptedReachesAwaiter
<1> QED
  BY DecisionAlways, <1>1, PTL

\* The lock of the decision serialises the calls that send.
THEOREM SendExclusive == DecisionSpec => []SendIsExclusive
<1>1. DecisionInv => SendIsExclusive
  BY DEF DecisionInv, Exclusion, SendIsExclusive
<1> QED
  BY DecisionAlways, <1>1, PTL
=============================================================================
