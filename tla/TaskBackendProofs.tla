------------------------- MODULE TaskBackendProofs -------------------------
(***************************************************************************)
(* Proofs about TaskBackend, for any number of files, any batch size and   *)
(* any exit codes.                                                         *)
(*                                                                         *)
(* The inductive invariant has two parts.  Shape: the batches sent are     *)
(* consecutive intervals of the tasks, and the current batch is what       *)
(* follows.  Answers: what is known of each batch, in the job server, in   *)
(* its channel, in the Tasks table and in b.results, agrees.               *)
(***************************************************************************)
EXTENDS TaskBackend, FiniteSetTheorems, SequenceTheorems, TLAPS

\* The last task of batch b; 0 before the first batch.
End(b) == IF b = 0 THEN 0 ELSE sent[b][Len(sent[b])]

\* The batches sent so far are intervals of the tasks that follow each other.
SentShape ==
  /\ sent \in Seq(Seq(Tasks))
  /\ \A b \in 1..Len(sent) :
       /\ Len(sent[b]) \in 1..BatchSize
       /\ \A j \in 1..Len(sent[b]) : sent[b][j] = End(b - 1) + j
       /\ b <= End(b)
  /\ \A b, c \in 0..Len(sent) : b < c => End(b) < End(c)

\* The current batch is what was submitted after them.
BatchShape ==
  /\ submitted \in 0..NumTasks
  /\ batch \in Seq(Tasks)
  /\ End(Len(sent)) <= submitted
  /\ pc # "failed" => /\ Len(batch) = submitted - End(Len(sent))
                      /\ \A j \in 1..Len(batch) : batch[j] = End(Len(sent)) + j
  /\ pc = "submit" => Len(batch) < BatchSize
  /\ pc \in {"wait", "record", "done"} => batch = <<>> /\ submitted = NumTasks

Shape == SentShape /\ BatchShape

\* What the channel of batch b holds: nothing, an error, or the exit codes of
\* its tasks, which are then those of the Tasks table.
UpdateOf(b) ==
  \/ done[b] \in {Nothing, [type |-> "garbled"], [type |-> "fail"]}
  \/ \E codes \in [In(b) -> ExitCodes] :
       done[b] = Answer(codes) /\ \A t \in In(b) : row[t] = codes[t]

\* A batch is with the workers until its channel is filled, and its goroutine
\* leaves without an update only when the context is done.
Answers ==
  /\ listener \in [Batches -> {"none", "listen", "gone"}]
  /\ gearman \subseteq Batches
  /\ done = [b \in Batches |-> done[b]]
  /\ \A b \in 1..Len(sent) :
       /\ listener[b] # "none"
       /\ b \in gearman <=> done[b] = Nothing
       /\ listener[b] = "gone" /\ ~cancelled => done[b] # Nothing
       /\ UpdateOf(b)
  /\ \A b \in Batches : b > Len(sent) =>
       listener[b] = "none" /\ b \notin gearman /\ done[b] = Nothing
  /\ pc \in {"record", "done"} => \A b \in 1..Len(sent) : listener[b] = "gone"
  /\ pc = "done" => gearman = {}

\* What the job and the Tasks table say of the tasks.
Merged ==
  /\ results \in [Tasks -> ExitCodes \cup {NoCode}]
  /\ row \in [Tasks -> ExitCodes \cup {1, NoCode, NoRow}]
  /\ \A t \in Tasks : t > End(Len(sent)) => results[t] = NoCode
  /\ ResultsMatchRows

\* The gauge counts at least the goroutines that listen.
Listening == {b \in Batches : listener[b] = "listen"}
Gauges ==
  /\ pendingGauge \in Int
  /\ activeGauge \in Nat /\ Cardinality(Listening) <= activeGauge

Control ==
  /\ pc \in {"submit", "wait", "record", "done", "failed"}
  /\ cancelled \in BOOLEAN

-----------------------------------------------------------------------------
(* Natural numbers.                                                        *)

\* A nonempty set of natural numbers has a least element.
LEMMA LeastNat ==
  ASSUME NEW T, T \subseteq Nat, T # {}
  PROVE  \E m \in T : \A k \in T : m <= k
<1>1. IsWellFoundedOn(OpToRel(<, Nat), Nat)
  BY NatLessThanWellFounded
<1>2. \E x \in T : \A y \in T : ~(<<y, x>> \in OpToRel(<, Nat))
  BY <1>1, WFMin
<1>3. ASSUME NEW x \in Nat, NEW y \in Nat, y < x PROVE <<y, x>> \in OpToRel(<, Nat)
  BY <1>3 DEF OpToRel
<1>4. PICK x \in T : \A y \in T : ~(<<y, x>> \in OpToRel(<, Nat))
  BY <1>2
<1>5. ASSUME NEW k \in T PROVE x <= k
  <2>1. x \in Nat /\ k \in Nat
    OBVIOUS
  <2>2. ~(k < x)
    BY <2>1, <1>3, <1>4
  <2> QED
    BY <2>1, <2>2
<1> QED
  BY <1>5

\* A finite nonempty set of natural numbers has a largest element.
LEMMA FiniteMax ==
  ASSUME NEW S, IsFiniteSet(S), S # {}, S \subseteq Nat
  PROVE  Max(S) \in S /\ \A y \in S : Max(S) >= y
<1>1. PICK f : f \in Bijection(1..Cardinality(S), S) /\ Cardinality(S) \in Nat
  BY FS_CardinalityType DEF ExistsBijection
<1> DEFINE c == Cardinality(S)
           Bad == {m \in Nat : m <= c /\ m > 0 /\ \A k \in 1..m : \E j \in 1..m : f[j] > f[k]}
<1>2. Bad = {}
  <2> SUFFICES ASSUME Bad # {} PROVE FALSE
    OBVIOUS
  <2>1. PICK m \in Bad : \A k \in Bad : m <= k
    BY LeastNat
  <2>2. m \in Nat /\ m > 0 /\ m <= c /\ \A k \in 1..m : f[k] \in Nat
    <3>1. f \in [1..c -> S]
      BY <1>1 DEF Bijection, Injection
    <3>2. m \in Nat /\ m > 0 /\ m <= c
      BY <2>1
    <3>3. c \in Nat
      BY <1>1
    <3> HIDE DEF c, Bad
    <3>4. \A k \in 1..m : k \in 1..c
      BY <3>2, <3>3
    <3> QED
      BY <3>1, <3>2, <3>4
  <2>3. CASE m = 1
    BY <2>1, <2>2, <2>3
  <2>4. CASE m # 1
    <3>1. m - 1 \in Nat /\ m - 1 <= c /\ m - 1 > 0 /\ m - 1 \notin Bad /\ m \in Nat
      <4>1. m - 1 \in Nat /\ m - 1 <= c /\ m - 1 > 0
        BY <1>1, <2>2, <2>4
      <4>2. m - 1 \notin Bad
        BY <2>1, <2>2, <4>1
      <4> QED
        BY <2>2, <4>1, <4>2
    <3>2. PICK k \in 1..(m - 1) : \A j \in 1..(m - 1) : ~(f[j] > f[k])
      BY <3>1
    <3>3. CASE f[m] > f[k]
      <4>1. PICK j \in 1..m : f[j] > f[m]
        BY <2>1, <3>1
      <4>2. j \in 1..(m - 1)
        BY <4>1, <2>2, <3>1
      <4> QED
        BY <4>1, <4>2, <3>2, <3>3, <2>2, <3>1
    <3>4. CASE ~(f[m] > f[k])
      <4>1. PICK j \in 1..m : f[j] > f[k]
        BY <2>1, <3>1
      <4> QED
        BY <4>1, <3>2, <3>4, <3>1
    <3> QED
      BY <3>3, <3>4
  <2> QED
    BY <2>3, <2>4
<1>3. c \in Nat /\ c > 0
  BY <1>1, FS_EmptySet
<1>4. PICK k \in 1..c : \A j \in 1..c : ~(f[j] > f[k])
  BY <1>2, <1>3
<1>5. f[k] \in S /\ \A y \in S : f[k] >= y
  <2>1. f \in [1..c -> S] /\ \A y \in S : \E j \in 1..c : f[j] = y
    BY <1>1 DEF Bijection, Injection, Surjection
  <2>2. \A j \in 1..c : f[j] \in S
    BY <2>1
  <2>3. ASSUME NEW y \in S PROVE f[k] >= y
    <3>1. PICK j \in 1..c : f[j] = y
      BY <2>1
    <3>2. f[k] \in Nat /\ y \in Nat /\ ~(y > f[k])
      BY <1>4, <2>2, <3>1
    <3> QED
      BY <3>2
  <2> QED
    BY <2>2, <2>3
<1> QED
  BY <1>5 DEF Max

-----------------------------------------------------------------------------
(* Arithmetic of batches.                                                  *)

\* len(b.batch) % batchSize == 0 means that the batch is full.
LEMMA ModFacts ==
  ASSUME NEW n \in Nat, n > 0, n <= BatchSize
  PROVE  n % BatchSize = 0 <=> n = BatchSize
<1> USE TaskBackendAssumption
<1>1. n < BatchSize => n % BatchSize = n
  OBVIOUS
<1>2. BatchSize % BatchSize = 0
  OBVIOUS
<1> QED
  BY <1>1, <1>2

\* The last tasks of the batches are tasks, and each batch is an interval.
LEMMA SentFacts ==
  ASSUME SentShape
  PROVE  /\ Len(sent) \in Nat
         /\ \A b \in 0..Len(sent) : End(b) \in 0..NumTasks
         /\ \A b \in 1..Len(sent) :
              /\ sent[b] \in Seq(Tasks) /\ Len(sent[b]) \in Nat
              /\ End(b) = End(b - 1) + Len(sent[b])
              /\ In(b) = (End(b - 1) + 1)..End(b)
         /\ Len(sent) <= NumTasks
<1> USE TaskBackendAssumption DEF SentShape
<1>0. Len(sent) \in Nat
  OBVIOUS
<1>1. ASSUME NEW b \in 1..Len(sent)
      PROVE  /\ sent[b] \in Seq(Tasks) /\ Len(sent[b]) \in 1..BatchSize /\ Len(sent[b]) \in Nat
             /\ End(b) \in 1..NumTasks
  <2>1. sent[b] \in Seq(Tasks) /\ Len(sent[b]) \in 1..BatchSize
    OBVIOUS
  <2>2. sent[b][Len(sent[b])] \in Tasks
    BY <2>1
  <2> QED
    BY <2>1, <2>2 DEF End, Tasks
<1>2. ASSUME NEW b \in 0..Len(sent) PROVE End(b) \in 0..NumTasks
  <2>1. CASE b = 0
    BY <2>1 DEF End
  <2>2. CASE b # 0
    BY <1>1, <2>2
  <2> QED
    BY <2>1, <2>2
<1>3. ASSUME NEW b \in 1..Len(sent)
      PROVE  End(b) = End(b - 1) + Len(sent[b]) /\ In(b) = (End(b - 1) + 1)..End(b)
  <2>1. End(b) = End(b - 1) + Len(sent[b])
    BY <1>1, SMTT(60) DEF End
  <2>2. In(b) = {sent[b][j] : j \in 1..Len(sent[b])}
    BY <1>1 DEF In, ToSet
  <2>3. End(b - 1) \in Int /\ Len(sent[b]) \in Nat
    BY <1>0, <1>1, <1>2
  <2>4. ASSUME NEW t \in (End(b - 1) + 1)..End(b) PROVE \E j \in 1..Len(sent[b]) : sent[b][j] = t
    <3>1. t - End(b - 1) \in 1..Len(sent[b])
      BY <2>1, <2>3
    <3>2. sent[b][t - End(b - 1)] = End(b - 1) + (t - End(b - 1))
      BY <3>1
    <3>3. End(b - 1) + (t - End(b - 1)) = t
      BY <2>3
    <3> QED
      BY <3>1, <3>2, <3>3
  <2>5. \A j \in 1..Len(sent[b]) : sent[b][j] \in (End(b - 1) + 1)..End(b)
    BY <2>1, <2>3, SMTT(60)
  <2> QED
    BY <2>1, <2>2, <2>4, <2>5
<1>4. Len(sent) <= NumTasks
  <2>1. CASE Len(sent) = 0
    BY <2>1
  <2>2. CASE Len(sent) # 0
    <3>1. Len(sent) \in 1..Len(sent)
      BY <1>0, <2>2
    <3>2. Len(sent) <= End(Len(sent)) /\ End(Len(sent)) \in 1..NumTasks
      BY <1>1, <3>1
    <3> QED
      BY <1>0, <3>2
  <2> QED
    BY <2>1, <2>2
<1> QED
  BY <1>0, <1>1, <1>2, <1>3, <1>4

\* A task is in one batch.
LEMMA Disjoint ==
  ASSUME SentShape, NEW b \in 1..Len(sent), NEW c \in 1..Len(sent), NEW t \in In(b), t \in In(c)
  PROVE  b = c
<1>1. ASSUME NEW d \in 1..Len(sent), NEW e \in 1..Len(sent), d < e, t \in In(d), t \in In(e)
      PROVE  FALSE
  <2>1. Len(sent) \in Nat /\ d \in 0..Len(sent) /\ e - 1 \in 0..Len(sent)
    BY SentFacts
  <2>2. End(d) \in Int /\ End(e - 1) \in Int /\ End(d - 1) \in Int /\ End(e) \in Int
    BY <2>1, SentFacts
  <2>3. End(d) <= End(e - 1)
    <3>1. CASE d = e - 1
      BY <2>2, <3>1
    <3>2. CASE d # e - 1
      <4>1. d < e - 1
        BY <1>1, <2>1, <3>2
      <4>2. End(d) < End(e - 1)
        BY <4>1, <2>1 DEF SentShape
      <4> QED
        BY <4>2, <2>2
    <3> QED
      BY <3>1, <3>2
  <2>4. t \in (End(d - 1) + 1)..End(d) /\ t \in (End(e - 1) + 1)..End(e)
    BY <1>1, SentFacts
  <2> QED
    BY <2>2, <2>3, <2>4
<1> QED
  BY <1>1

\* Every task up to the last one sent is in a batch.
LEMMA Covered ==
  ASSUME SentShape, NEW t \in Tasks, t <= End(Len(sent))
  PROVE  \E b \in 1..Len(sent) : t \in In(b)
<1> USE TaskBackendAssumption
<1> DEFINE Reach == {b \in 0..Len(sent) : t <= End(b)}
<1>0. Len(sent) \in Nat /\ Len(sent) \in 0..Len(sent)
  BY SentFacts
<1>1. Reach # {} /\ Reach \subseteq Nat
  BY <1>0
<1>2. PICK b \in Reach : \A c \in Reach : b <= c
  BY <1>1, LeastNat
<1>3. t \in Int /\ t >= 1
  BY DEF Tasks
<1>4. b # 0
  BY <1>2, <1>3 DEF End
<1>5. b \in 1..Len(sent) /\ b - 1 \in 0..Len(sent) /\ b \in 0..Len(sent) /\ t <= End(b)
  BY <1>0, <1>2, <1>4
<1>6. ~(t <= End(b - 1))
  BY <1>2, <1>5
<1>7. End(b) \in Int /\ End(b - 1) \in Int /\ In(b) = (End(b - 1) + 1)..End(b)
  BY <1>5, SentFacts
<1>8. t \in In(b)
  BY <1>3, <1>5, <1>6, <1>7
<1> QED
  BY <1>5, <1>8

-----------------------------------------------------------------------------
(* Shape is inductive.                                                     *)

\* sendBatch sends the whole current batch and leaves an empty one.
LEMMA Sending ==
  ASSUME NEW tasks \in Seq(Tasks), Len(tasks) \in 1..BatchSize, SendBatch(tasks)
  PROVE  /\ batch' = <<>>
         /\ sent' = Append(sent, tasks)
         /\ row' = [t \in Tasks |-> IF t \in ToSet(tasks) THEN NoCode ELSE row[t]]
<1> DEFINE ln == Len(tasks)
<1>1. ln \in Nat /\ Cut(ln) = ln
  BY TaskBackendAssumption DEF Cut
<1>2. ln - Cut(ln) = 0 /\ ln - Cut(ln) + 1 = 1
  BY <1>1
<1>3. SubSeq(tasks, 1, 0) = <<>>
  OBVIOUS
<1>4. SubSeq(tasks, 1, ln) = tasks
  OBVIOUS
<1>5. \A t : Contains(tasks, t) <=> t \in ToSet(tasks)
  BY DEF Contains, ToSet
<1> QED
  BY <1>2, <1>3, <1>4, <1>5 DEF SendBatch

\* A batch that follows the last one keeps the batches consecutive.
LEMMA SentStep ==
  ASSUME SentShape, NEW tasks \in Seq(Tasks), Len(tasks) \in 1..BatchSize,
         NEW n \in Nat, n = Len(sent),
         \A j \in 1..Len(tasks) : tasks[j] = End(n) + j,
         sent' = Append(sent, tasks)
  PROVE  /\ SentShape'
         /\ Len(sent') = n + 1 /\ sent'[n + 1] = tasks
         /\ End(n + 1)' = End(n) + Len(tasks)
         /\ \A b \in 0..n : End(b)' = End(b)
         /\ \A b \in 1..n : sent'[b] = sent[b]
<1> USE TaskBackendAssumption
<1>0. sent \in Seq(Seq(Tasks))
  BY DEF SentShape
<1>1. /\ sent' \in Seq(Seq(Tasks)) /\ Len(sent') = n + 1 /\ sent'[n + 1] = tasks
      /\ \A b \in 1..n : sent'[b] = sent[b]
  BY <1>0
<1>2. \A b \in 0..n : End(b)' = End(b)
  BY <1>1 DEF End
<1>3. \A b \in 0..n : End(b) \in 0..NumTasks
  BY SentFacts
<1>4. Len(tasks) \in Nat /\ Len(tasks) >= 1 /\ End(n) \in Nat
  BY <1>3
<1>5. End(n + 1)' = End(n) + Len(tasks)
  <2>1. n + 1 # 0
    OBVIOUS
  <2>2. End(n + 1)' = tasks[Len(tasks)]
    BY <1>1, <2>1 DEF End
  <2> QED
    BY <2>2, <1>4
<1>6. ASSUME NEW b \in 1..(n + 1)
      PROVE  /\ Len(sent'[b]) \in 1..BatchSize
             /\ \A j \in 1..Len(sent'[b]) : sent'[b][j] = End(b - 1)' + j
             /\ b <= End(b)'
  <2>1. CASE b \in 1..n
    <3>1. b - 1 \in 0..n /\ b \in 0..n
      BY <2>1
    <3>2. End(b - 1)' = End(b - 1) /\ End(b)' = End(b) /\ sent'[b] = sent[b]
      BY <1>1, <1>2, <2>1, <3>1
    <3> QED
      BY <2>1, <3>2 DEF SentShape
  <2>2. CASE b = n + 1
    <3>1. b - 1 = n /\ n \in 0..n
      BY <2>2
    <3>2. sent'[b] = tasks /\ End(b - 1)' = End(n) /\ End(b)' = End(n) + Len(tasks)
      BY <1>1, <1>2, <1>5, <2>2, <3>1
    <3>3. n <= End(n)
      <4>1. CASE n = 0
        BY <4>1, <1>4
      <4>2. CASE n # 0
        BY <4>2 DEF SentShape
      <4> QED
        BY <4>1, <4>2
    <3>4. b <= End(b)'
      BY <3>2, <3>3, <1>4, <2>2
    <3> QED
      BY <3>2, <3>4
  <2> QED
    BY <2>1, <2>2
<1>7. ASSUME NEW b \in 0..(n + 1), NEW c \in 0..(n + 1), b < c PROVE End(b)' < End(c)'
  <2>1. b \in 0..n
    BY <1>7
  <2>2. CASE c \in 0..n
    <3>1. End(b) < End(c)
      BY <1>7, <2>1, <2>2 DEF SentShape
    <3> QED
      BY <1>2, <2>1, <2>2, <3>1
  <2>3. CASE c = n + 1
    <3>1. End(b) <= End(n)
      <4>1. CASE b = n
        BY <4>1, <1>4
      <4>2. CASE b # n
        <5>1. b < n /\ n \in 0..n
          BY <2>1, <4>2
        <5>2. End(b) < End(n)
          BY <2>1, <5>1 DEF SentShape
        <5> QED
          BY <5>2, <2>1, <1>3, <1>4
      <4> QED
        BY <4>1, <4>2
    <3>2. End(b)' = End(b) /\ End(b) \in Nat
      BY <1>2, <1>3, <2>1
    <3> QED
      BY <3>1, <3>2, <1>4, <1>5, <2>3
  <2> QED
    BY <2>2, <2>3
<1> QED
  BY <1>1, <1>2, <1>5, <1>6, <1>7 DEF SentShape

\* Sending the tasks that follow the last batch, up to the last one submitted.
LEMMA SendStep ==
  ASSUME SentShape, NEW tasks \in Seq(Tasks), Len(tasks) \in 1..BatchSize,
         SendBatch(tasks), NEW n \in Nat, n = Len(sent),
         \A j \in 1..Len(tasks) : tasks[j] = End(n) + j,
         submitted' \in 0..NumTasks, submitted' = End(n) + Len(tasks),
         pc' \in {"submit", "wait", "record", "done", "failed"},
         pc' # "submit" => submitted' = NumTasks
  PROVE  Shape'
<1>1. batch' = <<>> /\ sent' = Append(sent, tasks)
  BY Sending
<1>2. SentShape' /\ Len(sent') = n + 1 /\ End(n + 1)' = End(n) + Len(tasks)
  BY <1>1, SentStep
<1>3. End(Len(sent))' = submitted'
  BY <1>2 DEF End
<1>4. batch' \in Seq(Tasks) /\ Len(batch') = 0
  BY <1>1
<1>5. submitted' \in Nat
  OBVIOUS
<1>6. BatchShape'
  BY <1>1, <1>3, <1>4, <1>5, TaskBackendAssumption DEF BatchShape
<1> QED
  BY <1>2, <1>6 DEF Shape

\* The next task follows the current batch.
LEMMA AppendTask ==
  ASSUME Shape, pc = "submit", submitted < NumTasks, NEW n \in Nat, n = Len(sent),
         NEW tasks, tasks = Append(batch, submitted + 1)
  PROVE  /\ tasks \in Seq(Tasks) /\ Len(tasks) \in 1..BatchSize
         /\ Len(tasks) = Len(batch) + 1
         /\ \A j \in 1..Len(tasks) : tasks[j] = End(n) + j
         /\ submitted + 1 \in 0..NumTasks /\ submitted + 1 = End(n) + Len(tasks)
<1> USE TaskBackendAssumption
<1>1. /\ batch \in Seq(Tasks) /\ Len(batch) < BatchSize /\ submitted \in Nat
      /\ Len(batch) = submitted - End(n) /\ \A j \in 1..Len(batch) : batch[j] = End(n) + j
  BY DEF Shape, BatchShape
<1>2. submitted + 1 \in Tasks
  BY <1>1 DEF Tasks
<1>3. /\ tasks \in Seq(Tasks) /\ Len(tasks) = Len(batch) + 1
      /\ tasks[Len(batch) + 1] = submitted + 1
      /\ \A j \in 1..Len(batch) : tasks[j] = batch[j]
  BY <1>1, <1>2
<1>4. Len(batch) \in Nat /\ End(n) \in Int
  <2>1. End(n) \in 0..NumTasks
    BY SentFacts DEF Shape
  <2> QED
    BY <1>1, <2>1
<1>5. submitted + 1 = End(n) + (Len(batch) + 1)
  BY <1>1, <1>4
<1>6. ASSUME NEW j \in 1..Len(tasks) PROVE tasks[j] = End(n) + j
  <2>1. CASE j \in 1..Len(batch)
    BY <1>1, <1>3, <2>1
  <2>2. CASE j = Len(batch) + 1
    BY <1>3, <1>5, <2>2
  <2> QED
    BY <1>3, <1>4, <2>1, <2>2
<1>7. Len(tasks) \in 1..BatchSize
  BY <1>1, <1>3, <1>4
<1> QED
  BY <1>1, <1>3, <1>5, <1>6, <1>7

\* Steps that leave the batches alone.
LEMMA ShapeKept ==
  ASSUME Shape, UNCHANGED backend,
         \/ pc' = pc
         \/ pc' = "failed"
         \/ pc \in {"wait", "record"} /\ pc' \in {"record", "done"}
  PROVE  Shape'
<1>1. SentShape'
  BY DEF Shape, SentShape, backend, End
<1>2. BatchShape'
  BY DEF Shape, BatchShape, backend, End
<1> QED
  BY <1>1, <1>2 DEF Shape

\* No step leaves a task out, sends one twice or sends an empty batch.
LEMMA ShapeStep ==
  ASSUME Shape, Control, [Next]_vars
  PROVE  Shape'
<1> USE TaskBackendAssumption
<1> DEFINE n == Len(sent)
<1>0. n \in Nat /\ End(n) \in 0..NumTasks
  BY SentFacts DEF Shape
<1>1. CASE SubmitTask
  <2> DEFINE tasks == Append(batch, submitted + 1)
  <2>1. /\ tasks \in Seq(Tasks) /\ Len(tasks) \in 1..BatchSize
        /\ \A j \in 1..Len(tasks) : tasks[j] = End(n) + j
        /\ submitted + 1 \in 0..NumTasks /\ submitted + 1 = End(n) + Len(tasks)
    BY <1>0, <1>1, AppendTask DEF SubmitTask
  <2>2. Len(tasks) < BatchSize
    <3>1. Len(tasks) \in Nat /\ Len(tasks) > 0 /\ Len(tasks) <= BatchSize
      BY <2>1
    <3>2. Len(tasks) % BatchSize # 0
      BY <1>1 DEF SubmitTask
    <3> HIDE DEF tasks
    <3> QED
      BY <3>1, <3>2, ModFacts
  <2>3. sent' = sent /\ batch' = tasks /\ submitted' = submitted + 1 /\ pc' = pc /\ pc = "submit"
    BY <1>1 DEF SubmitTask
  <2> HIDE DEF tasks
  <2>4. SentShape'
    BY <2>3 DEF Shape, SentShape, End
  <2>5. Len(sent)' = n /\ End(Len(sent))' = End(n)
    BY <2>3 DEF End
  <2>6. Len(tasks) = submitted + 1 - End(n) /\ End(n) <= submitted + 1
    <3>1. Len(tasks) \in Nat /\ submitted \in Nat /\ End(n) \in Nat
      BY <1>0, <2>1 DEF Shape, BatchShape
    <3> QED
      BY <2>1, <3>1
  <2>7. BatchShape'
    <3>1. submitted' \in 0..NumTasks /\ batch' \in Seq(Tasks) /\ End(Len(sent))' <= submitted'
      BY <2>1, <2>3, <2>5, <2>6
    <3>2. Len(batch') = submitted' - End(Len(sent))'
      BY <1>0, <2>1, <2>3, <2>5, <2>6 DEF Shape, BatchShape
    <3>3. \A j \in 1..Len(batch') : batch'[j] = End(Len(sent))' + j
      BY <2>1, <2>3, <2>5
    <3> QED
      BY <2>2, <2>3, <3>1, <3>2, <3>3 DEF BatchShape
  <2> QED
    BY <2>4, <2>7 DEF Shape
<1>2. CASE SubmitFull
  <2> DEFINE tasks == Append(batch, submitted + 1)
  <2>1. /\ tasks \in Seq(Tasks) /\ Len(tasks) \in 1..BatchSize
        /\ \A j \in 1..Len(tasks) : tasks[j] = End(n) + j
        /\ submitted + 1 \in 0..NumTasks /\ submitted + 1 = End(n) + Len(tasks)
    BY <1>0, <1>2, AppendTask DEF SubmitFull
  <2>2. SendBatch(tasks) /\ submitted' = submitted + 1 /\ pc' = "submit" /\ SentShape
    BY <1>2 DEF SubmitFull, Shape
  <2> HIDE DEF tasks
  <2> QED
    BY <1>0, <2>1, <2>2, SendStep
<1>3. CASE Wait
  <2>1. pc = "submit" /\ pc' = "wait" /\ submitted' = submitted /\ submitted = NumTasks /\ SentShape
    BY <1>3 DEF Wait, Shape
  <2>2. /\ batch \in Seq(Tasks) /\ Len(batch) < BatchSize
        /\ Len(batch) = submitted - End(n) /\ \A j \in 1..Len(batch) : batch[j] = End(n) + j
    BY <2>1 DEF Shape, BatchShape
  <2>3. CASE Len(batch) > 0
    <3>1. SendBatch(batch)
      BY <1>3, <2>3 DEF Wait
    <3>2. Len(batch) \in 1..BatchSize /\ submitted' = End(n) + Len(batch) /\ submitted' \in 0..NumTasks
      BY <1>0, <2>1, <2>2, <2>3
    <3> QED
      BY <1>0, <2>1, <2>2, <3>1, <3>2, SendStep
  <2>4. CASE ~(Len(batch) > 0)
    <3>1. batch' = batch /\ sent' = sent
      BY <1>3, <2>4 DEF Wait
    <3>2. Len(batch) = 0
      BY <2>2, <2>4
    <3>3. batch = <<>>
      BY <2>2, <3>2
    <3>4. SentShape'
      BY <3>1, <2>1 DEF SentShape, End
    <3>5. BatchShape'
      BY <3>1, <3>3, <2>1 DEF Shape, BatchShape, End
    <3> QED
      BY <3>4, <3>5 DEF Shape
  <2> QED
    BY <2>3, <2>4
<1>4. CASE SaveFails
  <2>1. pc' = "failed" /\ batch' = <<>> /\ sent' = sent
    BY <1>4 DEF SaveFails
  <2>2. submitted \in 0..NumTasks /\ End(n) <= submitted
    BY DEF Shape, BatchShape
  <2>3. submitted' \in 0..NumTasks /\ End(n) <= submitted'
    BY <1>0, <1>4, <2>2 DEF SaveFails
  <2>4. SentShape'
    BY <2>1 DEF Shape, SentShape, End
  <2>5. BatchShape'
    BY <2>1, <2>3 DEF BatchShape, End
  <2> QED
    BY <2>4, <2>5 DEF Shape
<1>5. CASE WaitGroup \/ WaitCancelled \/ Record \/ RecordFails
  BY <1>5, ShapeKept DEF WaitGroup, WaitCancelled, Record, RecordFails
<1>6. CASE \E b \in Batches : WorkerStep(b) \/ ListenerStep(b)
  BY <1>6, ShapeKept DEF WorkerStep, ListenerStep, WorkerCompletes, WorkerRaises,
     HandleJobUpdate, ListenerCancelled
<1>7. CASE Cancel \/ UNCHANGED vars
  BY <1>7, ShapeKept DEF Cancel, vars, backend
<1> QED
  BY <1>1, <1>2, <1>3, <1>4, <1>5, <1>6, <1>7 DEF Next, JobStep

\* The control state is one of those of the job.
LEMMA ControlStep ==
  ASSUME Control, [Next]_vars
  PROVE  Control'
<1>1. pc' \in {"submit", "wait", "record", "done", "failed"}
  BY DEF Control, Next, JobStep, SubmitTask, SubmitFull, Wait, SaveFails, WaitGroup,
     WaitCancelled, Record, RecordFails, WorkerStep, WorkerCompletes, WorkerRaises,
     ListenerStep, HandleJobUpdate, ListenerCancelled, Cancel, vars
<1>2. cancelled' \in BOOLEAN
  BY Zenon DEF Control, Next, JobStep, SubmitTask, SubmitFull, Wait, SaveFails, WaitGroup,
     WaitCancelled, Record, RecordFails, WorkerStep, WorkerCompletes, WorkerRaises,
     ListenerStep, HandleJobUpdate, ListenerCancelled, Cancel, vars
<1> QED
  BY <1>1, <1>2 DEF Control

-----------------------------------------------------------------------------
(* The batches sent, one after the other, are the tasks in order.          *)

Upto(m) == [t \in 1..m |-> t]

\* An interval continues the sequence of the tasks before it.
LEMMA Continue ==
  ASSUME NEW a \in Nat, NEW s \in Seq(Tasks), \A j \in 1..Len(s) : s[j] = a + j
  PROVE  Upto(a) \o s = Upto(a + Len(s))
<1> DEFINE u == Upto(a)
           v == Upto(a + Len(s))
<1>0. Tasks \subseteq Int /\ Len(s) \in Nat
  BY TaskBackendAssumption DEF Tasks
<1>1. u \in Seq(Int) /\ Len(u) = a /\ \A i \in 1..a : u[i] = i
  BY DEF Upto
<1>2. v \in Seq(Int) /\ Len(v) = a + Len(s) /\ \A i \in 1..(a + Len(s)) : v[i] = i
  BY <1>0 DEF Upto
<1>3. s \in Seq(Int)
  BY <1>0
<1> HIDE DEF u, v
<1>4. u \o s \in Seq(Int) /\ Len(u \o s) = a + Len(s)
  BY <1>1, <1>3, ConcatProperties
<1>5. ASSUME NEW i \in 1..(a + Len(s)) PROVE (u \o s)[i] = v[i]
  <2>1. CASE i <= a
    BY <1>0, <1>1, <1>2, <1>3, <2>1
  <2>2. CASE i > a
    <3>1. i - a \in 1..Len(s)
      BY <1>0, <2>2
    <3>2. s[i - a] = a + (i - a)
      BY <3>1
    <3>3. (u \o s)[i] = s[i - a]
      BY <1>0, <1>1, <1>3, <2>2, <3>1
    <3> QED
      BY <3>2, <3>3, <1>2
  <2>3. i \in Int /\ a \in Int
    BY <1>0
  <2>4. i <= a \/ i > a
    BY <2>3
  <2> QED
    BY <2>1, <2>2, <2>4
<1>6. u \o s = v
  BY <1>2, <1>4, <1>5, SeqEqual
<1> QED
  BY <1>6 DEF u, v

\* The sequence of all tasks sent: by induction on the number of batches.
LEMMA Flattened ==
  ASSUME SentShape
  PROVE  FlattenSeq(sent) = Upto(End(Len(sent)))
<1> USE SentFacts
<1>0. sent \in Seq(Seq(Tasks)) /\ Len(sent) \in Nat
  BY DEF SentShape
<1>1. CASE Len(sent) = 0
  <2>1. FlattenSeq(sent) = <<>>
    BY <1>0, <1>1 DEF FlattenSeq
  <2>2. Upto(End(Len(sent))) = <<>>
    BY <1>1 DEF Upto, End
  <2> QED
    BY <2>1, <2>2
<1>2. CASE Len(sent) # 0
  <2> DEFINE step(f) == [i \in 1..Len(sent) |-> IF i = 1 THEN sent[i] ELSE f[i - 1] \o sent[i]]
             known == [i \in 1..Len(sent) |-> Upto(End(i))]
             flat == CHOOSE f : f = step(f)
  <2>1. FlattenSeq(sent) = flat[Len(sent)]
    BY <1>2 DEF FlattenSeq
  <2>2. ASSUME NEW i \in 1..Len(sent)
        PROVE  /\ i - 1 \in 0..Len(sent) /\ Upto(End(i - 1)) \o sent[i] = Upto(End(i))
               /\ i = 1 => sent[i] = Upto(End(i))
    <3>1. i - 1 \in 0..Len(sent)
      BY <1>0
    <3>2. End(i - 1) \in Nat /\ sent[i] \in Seq(Tasks) /\ End(i) = End(i - 1) + Len(sent[i])
      BY <3>1
    <3>3. \A j \in 1..Len(sent[i]) : sent[i][j] = End(i - 1) + j
      BY DEF SentShape
    <3>4. Upto(End(i - 1)) \o sent[i] = Upto(End(i))
      BY <3>2, <3>3, Continue
    <3>5. i = 1 => Upto(End(i - 1)) = <<>>
      BY DEF Upto, End
    <3> QED
      BY <3>1, <3>2, <3>4, <3>5, ConcatEmptySeq
  <2>3. known = step(known)
    <3>1. ASSUME NEW i \in 1..Len(sent) PROVE known[i] = step(known)[i]
      <4>1. CASE i = 1
        BY <2>2, <4>1
      <4>2. CASE i # 1
        <5>1. i - 1 \in 1..Len(sent)
          BY <1>0, <4>2
        <5> QED
          BY <2>2, <4>2, <5>1
      <4> QED
        BY <4>1, <4>2
    <3> QED
      BY <3>1
  <2>4. flat = step(flat)
    <3> HIDE DEF step, known
    <3> QED
      BY <2>3
  <2>5. \A i \in 1..Len(sent) : flat[i] = known[i]
    <3> DEFINE Bad == {i \in 1..Len(sent) : flat[i] # known[i]}
    <3> SUFFICES ASSUME Bad # {} PROVE FALSE
      OBVIOUS
    <3> HIDE DEF flat
    <3>1. PICK m \in Bad : \A k \in Bad : m <= k
      <4>1. Bad \subseteq Nat
        BY <1>0
      <4> QED
        BY <4>1, LeastNat
    <3>2. CASE m = 1
      <4>1. flat[m] = sent[m]
        BY <2>4, <3>1, <3>2
      <4> QED
        BY <2>2, <3>1, <3>2, <4>1
    <3>3. CASE m # 1
      <4>1. m - 1 \in 1..Len(sent) /\ m \in 1..Len(sent) /\ m - 1 \notin Bad
        BY <1>0, <3>1, <3>3
      <4>2. flat[m - 1] = known[m - 1]
        BY <4>1
      <4>3. step(flat)[m] = flat[m - 1] \o sent[m]
        BY <3>3, <4>1
      <4>4. flat[m] = flat[m - 1] \o sent[m]
        <5> HIDE DEF step
        <5> QED
          BY <2>4, <4>3
      <4>5. known[m - 1] \o sent[m] = known[m]
        BY <2>2, <4>1
      <4> HIDE DEF known
      <4> QED
        BY <3>1, <4>2, <4>4, <4>5
    <3> QED
      BY <3>2, <3>3
  <2>6. Len(sent) \in 1..Len(sent)
    BY <1>0, <1>2
  <2> HIDE DEF flat
  <2> QED
    BY <2>1, <2>5, <2>6
<1> QED
  BY <1>1, <1>2

\* What Shape says of the tasks of the job.
LEMMA Partitioned == Shape => TasksArePartitioned
<1> SUFFICES ASSUME Shape PROVE TasksArePartitioned
  OBVIOUS
<1>1. ASSUME pc # "failed" PROVE FlattenSeq(sent) \o batch = [t \in 1..submitted |-> t]
  <2> DEFINE n == Len(sent)
  <2>1. FlattenSeq(sent) = Upto(End(n)) /\ n \in Nat /\ End(n) \in 0..NumTasks
    BY Flattened, SentFacts DEF Shape
  <2>2. /\ batch \in Seq(Tasks) /\ submitted \in 0..NumTasks /\ Len(batch) = submitted - End(n)
        /\ \A j \in 1..Len(batch) : batch[j] = End(n) + j
    BY <1>1 DEF Shape, BatchShape
  <2>3. End(n) \in Nat /\ End(n) + Len(batch) = submitted
    BY <2>1, <2>2, TaskBackendAssumption
  <2>4. Upto(End(n)) \o batch = Upto(submitted)
    BY <2>2, <2>3, Continue
  <2> QED
    BY <2>1, <2>4 DEF Upto
<1> QED
  BY <1>1 DEF Shape, SentShape, BatchShape, TasksArePartitioned

-----------------------------------------------------------------------------
(* Answers and Merged are inductive.                                       *)

\* The tasks of a new batch are in none of the batches before it.
LEMMA NewBatch ==
  ASSUME SentShape, NEW tasks \in Seq(Tasks), Len(tasks) \in 1..BatchSize,
         NEW n \in Nat, n = Len(sent),
         \A j \in 1..Len(tasks) : tasks[j] = End(n) + j,
         sent' = Append(sent, tasks)
  PROVE  /\ n + 1 \in Batches /\ 1..n \subseteq Batches
         /\ In(n + 1)' = ToSet(tasks)
         /\ \A t \in ToSet(tasks) : t \in Tasks /\ t > End(n)
         /\ \A b \in 1..n : /\ In(b)' = In(b)
                            /\ \A t \in In(b) : t \in Tasks /\ t \notin ToSet(tasks)
<1> USE TaskBackendAssumption
<1>1. /\ Len(sent') = n + 1 /\ sent'[n + 1] = tasks /\ \A b \in 1..n : sent'[b] = sent[b]
      /\ SentShape'
  BY SentStep
<1>2. End(n) \in 0..NumTasks /\ n <= End(n)
  <2>1. CASE n = 0
    BY <2>1 DEF End
  <2>2. CASE n # 0
    BY <2>2, SentFacts DEF SentShape
  <2> QED
    BY <2>1, <2>2
<1>3. ASSUME NEW t \in ToSet(tasks) PROVE t \in Tasks /\ t > End(n)
  <2>1. PICK j \in 1..Len(tasks) : tasks[j] = t
    BY DEF ToSet
  <2>2. t = End(n) + j /\ t \in Tasks
    BY <2>1
  <2> QED
    BY <2>2, <1>2
<1>4. n + 1 \in Batches
  <2>1. tasks[1] \in Tasks /\ tasks[1] = End(n) + 1
    OBVIOUS
  <2> QED
    BY <2>1, <1>2 DEF Tasks, Batches
<1>5. ASSUME NEW b \in 1..n
      PROVE  In(b)' = In(b) /\ \A t \in In(b) : t \in Tasks /\ t \notin ToSet(tasks)
  <2>1. In(b)' = In(b)
    BY <1>1 DEF In
  <2>2. In(b) = (End(b - 1) + 1)..End(b) /\ b - 1 \in 0..n /\ b \in 0..n
    BY SentFacts
  <2>3. End(b - 1) \in 0..NumTasks /\ End(b) \in 0..NumTasks
    BY <2>2, SentFacts
  <2>4. End(b) <= End(n)
    <3>1. CASE b = n
      BY <3>1, <1>2
    <3>2. CASE b # n
      <4>1. b < n /\ n \in 0..n
        BY <3>2
      <4>2. End(b) < End(n)
        BY <2>2, <4>1 DEF SentShape
      <4> QED
        BY <4>2, <2>3, <1>2
    <3> QED
      BY <3>1, <3>2
  <2>5. ASSUME NEW t \in In(b) PROVE t \in Tasks /\ t \notin ToSet(tasks)
    <3>1. t \in Int /\ t >= End(b - 1) + 1 /\ t <= End(b)
      BY <2>2, <2>3
    <3>2. t \in Tasks /\ ~(t > End(n))
      BY <3>1, <2>3, <2>4, <1>2 DEF Tasks
    <3> QED
      BY <3>2, <1>3
  <2> QED
    BY <2>1, <2>5
<1>6. In(n + 1)' = ToSet(tasks)
  BY <1>1 DEF In
<1>7. 1..n \subseteq Batches
  BY <1>4 DEF Batches
<1> QED
  BY <1>3, <1>4, <1>5, <1>6, <1>7

\* A batch is sent: it is with the workers, its goroutine listens, and no
\* result of it is known.
LEMMA SendAnswers ==
  ASSUME SentShape, Answers, Merged, NEW tasks \in Seq(Tasks), Len(tasks) \in 1..BatchSize,
         SendBatch(tasks), NEW n \in Nat, n = Len(sent),
         \A j \in 1..Len(tasks) : tasks[j] = End(n) + j,
         UNCHANGED <<done, results, cancelled>>, pc' \in {"submit", "wait"}
  PROVE  Answers' /\ Merged'
<1> USE TaskBackendAssumption
<1>1. /\ sent' = Append(sent, tasks)
      /\ row' = [t \in Tasks |-> IF t \in ToSet(tasks) THEN NoCode ELSE row[t]]
  BY Sending
<1>2. /\ listener' = [listener EXCEPT ![n + 1] = "listen"]
      /\ gearman' = gearman \cup {n + 1}
  BY DEF SendBatch
<1>3. /\ n + 1 \in Batches /\ 1..n \subseteq Batches
      /\ In(n + 1)' = ToSet(tasks)
      /\ \A t \in ToSet(tasks) : t \in Tasks /\ t > End(n)
      /\ \A b \in 1..n : /\ In(b)' = In(b)
                         /\ \A t \in In(b) : t \in Tasks /\ t \notin ToSet(tasks)
  BY <1>1, NewBatch
<1>4. Len(sent') = n + 1 /\ End(n + 1)' = End(n) + Len(tasks)
  BY <1>1, SentStep
<1>5. End(n) \in Nat /\ Len(tasks) \in Nat
  <2>1. n \in 0..Len(sent)
    OBVIOUS
  <2>2. End(n) \in 0..NumTasks
    BY <2>1, SentFacts
  <2> QED
    BY <2>2
<1>6. listener' \in [Batches -> {"none", "listen", "gone"}] /\ gearman' \subseteq Batches
      /\ done' = [b \in Batches |-> done'[b]]
  BY <1>2, <1>3 DEF Answers
<1>7. listener[n + 1] = "none" /\ n + 1 \notin gearman /\ done[n + 1] = Nothing
  BY <1>3 DEF Answers
<1>8. ASSUME NEW b \in 1..(n + 1)
      PROVE  /\ listener'[b] # "none"
             /\ b \in gearman' <=> done'[b] = Nothing
             /\ listener'[b] = "gone" /\ ~cancelled' => done'[b] # Nothing
             /\ UpdateOf(b)'
  <2>1. CASE b = n + 1
    <3>1. listener'[b] = "listen" /\ b \in gearman' /\ done'[b] = Nothing
      BY <2>1, <1>2, <1>3, <1>7 DEF Answers
    <3>2. UpdateOf(b)'
      BY <3>1 DEF UpdateOf, Nothing
    <3> QED
      BY <3>1, <3>2
  <2>2. CASE b # n + 1
    <3>1. b \in 1..n
      BY <2>2
    <3>2. b \in Batches /\ listener'[b] = listener[b] /\ (b \in gearman' <=> b \in gearman)
      BY <2>2, <3>1, <1>2, <1>3 DEF Answers
    <3>3. /\ listener[b] # "none"
          /\ b \in gearman <=> done[b] = Nothing
          /\ listener[b] = "gone" /\ ~cancelled => done[b] # Nothing
          /\ UpdateOf(b)
      BY <3>1 DEF Answers
    <3>4. In(b)' = In(b) /\ \A t \in In(b) : row'[t] = row[t]
      BY <3>1, <1>1, <1>3
    <3>5. UpdateOf(b)'
      BY <3>3, <3>4 DEF UpdateOf
    <3> QED
      BY <3>2, <3>3, <3>5
  <2> QED
    BY <2>1, <2>2
<1>9. ASSUME NEW b \in Batches, b > n + 1
      PROVE  listener'[b] = "none" /\ b \notin gearman' /\ done'[b] = Nothing
  <2>1. b > n /\ b # n + 1
    BY <1>9 DEF Batches
  <2> QED
    BY <2>1, <1>2, <1>3 DEF Answers
<1>10. Answers'
  BY <1>4, <1>6, <1>8, <1>9 DEF Answers
<1>11. results' \in [Tasks -> ExitCodes \cup {NoCode}] /\ row' \in [Tasks -> ExitCodes \cup {1, NoCode, NoRow}]
  BY <1>1 DEF Merged
<1>12. \A t \in Tasks : t > End(Len(sent))' => results'[t] = NoCode
  <2>1. End(Len(sent))' = End(n) + Len(tasks)
    BY <1>4 DEF End
  <2>2. ASSUME NEW t \in Tasks, t > End(n) + Len(tasks) PROVE t > End(n)
    BY <2>2, <1>5 DEF Tasks
  <2> QED
    BY <2>1, <2>2 DEF Merged
<1>13. ASSUME NEW b \in 1..(n + 1), NEW t \in In(b)'
       PROVE  /\ results'[t] # NoCode => listener'[b] = "gone" /\ done'[b].type = "complete" /\ results'[t] = row'[t]
              /\ listener'[b] = "gone" /\ ~cancelled' /\ done'[b].type = "complete" => results'[t] = row'[t]
  <2>1. CASE b = n + 1
    <3>1. results'[t] = NoCode
      BY <2>1, <1>3 DEF Merged
    <3>2. listener'[b] = "listen"
      BY <2>1, <1>2, <1>3 DEF Answers
    <3> QED
      BY <3>1, <3>2
  <2>2. CASE b # n + 1
    <3>1. b \in 1..n /\ t \in In(b)
      BY <2>2, <1>3
    <3>2. listener'[b] = listener[b] /\ row'[t] = row[t]
      BY <2>2, <3>1, <1>1, <1>2, <1>3 DEF Answers
    <3> QED
      BY <3>1, <3>2 DEF Merged, ResultsMatchRows
  <2> QED
    BY <2>1, <2>2
<1>14. ResultsMatchRows'
  BY <1>4, <1>13 DEF ResultsMatchRows
<1> QED
  BY <1>10, <1>11, <1>12, <1>14 DEF Merged

\* A worker ends batch b: only the rows of its tasks change, its channel is
\* filled, and no goroutine has merged results of it.
LEMMA WorkerAnswers ==
  ASSUME SentShape, Answers, Merged, Control, NEW b \in Batches, b \in gearman,
         gearman' = gearman \ {b}, NEW u, done' = [done EXCEPT ![b] = u],
         row' \in [Tasks -> ExitCodes \cup {1, NoCode, NoRow}],
         \A t \in Tasks : t \notin In(b) => row'[t] = row[t],
         \/ u \in {[type |-> "garbled"], [type |-> "fail"]}
         \/ \E codes \in [In(b) -> ExitCodes] :
              u = Answer(codes) /\ \A t \in In(b) : row'[t] = codes[t],
         UNCHANGED <<pc, backend, listener, results, cancelled>>
  PROVE  Answers' /\ Merged'
<1> USE TaskBackendAssumption DEF backend
<1>0. Len(sent) \in Nat /\ Len(sent') = Len(sent) /\ \A c : In(c)' = In(c)
  BY SentFacts DEF In
<1>1. b \in 1..Len(sent)
  <2>1. ~(b > Len(sent))
    BY DEF Answers
  <2> QED
    BY <1>0, <2>1 DEF Batches
<1>2. u # Nothing
  BY DEF Answer, Nothing
<1>3. done[b] = Nothing /\ done[b].type # "complete" /\ ~(listener[b] = "gone" /\ ~cancelled) /\ pc # "done"
  BY <1>1 DEF Answers, Nothing
<1>4. done' = [c \in Batches |-> done'[c]] /\ done'[b] = u
      /\ \A c \in Batches : c # b => done'[c] = done[c]
  BY DEF Answers
<1>5. \A c \in 1..Len(sent) : c # b => \A t \in In(c) : t \notin In(b)
  BY <1>1, Disjoint
<1>6. \A c \in 1..Len(sent) : c \in Batches /\ \A t \in In(c) : t \in Tasks
  <2>1. \A c \in 1..Len(sent) : c \in Batches
    BY <1>0, SentFacts DEF Batches
  <2>2. \A c \in 1..Len(sent) : \A t \in In(c) : t \in Tasks
    BY SentFacts DEF In, ToSet
  <2> QED
    BY <2>1, <2>2
<1>7. UpdateOf(b)'
  BY <1>0, <1>4 DEF UpdateOf
<1>8. ASSUME NEW c \in 1..Len(sent)
      PROVE  /\ listener'[c] # "none"
             /\ c \in gearman' <=> done'[c] = Nothing
             /\ listener'[c] = "gone" /\ ~cancelled' => done'[c] # Nothing
             /\ UpdateOf(c)'
  <2>1. CASE c = b
    BY <2>1, <1>2, <1>4, <1>7 DEF Answers
  <2>2. CASE c # b
    <3>1. done'[c] = done[c] /\ \A t \in In(c) : row'[t] = row[t]
      BY <2>2, <1>4, <1>5, <1>6
    <3>0. UpdateOf(c)
      BY DEF Answers
    <3>2. UpdateOf(c)'
      BY <3>0, <3>1, <1>0 DEF UpdateOf
    <3> QED
      BY <2>2, <3>1, <3>2 DEF Answers
  <2> QED
    BY <2>1, <2>2
<1>9. \A c \in Batches : c > Len(sent) => listener'[c] = "none" /\ c \notin gearman' /\ done'[c] = Nothing
  BY <1>0, <1>1, <1>4 DEF Answers
<1>10. Answers'
  BY <1>0, <1>3, <1>4, <1>8, <1>9 DEF Answers
<1>11. ASSUME NEW c \in 1..Len(sent), NEW t \in In(c)
       PROVE  /\ results[t] # NoCode => listener[c] = "gone" /\ done'[c].type = "complete" /\ results[t] = row'[t]
              /\ listener[c] = "gone" /\ ~cancelled /\ done'[c].type = "complete" => results[t] = row'[t]
  <2>1. CASE c = b
    BY <2>1, <1>3 DEF Merged, ResultsMatchRows
  <2>2. CASE c # b
    BY <2>2, <1>4, <1>5, <1>6 DEF Merged, ResultsMatchRows
  <2> QED
    BY <2>1, <2>2
<1>12. ResultsMatchRows'
  BY <1>0, <1>11 DEF ResultsMatchRows
<1>13. End(Len(sent))' = End(Len(sent))
  BY DEF End
<1> QED
  BY <1>10, <1>12, <1>13 DEF Merged

\* The goroutine of batch b leaves, with the results of an answer if it has one.
LEMMA ListenerAnswers ==
  ASSUME SentShape, Answers, Merged, Control, NEW b \in Batches, listener[b] = "listen",
         listener' = [listener EXCEPT ![b] = "gone"],
         UNCHANGED <<pc, backend, gearman, done, row, cancelled>>,
         \/ cancelled /\ UNCHANGED results
         \/ ~cancelled /\ done[b] # Nothing /\ done[b].type = "complete" /\ Merge(b, done[b])
         \/ ~cancelled /\ done[b] # Nothing /\ done[b].type # "complete" /\ UNCHANGED results
  PROVE  Answers' /\ Merged'
<1> USE TaskBackendAssumption DEF backend
<1>0. Len(sent) \in Nat /\ Len(sent') = Len(sent) /\ (\A c : In(c)' = In(c)) /\ End(Len(sent))' = End(Len(sent))
  BY SentFacts DEF In, End
<1>1. b \in 1..Len(sent)
  <2>1. ~(b > Len(sent))
    BY DEF Answers
  <2> QED
    BY <1>0, <2>1 DEF Batches
<1>2. \A c \in 1..Len(sent) : c \in Batches /\ \A t \in In(c) : t \in Tasks
  <2>1. \A c \in 1..Len(sent) : c \in Batches
    BY <1>0, SentFacts DEF Batches
  <2>2. \A c \in 1..Len(sent) : \A t \in In(c) : t \in Tasks
    BY SentFacts DEF In, ToSet
  <2> QED
    BY <2>1, <2>2
<1>3. /\ listener' \in [Batches -> {"none", "listen", "gone"}] /\ listener'[b] = "gone"
      /\ \A c \in Batches : c # b => listener'[c] = listener[c]
  BY DEF Answers
<1>4. \A c : UpdateOf(c)' <=> UpdateOf(c)
  BY <1>0 DEF UpdateOf
<1>5. ASSUME NEW c \in 1..Len(sent)
      PROVE  /\ listener'[c] # "none"
             /\ c \in gearman' <=> done'[c] = Nothing
             /\ listener'[c] = "gone" /\ ~cancelled' => done'[c] # Nothing
             /\ UpdateOf(c)'
  <2>1. CASE c = b
    BY <2>1, <1>3, <1>4 DEF Answers
  <2>2. CASE c # b
    BY <2>2, <1>2, <1>3, <1>4 DEF Answers
  <2> QED
    BY <2>1, <2>2
<1>6. \A c \in Batches : c > Len(sent) => listener'[c] = "none" /\ c \notin gearman' /\ done'[c] = Nothing
  <2>1. ~(b > Len(sent))
    BY <1>0, <1>1
  <2> QED
    BY <1>3, <2>1 DEF Answers
<1>7. pc' \in {"record", "done"} => \A c \in 1..Len(sent) : listener'[c] = "gone"
  BY <1>2, <1>3 DEF Answers
<1>8. Answers'
  BY <1>0, <1>3, <1>5, <1>6, <1>7 DEF Answers
<1>9. CASE UNCHANGED results /\ (cancelled \/ done[b].type # "complete")
  <2>1. ASSUME NEW c \in 1..Len(sent), NEW t \in In(c)
        PROVE  /\ results[t] # NoCode => listener'[c] = "gone" /\ done[c].type = "complete" /\ results[t] = row[t]
               /\ listener'[c] = "gone" /\ ~cancelled /\ done[c].type = "complete" => results[t] = row[t]
    <3>1. CASE c = b
      <4>1. results[t] = NoCode
        BY <1>1, <3>1 DEF Merged, ResultsMatchRows
      <4>2. CASE cancelled
        BY <4>1, <4>2
      <4>3. CASE done[b].type # "complete"
        BY <4>1, <4>3, <3>1
      <4> QED
        BY <1>9, <4>2, <4>3
    <3>2. CASE c # b
      BY <3>2, <1>2, <1>3 DEF Merged, ResultsMatchRows
    <3> QED
      BY <3>1, <3>2
  <2>2. ResultsMatchRows'
    BY <2>1, <1>0, <1>9 DEF ResultsMatchRows
  <2> QED
    BY <1>0, <1>8, <1>9, <2>2 DEF Merged
<1>10. CASE ~cancelled /\ done[b].type = "complete" /\ Merge(b, done[b])
  <2>1. PICK codes \in [In(b) -> ExitCodes] :
          done[b] = Answer(codes) /\ \A x \in In(b) : row[x] = codes[x]
    <3>1. UpdateOf(b)
      BY <1>1 DEF Answers
    <3>2. done[b] \notin {Nothing, [type |-> "garbled"], [type |-> "fail"]}
      BY <1>10 DEF Nothing
    <3> QED
      BY <3>1, <3>2 DEF UpdateOf
  <2>2. done[b].codes = codes
    BY <2>1 DEF Answer
  <2>3. results' = [t \in Tasks |-> IF t \in In(b) THEN codes[t] ELSE results[t]]
    BY <1>10, <2>2 DEF Merge
  <2>4. results' \in [Tasks -> ExitCodes \cup {NoCode}]
    BY <2>1, <2>3 DEF Merged
  <2>5. ASSUME NEW t \in Tasks, t > End(Len(sent)) PROVE results'[t] = NoCode
    <3>1. t \notin In(b)
      <4>1. In(b) = (End(b - 1) + 1)..End(b) /\ b \in 0..Len(sent) /\ b - 1 \in 0..Len(sent)
        BY <1>0, <1>1, SentFacts
      <4>2. End(b) \in Int /\ End(b - 1) \in Int /\ Len(sent) \in 0..Len(sent) /\ End(Len(sent)) \in Int
        BY <1>0, <4>1, SentFacts
      <4>3. End(b) <= End(Len(sent))
        <5>1. CASE b = Len(sent)
          BY <5>1, <4>2
        <5>2. CASE b # Len(sent)
          <6>1. b < Len(sent)
            BY <1>0, <1>1, <5>2
          <6>2. End(b) < End(Len(sent))
            BY <4>1, <4>2, <6>1 DEF SentShape
          <6> QED
            BY <6>2, <4>2
        <5> QED
          BY <5>1, <5>2
      <4> QED
        BY <2>5, <4>1, <4>2, <4>3 DEF Tasks
    <3> QED
      BY <2>3, <2>5, <3>1 DEF Merged
  <2>6. ASSUME NEW c \in 1..Len(sent), NEW t \in In(c)
        PROVE  /\ results'[t] # NoCode => listener'[c] = "gone" /\ done[c].type = "complete" /\ results'[t] = row[t]
               /\ listener'[c] = "gone" /\ ~cancelled /\ done[c].type = "complete" => results'[t] = row[t]
    <3>1. CASE c = b
      BY <3>1, <1>2, <1>3, <1>10, <2>1, <2>3
    <3>2. CASE c # b
      <4>1. t \notin In(b)
        BY <3>2, <1>1, Disjoint
      <4>2. results'[t] = results[t] /\ listener'[c] = listener[c]
        BY <4>1, <3>2, <1>2, <1>3, <2>3
      <4> QED
        BY <4>2 DEF Merged, ResultsMatchRows
    <3> QED
      BY <3>1, <3>2
  <2>7. ResultsMatchRows'
    BY <2>6, <1>0 DEF ResultsMatchRows
  <2> QED
    BY <1>0, <1>8, <2>4, <2>5, <2>7 DEF Merged
<1> QED
  BY <1>9, <1>10

\* Steps of the job that touch no batch, and Close.
LEMMA AnswersKept ==
  ASSUME Answers, Merged, UNCHANGED <<sent, listener, gearman, done, results, row>>,
         cancelled' = cancelled \/ cancelled',
         pc' \in {"record", "done"} => \A b \in 1..Len(sent) : listener[b] = "gone",
         pc' = "done" => gearman = {}
  PROVE  Answers' /\ Merged'
<1>1. (\A b : UpdateOf(b)' <=> UpdateOf(b)) /\ End(Len(sent))' = End(Len(sent)) /\ \A b : In(b)' = In(b)
  BY DEF UpdateOf, In, End
<1>2. Answers'
  BY <1>1 DEF Answers
<1>3. ResultsMatchRows'
  BY <1>1 DEF Merged, ResultsMatchRows
<1> QED
  BY <1>1, <1>2, <1>3 DEF Merged

\* A batch that is sent by the step: submit with a full batch, or wait.
LEMMA WhatIsSent ==
  ASSUME Shape, SubmitFull \/ (Wait /\ Len(batch) > 0), NEW n \in Nat, n = Len(sent)
  PROVE  \E tasks \in Seq(Tasks) :
           /\ Len(tasks) \in 1..BatchSize /\ SendBatch(tasks)
           /\ \A j \in 1..Len(tasks) : tasks[j] = End(n) + j
<1> USE TaskBackendAssumption
<1>1. CASE SubmitFull
  <2> DEFINE tasks == Append(batch, submitted + 1)
  <2>1. /\ tasks \in Seq(Tasks) /\ Len(tasks) \in 1..BatchSize
        /\ \A j \in 1..Len(tasks) : tasks[j] = End(n) + j
    BY <1>1, AppendTask DEF SubmitFull
  <2>2. SendBatch(tasks)
    BY <1>1 DEF SubmitFull
  <2> HIDE DEF tasks
  <2> QED
    BY <2>1, <2>2
<1>2. CASE Wait /\ Len(batch) > 0
  <2>1. /\ batch \in Seq(Tasks) /\ Len(batch) < BatchSize
        /\ \A j \in 1..Len(batch) : batch[j] = End(n) + j
    BY <1>2 DEF Wait, Shape, BatchShape
  <2>2. Len(batch) \in 1..BatchSize /\ SendBatch(batch)
    BY <1>2, <2>1 DEF Wait
  <2> QED
    BY <2>1, <2>2
<1> QED
  BY <1>1, <1>2

\* Every step keeps what is known of the batches consistent.
LEMMA AnswersStep ==
  ASSUME Shape, Control, Answers, Merged, [Next]_vars
  PROVE  Answers' /\ Merged'
<1> USE TaskBackendAssumption
<1> DEFINE n == Len(sent)
<1>0. n \in Nat /\ SentShape
  BY SentFacts DEF Shape
<1>1. CASE SubmitFull \/ (Wait /\ Len(batch) > 0)
  <2>1. PICK tasks \in Seq(Tasks) :
           /\ Len(tasks) \in 1..BatchSize /\ SendBatch(tasks)
           /\ \A j \in 1..Len(tasks) : tasks[j] = End(n) + j
    BY <1>0, <1>1, WhatIsSent
  <2>2. UNCHANGED <<done, results, cancelled>> /\ pc' \in {"submit", "wait"}
    BY <1>1 DEF SubmitFull, Wait
  <2> QED
    BY <1>0, <2>1, <2>2, SendAnswers
<1>2. CASE Wait /\ ~(Len(batch) > 0)
  BY <1>2, AnswersKept DEF Wait
<1>3. CASE SubmitTask \/ SaveFails \/ WaitCancelled \/ RecordFails
  BY <1>3, AnswersKept DEF SubmitTask, SaveFails, WaitCancelled, RecordFails, backend
<1>4. CASE WaitGroup
  BY <1>4, AnswersKept DEF WaitGroup, backend
<1>5. CASE Record
  <2>1. \A b \in 1..n : listener[b] = "gone" /\ b \notin gearman
    BY <1>5 DEF Record, Answers
  <2>2. ASSUME NEW b \in gearman PROVE FALSE
    <3>1. b \in Batches /\ ~(b > n)
      BY DEF Answers
    <3> QED
      BY <1>0, <2>1, <2>2, <3>1 DEF Batches
  <2>3. gearman = {}
    BY <2>2
  <2> QED
    BY <1>5, <2>1, <2>3, AnswersKept DEF Record, backend
<1>6. ASSUME NEW b \in Batches, WorkerCompletes(b) PROVE Answers' /\ Merged'
  <2>1. PICK codes \in [In(b) -> ExitCodes] :
          /\ row' = [t \in Tasks |-> IF t \in In(b) THEN codes[t] ELSE row[t]]
          /\ \/ done' = [done EXCEPT ![b] = Answer(codes)]
             \/ done' = [done EXCEPT ![b] = [type |-> "garbled"]]
    BY <1>6 DEF WorkerCompletes
  <2>2. /\ b \in gearman /\ gearman' = gearman \ {b}
        /\ UNCHANGED <<pc, backend, listener, results, cancelled>>
    BY <1>6 DEF WorkerCompletes
  <2>3. row' \in [Tasks -> ExitCodes \cup {1, NoCode, NoRow}]
    BY <2>1 DEF Merged
  <2>4. \A t \in Tasks : t \notin In(b) => row'[t] = row[t]
    BY <2>1
  <2>5. In(b) \subseteq Tasks
    <3>1. b \in 1..n
      <4>1. ~(b > n)
        BY <2>2 DEF Answers
      <4> QED
        BY <1>0, <4>1 DEF Batches
    <3> QED
      BY <1>0, <3>1, SentFacts DEF In, ToSet
  <2>6. \A t \in In(b) : row'[t] = codes[t]
    BY <2>1, <2>5
  <2>7. CASE done' = [done EXCEPT ![b] = Answer(codes)]
    <3> DEFINE u == Answer(codes)
    <3>1. \E co \in [In(b) -> ExitCodes] : u = Answer(co) /\ \A t \in In(b) : row'[t] = co[t]
      BY <2>6
    <3> HIDE DEF u
    <3>2. done' = [done EXCEPT ![b] = u]
      BY <2>7 DEF u
    <3> QED
      BY <1>0, <2>2, <2>3, <2>4, <3>1, <3>2, WorkerAnswers
  <2>8. CASE done' = [done EXCEPT ![b] = [type |-> "garbled"]]
    BY <1>0, <2>2, <2>3, <2>4, <2>8, WorkerAnswers
  <2> QED
    BY <2>1, <2>7, <2>8
<1>7. ASSUME NEW b \in Batches, WorkerRaises(b) PROVE Answers' /\ Merged'
  <2>1. /\ b \in gearman /\ gearman' = gearman \ {b}
        /\ row' = [t \in Tasks |-> IF t \in In(b) THEN 1 ELSE row[t]]
        /\ done' = [done EXCEPT ![b] = [type |-> "fail"]]
        /\ UNCHANGED <<pc, backend, listener, results, cancelled>>
    BY <1>7 DEF WorkerRaises
  <2>2. row' \in [Tasks -> ExitCodes \cup {1, NoCode, NoRow}]
    BY <2>1 DEF Merged
  <2>3. \A t \in Tasks : t \notin In(b) => row'[t] = row[t]
    BY <2>1
  <2> QED
    BY <1>0, <2>1, <2>2, <2>3, WorkerAnswers
<1>8. ASSUME NEW b \in Batches, ListenerStep(b) PROVE Answers' /\ Merged'
  <2>1. CASE HandleJobUpdate(b)
    BY <1>0, <2>1, ListenerAnswers DEF HandleJobUpdate
  <2>2. CASE ListenerCancelled(b)
    BY <1>0, <2>2, ListenerAnswers DEF ListenerCancelled
  <2> QED
    BY <1>8, <2>1, <2>2 DEF ListenerStep
<1>9. CASE Cancel
  BY <1>9, AnswersKept DEF Cancel, backend, Answers
<1>10. CASE UNCHANGED vars
  BY <1>10, AnswersKept DEF vars, backend, Answers
<1> QED
  BY <1>1, <1>2, <1>3, <1>4, <1>5, <1>6, <1>7, <1>8, <1>9, <1>10 DEF Next, JobStep, WorkerStep

\* The gauge goes up with every goroutine that starts to listen, and down only
\* with one that leaves.
LEMMA GaugesStep ==
  ASSUME Shape, Answers, Gauges, [Next]_vars
  PROVE  Gauges'
<1> USE TaskBackendAssumption
<1>0. IsFiniteSet(Listening) /\ Cardinality(Listening) \in Nat
  <2>1. IsFiniteSet(Batches)
    BY FS_Interval DEF Batches
  <2>2. Listening \subseteq Batches
    BY DEF Listening
  <2> QED
    BY <2>1, <2>2, FS_Subset, FS_CardinalityType
<1>1. CASE SubmitFull \/ (Wait /\ Len(batch) > 0)
  <2> DEFINE n == Len(sent)
  <2>1. n \in Nat /\ SentShape
    BY SentFacts DEF Shape
  <2>2. PICK tasks \in Seq(Tasks) :
           /\ Len(tasks) \in 1..BatchSize /\ SendBatch(tasks)
           /\ \A j \in 1..Len(tasks) : tasks[j] = End(n) + j
    BY <2>1, <1>1, WhatIsSent
  <2>3. n + 1 \in Batches
    BY <2>1, <2>2, Sending, NewBatch
  <2>4. listener' = [listener EXCEPT ![n + 1] = "listen"] /\ activeGauge' = activeGauge + 1
    BY <2>2 DEF SendBatch
  <2>5. Listening' = Listening \cup {n + 1}
    BY <2>3, <2>4 DEF Listening, Answers
  <2>6. Cardinality(Listening') <= Cardinality(Listening) + 1 /\ Cardinality(Listening') \in Nat
    <3>1. CASE n + 1 \in Listening
      <4>1. Listening' = Listening
        BY <2>5, <3>1
      <4> QED
        BY <1>0, <4>1
    <3>2. CASE n + 1 \notin Listening
      <4>1. Cardinality(Listening \cup {n + 1}) = Cardinality(Listening) + 1
        BY <1>0, <3>2, FS_AddElement
      <4> QED
        BY <1>0, <2>5, <4>1
    <3> QED
      BY <3>1, <3>2
  <2>7. pendingGauge' \in Int
    BY <1>1 DEF SubmitFull, Wait, Gauges
  <2> QED
    BY <1>0, <2>4, <2>6, <2>7 DEF Gauges
<1>2. ASSUME NEW b \in Batches, HandleJobUpdate(b) PROVE Gauges'
  <2>1. b \in Listening /\ Listening' = Listening \ {b} /\ activeGauge' = activeGauge - 1 /\ pendingGauge' = pendingGauge
    BY <1>2 DEF HandleJobUpdate, Listening, Answers
  <2>2. Cardinality(Listening') = Cardinality(Listening) - 1 /\ Cardinality(Listening') \in Nat
    BY <1>0, <2>1, FS_RemoveElement, FS_CardinalityType
  <2> QED
    BY <1>0, <2>1, <2>2 DEF Gauges
<1>3. ASSUME NEW b \in Batches, ListenerCancelled(b) PROVE Gauges'
  <2>1. b \in Listening /\ Listening' = Listening \ {b} /\ activeGauge' = activeGauge /\ pendingGauge' = pendingGauge
    BY <1>3 DEF ListenerCancelled, Listening, Answers
  <2>2. Cardinality(Listening') = Cardinality(Listening) - 1 /\ Cardinality(Listening') \in Nat
    BY <1>0, <2>1, FS_RemoveElement, FS_CardinalityType
  <2> QED
    BY <1>0, <2>1, <2>2 DEF Gauges
<1>4. CASE UNCHANGED <<listener, activeGauge>> /\ pendingGauge' \in Int
  BY <1>4 DEF Gauges, Listening
<1>5. CASE SubmitTask \/ SaveFails \/ WaitGroup \/ WaitCancelled \/ Record \/ RecordFails
           \/ (Wait /\ ~(Len(batch) > 0)) \/ Cancel \/ UNCHANGED vars
           \/ \E b \in Batches : WorkerStep(b)
  <2>1. UNCHANGED <<listener, activeGauge>>
    BY <1>5 DEF SubmitTask, SaveFails, WaitGroup, WaitCancelled, Record, RecordFails, Wait,
       Cancel, vars, WorkerStep, WorkerCompletes, WorkerRaises
  <2>2. pendingGauge' = pendingGauge \/ pendingGauge' = pendingGauge + 1
    BY <1>5 DEF SubmitTask, SaveFails, WaitGroup, WaitCancelled, Record, RecordFails, Wait,
       Cancel, vars, WorkerStep, WorkerCompletes, WorkerRaises
  <2>3. pendingGauge' \in Int
    BY <2>2 DEF Gauges
  <2> QED
    BY <1>4, <2>1, <2>3
<1> QED
  BY <1>1, <1>2, <1>3, <1>5 DEF Next, JobStep, ListenerStep

-----------------------------------------------------------------------------
(* The status of the job.                                                  *)

\* NULL results do not count: the largest of a set with and without NoCode.
LEMMA MaxWithoutNull ==
  ASSUME NEW A, NEW C, C \subseteq A, A \subseteq C \cup {NoCode}, C \subseteq Nat, 0 \in C,
         IsFiniteSet(C)
  PROVE  Max(A) = Max(C) /\ Max(C) \in C
<1>1. Max(C) \in C /\ \A y \in C : Max(C) >= y
  BY FiniteMax
<1> DEFINE m == Max(C)
<1> HIDE DEF m
<1>0. m \in C /\ m \in Nat /\ \A y \in C : m >= y
  BY <1>1 DEF m
<1>2. m \in A /\ \A y \in A : m >= y
  <2>1. m >= NoCode
    BY <1>0 DEF NoCode
  <2> QED
    BY <1>0, <2>1
<1>3. ASSUME NEW x \in A, \A y \in A : x >= y PROVE x = m
  <2>1. x >= m /\ m >= x /\ x \in Int /\ m \in Int
    <3>1. NoCode \in Int
      BY DEF NoCode
    <3> QED
      BY <1>0, <1>2, <1>3, <3>1
  <2> QED
    BY <2>1
<1>4. Max(A) \in A /\ \A y \in A : Max(A) >= y
  <2>1. \E x \in A : \A y \in A : x >= y
    BY <1>2
  <2> QED
    BY <2>1 DEF Max
<1> QED
  BY <1>1, <1>3, <1>4 DEF m

\* The exit codes saved by the workers that answered.
Answered == UNION {{row[t] : t \in In(b)} : b \in {c \in 1..Len(sent) : done[c].type = "complete"}}

\* When every goroutine has left and the context is not done, the results are
\* the exit codes of the batches that were answered.
LEMMA ResultsAreAnswered ==
  ASSUME Shape, Answers, Merged, ~cancelled, submitted = NumTasks, batch = <<>>, pc = "record"
  PROVE  MaxExitCode = Max({0} \cup Answered) /\ MaxExitCode \in ExitCodes
<1> USE TaskBackendAssumption
<1> DEFINE A == {0} \cup {results[t] : t \in Tasks}
           C == {0} \cup Answered
<1>0. Len(sent) \in Nat /\ \A b \in 1..Len(sent) : listener[b] = "gone" /\ In(b) \subseteq Tasks
  BY SentFacts DEF Shape, Answers, In, ToSet
<1>1. ASSUME NEW b \in 1..Len(sent), NEW t \in In(b), done[b].type = "complete"
      PROVE  results[t] = row[t] /\ row[t] \in ExitCodes
  <2>1. results[t] = row[t]
    BY <1>0, <1>1 DEF Merged, ResultsMatchRows
  <2>2. UpdateOf(b)
    BY DEF Answers
  <2>3. done[b] \notin {Nothing, [type |-> "garbled"], [type |-> "fail"]}
    BY <1>1 DEF Nothing
  <2> QED
    BY <2>1, <2>2, <2>3 DEF UpdateOf
<1>2. C \subseteq A
  <2>1. ASSUME NEW x \in Answered PROVE x \in A
    <3>1. PICK b \in 1..Len(sent) : done[b].type = "complete" /\ x \in {row[t] : t \in In(b)}
      BY DEF Answered
    <3>2. PICK t \in In(b) : x = row[t]
      BY <3>1
    <3>3. x = results[t] /\ t \in Tasks
      BY <1>0, <1>1, <3>1, <3>2
    <3> QED
      BY <3>3
  <2> QED
    BY <2>1
<1>3. C \subseteq ExitCodes
  BY <1>1 DEF Answered
<1>4. A \subseteq C \cup {NoCode}
  <2>1. ASSUME NEW t \in Tasks, results[t] # NoCode PROVE results[t] \in Answered
    <3>1. t <= End(Len(sent))
      <4>1. End(Len(sent)) \in Int
        BY <1>0, SentFacts DEF Shape
      <4>2. ~(t > End(Len(sent)))
        BY <2>1 DEF Merged
      <4> QED
        BY <4>1, <4>2 DEF Tasks
    <3>2. PICK b \in 1..Len(sent) : t \in In(b)
      BY <1>0, <3>1, Covered DEF Shape
    <3>3. done[b].type = "complete" /\ results[t] = row[t]
      BY <2>1, <3>2 DEF Merged, ResultsMatchRows
    <3>4. row[t] \in {row[x] : x \in In(b)}
      BY <3>2
    <3> QED
      BY <3>3, <3>4 DEF Answered
  <2> QED
    BY <2>1
<1>5. IsFiniteSet(C)
  <2>1. IsFiniteSet(Tasks)
    BY FS_Interval DEF Tasks
  <2> DEFINE B == {results[t] : t \in Tasks}
             g == [t \in Tasks |-> results[t]]
  <2>2. g \in Surjection(Tasks, B)
    BY DEF Surjection
  <2>3. IsFiniteSet(B)
    BY <2>1, <2>2, FS_Surjection
  <2>4. IsFiniteSet(B \cup {0})
    BY <2>3, FS_AddElement
  <2>5. A = B \cup {0}
    OBVIOUS
  <2> QED
    BY <1>2, <2>4, <2>5, FS_Subset
<1>6. Max(A) = Max(C) /\ Max(C) \in C
  <2>1. C \subseteq Nat /\ 0 \in C
    BY <1>3
  <2> HIDE DEF A, C
  <2> QED
    BY <1>2, <1>4, <1>5, <2>1, MaxWithoutNull
<1> QED
  BY <1>3, <1>6 DEF MaxExitCode

-----------------------------------------------------------------------------
(* The inductive invariant and the theorems.                               *)

Recorded == recorded \in ExitCodes \cup {NoCode}

BackendInv == Shape /\ Control /\ Answers /\ Merged /\ Gauges /\ Recorded /\ StatusIsHighestAnswered

\* Initially nothing is submitted.
LEMMA BackendInit == Init => BackendInv
<1> SUFFICES ASSUME Init PROVE BackendInv
  OBVIOUS
<1> USE TaskBackendAssumption DEF Init
<1>1. SentShape /\ BatchShape
  BY DEF SentShape, BatchShape, End
<1>2. Control
  <2>1. cancelled \in BOOLEAN
    BY Zenon
  <2> QED
    BY <2>1 DEF Control
<1>3. Answers
  BY DEF Answers
<1>4. Merged
  BY DEF Merged, ResultsMatchRows, NoRow
<1>5. Gauges
  <2>1. Listening = {}
    BY DEF Listening
  <2>2. Cardinality(Listening) = 0
    BY <2>1, FS_EmptySet
  <2> QED
    BY <2>2 DEF Gauges
<1>6. Recorded /\ StatusIsHighestAnswered
  BY DEF Recorded, StatusIsHighestAnswered
<1> QED
  BY <1>1, <1>2, <1>3, <1>4, <1>5, <1>6 DEF BackendInv, Shape

\* The status is decided once, when all answers are in, and nothing that it was
\* computed from changes afterwards.
LEMMA StatusStep ==
  ASSUME BackendInv, [Next]_vars
  PROVE  Recorded' /\ StatusIsHighestAnswered'
<1> USE TaskBackendAssumption
<1>1. CASE Record
  <2>1. submitted = NumTasks /\ batch = <<>>
    BY <1>1 DEF Record, BackendInv, Shape, BatchShape
  <2>2. MaxExitCode = Max({0} \cup Answered) /\ MaxExitCode \in ExitCodes
    BY <1>1, <2>1, ResultsAreAnswered DEF Record, BackendInv
  <2>3. recorded' = MaxExitCode /\ Answered' = Answered
    BY <1>1 DEF Record, Answered, In, backend
  <2> QED
    BY <2>2, <2>3 DEF Recorded, StatusIsHighestAnswered, Answered
<1>2. CASE pc = "done"
  <2>1. gearman = {} /\ \A b \in 1..Len(sent) : listener[b] = "gone"
    BY <1>2 DEF BackendInv, Answers
  <2>2. ASSUME NEW b \in Batches PROVE ~HandleJobUpdate(b) /\ ~ListenerCancelled(b)
    <3>1. b \in 1..Len(sent) \/ b > Len(sent)
      BY SentFacts DEF BackendInv, Shape, Batches
    <3>2. listener[b] # "listen"
      BY <2>1, <3>1 DEF BackendInv, Answers
    <3> QED
      BY <3>2 DEF HandleJobUpdate, ListenerCancelled
  <2>3. Cancel \/ UNCHANGED vars
    BY <1>2, <2>1, <2>2 DEF Next, JobStep, SubmitTask, SubmitFull, Wait, SaveFails, WaitGroup,
       WaitCancelled, Record, RecordFails, WorkerStep, WorkerCompletes, WorkerRaises, ListenerStep
  <2>4. UNCHANGED <<pc, recorded, row, done, sent>>
    BY <2>3 DEF Cancel, vars, backend
  <2> QED
    BY <2>4 DEF BackendInv, Recorded, StatusIsHighestAnswered, In
<1>3. CASE pc # "done" /\ ~Record
  <2>1. pc' # "done"
    BY <1>3 DEF Next, JobStep, SubmitTask, SubmitFull, Wait, SaveFails, WaitGroup,
       WaitCancelled, RecordFails, WorkerStep, WorkerCompletes, WorkerRaises,
       ListenerStep, HandleJobUpdate, ListenerCancelled, Cancel, vars
  <2>2. recorded' = recorded
    BY <1>3 DEF Next, JobStep, SubmitTask, SubmitFull, Wait, SaveFails, WaitGroup,
       WaitCancelled, RecordFails, WorkerStep, WorkerCompletes, WorkerRaises,
       ListenerStep, HandleJobUpdate, ListenerCancelled, Cancel, vars
  <2> QED
    BY <2>1, <2>2 DEF BackendInv, Recorded, StatusIsHighestAnswered
<1> QED
  BY <1>1, <1>2, <1>3

\* Every step preserves the invariant.
LEMMA BackendStep == BackendInv /\ [Next]_vars => BackendInv'
BY ShapeStep, ControlStep, AnswersStep, GaugesStep, StatusStep DEF BackendInv

\* The invariant always holds.
LEMMA BackendAlways == Spec => []BackendInv
BY BackendInit, BackendStep, PTL DEF Spec

\* The variables have their types for any number of files and any batch size:
\* GearmanActiveJobsGauge never goes below zero, however answers and Close race.
THEOREM TypeCorrect == Spec => []TypeOK
<1>1. BackendInv => TypeOK
  <2> SUFFICES ASSUME BackendInv PROVE TypeOK
    OBVIOUS
  <2>1. sent \in Seq(Seq(Tasks)) /\ Len(sent) <= NumTasks
    BY SentFacts DEF BackendInv, Shape, SentShape
  <2> QED
    BY <2>1 DEF BackendInv, Shape, BatchShape, Control, Answers, Merged, Gauges, Recorded, TypeOK
<1> QED
  BY <1>1, BackendAlways, PTL

\* submit, sendBatch and wait lose no task, send none twice and send no empty or
\* oversized batch, for any number of files and any batch size.
THEOREM TasksPartitioned == Spec => []TasksArePartitioned
<1>1. BackendInv => TasksArePartitioned
  BY Partitioned DEF BackendInv
<1> QED
  BY <1>1, BackendAlways, PTL

\* The results that the goroutines of the batches merge concurrently are those
\* of the batches answered, and those of the Tasks table.
THEOREM ResultsMatch == Spec => []ResultsMatchRows
<1>1. BackendInv => ResultsMatchRows
  BY DEF BackendInv, Merged
<1> QED
  BY <1>1, BackendAlways, PTL

\* The status of the job follows the highest exit code of the batches that were
\* answered, whatever the number of batches, failures and the time of Close.
THEOREM StatusHighest == Spec => []StatusIsHighestAnswered
<1>1. BackendInv => StatusIsHighestAnswered
  BY DEF BackendInv
<1> QED
  BY <1>1, BackendAlways, PTL
=============================================================================
