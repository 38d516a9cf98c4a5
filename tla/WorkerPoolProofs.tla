-------------------------- MODULE WorkerPoolProofs --------------------------
(***************************************************************************)
(* Proofs about WorkerPool, for any set of scripts and batches, any number *)
(* of workers, crashes and signals.                                        *)
(***************************************************************************)
EXTENDS WorkerPool, FiniteSetTheorems, SequenceTheorems, TLAPS

-----------------------------------------------------------------------------
(* WorkerPool.__init__: which worker registers which script.               *)

\* A nonempty set of natural numbers has a least element.
LEMMA LeastNat ==
  ASSUME NEW T, T \subseteq Nat, T # {}
  PROVE  \E m \in T : \A k \in T : m <= k
<1>1. IsWellFoundedOn(OpToRel(<, Nat), Nat)
  BY NatLessThanWellFounded
<1>2. \E x \in T : \A y \in T : ~(<<y, x>> \in OpToRel(<, Nat))
  BY <1>1, WFMin
<1>3. ASSUME NEW x \in Nat, NEW y \in Nat, y < x PROVE <<y, x>> \in OpToRel(<, Nat)
  BY <1>3 DEF OpToRel
<1>4. PICK x \in T : \A y \in T : ~(<<y, x>> \in OpToRel(<, Nat))
  BY <1>2
<1>5. ASSUME NEW k \in T PROVE x <= k
  <2>1. x \in Nat /\ k \in Nat
    OBVIOUS
  <2>2. ~(k < x)
    BY <2>1, <1>3, <1>4
  <2> QED
    BY <2>1, <2>2
<1> QED
  BY <1>5

\* A finite nonempty set of natural numbers has a largest element.
LEMMA FiniteMax ==
  ASSUME NEW S, IsFiniteSet(S), S # {}, S \subseteq Nat
  PROVE  Max(S) \in S /\ \A y \in S : Max(S) >= y
<1>1. PICK f : f \in Bijection(1..Cardinality(S), S) /\ Cardinality(S) \in Nat
  BY FS_CardinalityType DEF ExistsBijection
<1> DEFINE c == Cardinality(S)
           Bad == {m \in Nat : m <= c /\ m > 0 /\ \A k \in 1..m : \E j \in 1..m : f[j] > f[k]}
<1>2. Bad = {}
  <2> SUFFICES ASSUME Bad # {} PROVE FALSE
    OBVIOUS
  <2>1. PICK m \in Bad : \A k \in Bad : m <= k
    BY LeastNat
  <2>2. m \in Nat /\ m > 0 /\ m <= c /\ \A k \in 1..m : f[k] \in Nat
    <3>1. f \in [1..c -> S]
      BY <1>1 DEF Bijection, Injection
    <3>2. m \in Nat /\ m > 0 /\ m <= c
      BY <2>1
    <3>3. c \in Nat
      BY <1>1
    <3> HIDE DEF c, Bad
    <3>4. \A k \in 1..m : k \in 1..c
      BY <3>2, <3>3
    <3> QED
      BY <3>1, <3>2, <3>4
  <2>3. CASE m = 1
    BY <2>1, <2>2, <2>3
  <2>4. CASE m # 1
    <3>1. m - 1 \in Nat /\ m - 1 <= c /\ m - 1 > 0 /\ m - 1 \notin Bad /\ m \in Nat
      <4>1. m - 1 \in Nat /\ m - 1 <= c /\ m - 1 > 0
        BY <1>1, <2>2, <2>4
      <4>2. m - 1 \notin Bad
        BY <2>1, <2>2, <4>1
      <4> QED
        BY <2>2, <4>1, <4>2
    <3>2. PICK k \in 1..(m - 1) : \A j \in 1..(m - 1) : ~(f[j] > f[k])
      BY <3>1
    <3>3. CASE f[m] > f[k]
      <4>1. PICK j \in 1..m : f[j] > f[m]
        BY <2>1, <3>1
      <4>2. j \in 1..(m - 1)
        BY <4>1, <2>2, <3>1
      <4> QED
        BY <4>1, <4>2, <3>2, <3>3, <2>2, <3>1
    <3>4. CASE ~(f[m] > f[k])
      <4>1. PICK j \in 1..m : f[j] > f[k]
        BY <2>1, <3>1
      <4> QED
        BY <4>1, <3>2, <3>4, <3>1
    <3> QED
      BY <3>3, <3>4
  <2> QED
    BY <2>3, <2>4
<1>3. c \in Nat /\ c > 0
  BY <1>1, FS_EmptySet
<1>4. PICK k \in 1..c : \A j \in 1..c : ~(f[j] > f[k])
  BY <1>2, <1>3
<1>5. f[k] \in S /\ \A y \in S : f[k] >= y
  <2>1. f \in [1..c -> S] /\ \A y \in S : \E j \in 1..c : f[j] = y
    BY <1>1 DEF Bijection, Injection, Surjection
  <2>2. \A j \in 1..c : f[j] \in S
    BY <2>1
  <2>3. ASSUME NEW y \in S PROVE f[k] >= y
    <3>1. PICK j \in 1..c : f[j] = y
      BY <2>1
    <3>2. f[k] \in Nat /\ y \in Nat /\ ~(y > f[k])
      BY <1>4, <2>2, <3>1
    <3> QED
      BY <3>2
  <2> QED
    BY <2>2, <2>3
<1> QED
  BY <1>5 DEF Max

\* The size of the pool is a number.
LEMMA PoolSizeType == PoolSize \in Nat /\ WorkersRequired \in [Scripts -> Nat \ {0}]
<1>1. WorkersRequired \in [Scripts -> Nat \ {0}]
  BY WorkerPoolAssumption DEF WorkersRequired
<1> DEFINE Req == {WorkersRequired[s] : s \in Scripts}
<1>2. IsFiniteSet(Req)
  <2> DEFINE g == [s \in Scripts |-> WorkersRequired[s]]
  <2>1. g \in Surjection(Scripts, Req)
    BY DEF Surjection
  <2> QED
    BY <2>1, FS_Surjection, WorkerPoolAssumption
<1>3. Max(Req) \in Req
  <2>1. Req # {} /\ Req \subseteq Nat
    BY <1>1, WorkerPoolAssumption
  <2> QED
    BY <1>2, <2>1, FiniteMax
<1>4. Max(Req) \in Nat
  BY <1>1, <1>3
<1> HIDE DEF Req
<1>5. \E x \in {WORKERS, Max(Req)} : \A y \in {WORKERS, Max(Req)} : x =< y
  BY <1>4, WorkerPoolAssumption
<1>6. Min({WORKERS, Max(Req)}) \in {WORKERS, Max(Req)}
  BY <1>5 DEF Min
<1> QED
  BY <1>1, <1>4, <1>6, WorkerPoolAssumption DEF PoolSize, Req

\* Worker i serves the scripts that allow more than i processes: the loop over
\* script_workers_required takes one off each script per worker.
LEMMA ScriptsOfWorker ==
  ASSUME NEW i \in Index
  PROVE  InitScripts(i) = {s \in Scripts : WorkersRequired[s] > i}
<1> USE PoolSizeType
<1> DEFINE step(left) == [j \in 0..PoolSize |->
             IF j = 0
             THEN WorkersRequired
             ELSE [s \in Scripts |-> IF left[j - 1][s] > 0 THEN left[j - 1][s] - 1 ELSE left[j - 1][s]]]
           known == [j \in 0..PoolSize |-> [s \in Scripts |->
                       IF WorkersRequired[s] > j THEN WorkersRequired[s] - j ELSE 0]]
<1>1. known = step(known)
  <2>1. ASSUME NEW j \in 0..PoolSize PROVE known[j] = step(known)[j]
    <3>1. CASE j = 0
      BY <3>1
    <3>2. CASE j # 0
      BY <3>2
    <3> QED
      BY <3>1, <3>2
  <2> QED
    BY <2>1
<1>2. Remaining = step(Remaining)
  <2>1. Remaining = CHOOSE left : left = step(left)
    BY DEF Remaining
  <2> HIDE DEF step, known
  <2> QED
    BY <1>1, <2>1
<1>3. \A j \in 0..PoolSize : Remaining[j] = known[j]
  <2> DEFINE Bad == {j \in 0..PoolSize : Remaining[j] # known[j]}
  <2> SUFFICES ASSUME Bad # {} PROVE FALSE
    OBVIOUS
  <2>1. PICK m \in Bad : \A k \in Bad : m <= k
    <3>1. Bad \subseteq Nat
      OBVIOUS
    <3> QED
      BY <3>1, LeastNat
  <2>2. CASE m = 0
    <3>1. Remaining[0] = WorkersRequired
      BY <1>2
    <3>2. known[0] = WorkersRequired
      OBVIOUS
    <3> QED
      BY <2>1, <2>2, <3>1, <3>2
  <2>3. CASE m # 0
    <3>1. m - 1 \in 0..PoolSize /\ m - 1 \notin Bad /\ m \in 0..PoolSize
      BY <2>1, <2>3
    <3>2. Remaining[m - 1] = known[m - 1]
      BY <3>1
    <3>3. step(Remaining)[m] = step(known)[m]
      BY <3>1, <3>2, <2>3
    <3>4. Remaining[m] = known[m]
      <4> HIDE DEF step, known
      <4> QED
        BY <1>1, <1>2, <3>3
    <3> QED
      BY <2>1, <3>4
  <2> QED
    BY <2>2, <2>3
<1>4. Remaining[i] = [s \in Scripts |-> IF WorkersRequired[s] > i THEN WorkersRequired[s] - i ELSE 0]
  BY <1>3 DEF Index
<1> QED
  BY <1>4 DEF InitScripts, Index

\* No more workers register a script than it allows.
LEMMA RegisteredWithin ==
  ASSUME NEW s \in Scripts, NEW P \in SUBSET Index, \A i \in P : s \in InitScripts(i)
  PROVE  IsFiniteSet(P) /\ Cardinality(P) <= WorkersRequired[s]
<1>1. WorkersRequired[s] \in Nat \ {0} /\ Index \subseteq Nat
  BY PoolSizeType DEF Index
<1>2. P \subseteq 0..(WorkersRequired[s] - 1)
  BY <1>1, ScriptsOfWorker
<1>3. /\ IsFiniteSet(0..(WorkersRequired[s] - 1))
      /\ Cardinality(0..(WorkersRequired[s] - 1)) = WorkersRequired[s]
  <2> DEFINE w == WorkersRequired[s]
  <2>1. w \in Nat /\ w > 0
    BY <1>1
  <2> HIDE DEF w
  <2>2. IsFiniteSet(0..(w - 1)) /\ Cardinality(0..(w - 1)) = w
    BY <2>1, FS_Interval
  <2> QED
    BY <2>2 DEF w
<1> QED
  BY <1>2, <1>3, FS_Subset

-----------------------------------------------------------------------------
(* The inductive invariant: who works on which batch.                      *)

Types ==
  /\ state \in [Index -> {"none", "boot", "poll", "after", "exited"} \cup Working]
  /\ job \in [Index -> Batches \cup {NoBatch}]
  /\ batch \in [Batches -> {"queued", "running", "answered", "failed", "lost"}]
  /\ row \in [Batches -> {"new", "started", "ended", "failed"}]

\* A worker has a batch exactly while it works; a batch runs exactly while one
\* worker has it; results are saved before the answer.
Owners ==
  /\ \A i \in Index : job[i] # NoBatch <=> state[i] \in Working
  /\ \A i \in Index : job[i] # NoBatch => batch[job[i]] = "running"
  /\ \A i, k \in Index : job[i] # NoBatch /\ job[i] = job[k] => i = k
  /\ \A b \in Batches : batch[b] = "running" => \E i \in Index : job[i] = b
  /\ \A i \in Index : state[i] = "reply" => row[job[i]] = "ended"

PoolInv == Types /\ Owners /\ AnsweredIsSaved

\* Initially nothing runs.
LEMMA PoolInit == Init => PoolInv
BY DEF Init, PoolInv, Types, Owners, AnsweredIsSaved, Working, NoBatch

\* New processes have no batch.
LEMMA StartKeeps ==
  ASSUME PoolInv, NEW S \in SUBSET Index, \A i \in S : state[i] \in {"none", "exited"},
         StartWorkers(S), UNCHANGED <<job, batch, row>>
  PROVE  PoolInv'
<1>1. state' = [i \in Index |-> IF i \in S THEN "boot" ELSE state[i]]
  BY DEF StartWorkers
<1>2. Types'
  BY <1>1 DEF PoolInv, Types
<1>3. \A i \in Index : state'[i] \in Working <=> state[i] \in Working
  BY <1>1 DEF Working
<1>4. \A i \in Index : state'[i] = "reply" => state[i] = "reply"
  BY <1>1
<1> QED
  BY <1>2, <1>3, <1>4 DEF PoolInv, Owners, AnsweredIsSaved

\* A step of one worker without a batch.
LEMMA IdleKeeps ==
  ASSUME PoolInv, NEW i \in Index, NEW s \in {"poll", "after", "exited"}, state[i] \notin Working,
         state' = [state EXCEPT ![i] = s], UNCHANGED <<job, batch, row>>
  PROVE  PoolInv'
<1>1. Types' /\ state'[i] = s /\ \A k \in Index : k # i => state'[k] = state[k]
  BY DEF PoolInv, Types
<1>2. \A k \in Index : state'[k] \in Working <=> state[k] \in Working
  BY <1>1 DEF Working
<1>3. \A k \in Index : state'[k] = "reply" => state[k] = "reply"
  BY <1>1
<1> QED
  BY <1>1, <1>2, <1>3 DEF PoolInv, Owners, AnsweredIsSaved

\* A step of one worker that goes on with its batch.
LEMMA WorkKeeps ==
  ASSUME PoolInv, NEW i \in Index, state[i] \in Working, NEW s \in {"call", "save", "reply"},
         state' = [state EXCEPT ![i] = s], UNCHANGED <<job, batch>>,
         NEW r \in {"new", "started", "ended", "failed"}, row' = [row EXCEPT ![job[i]] = r],
         s = "reply" => r = "ended"
  PROVE  PoolInv'
<1>1. job[i] \in Batches /\ batch[job[i]] = "running"
  BY DEF PoolInv, Types, Owners
<1>2. /\ Types' /\ state'[i] = s /\ row'[job[i]] = r
      /\ \A k \in Index : k # i => state'[k] = state[k]
      /\ \A b \in Batches : b # job[i] => row'[b] = row[b]
  BY <1>1 DEF PoolInv, Types, Working
<1>3. \A k \in Index : k # i /\ state[k] = "reply" => job[k] \in Batches /\ job[k] # job[i]
  BY DEF PoolInv, Types, Owners, Working
<1>4. Owners'
  BY <1>1, <1>2, <1>3 DEF PoolInv, Owners, Working
<1>5. AnsweredIsSaved'
  BY <1>1, <1>2 DEF PoolInv, AnsweredIsSaved
<1> QED
  BY <1>2, <1>4, <1>5 DEF PoolInv

\* A worker gives up its batch, which then has another status.
LEMMA LeaveKeeps ==
  ASSUME PoolInv, NEW i \in Index, state[i] \in Working, NEW s \in {"after", "exited"},
         state' = [state EXCEPT ![i] = s], job' = [job EXCEPT ![i] = NoBatch],
         NEW v \in {"queued", "answered", "failed", "lost"}, batch' = [batch EXCEPT ![job[i]] = v],
         NEW r \in {"new", "started", "ended", "failed"}, row' = [row EXCEPT ![job[i]] = r],
         v = "answered" => r = "ended"
  PROVE  PoolInv'
<1>1. job[i] \in Batches /\ batch[job[i]] = "running"
  BY DEF PoolInv, Types, Owners
<1>2. /\ Types' /\ state'[i] = s /\ row'[job[i]] = r /\ batch'[job[i]] = v /\ job'[i] = NoBatch
      /\ \A k \in Index : k # i => state'[k] = state[k] /\ job'[k] = job[k]
      /\ \A b \in Batches : b # job[i] => row'[b] = row[b] /\ batch'[b] = batch[b]
  BY <1>1 DEF PoolInv, Types
<1>3. \A k \in Index : k # i /\ job[k] # NoBatch => job[k] \in Batches /\ job[k] # job[i]
  BY DEF PoolInv, Types, Owners
<1>4. Owners'
  <2>1. \A k \in Index : job'[k] # NoBatch <=> state'[k] \in Working
    BY <1>2 DEF PoolInv, Owners, Working
  <2>2. \A k \in Index : job'[k] # NoBatch => batch'[job'[k]] = "running"
    BY <1>2, <1>3 DEF PoolInv, Owners
  <2>3. \A j, k \in Index : job'[j] # NoBatch /\ job'[j] = job'[k] => j = k
    BY <1>2 DEF PoolInv, Owners
  <2>4. ASSUME NEW b \in Batches, batch'[b] = "running" PROVE \E k \in Index : job'[k] = b
    <3>1. b # job[i] /\ batch[b] = "running"
      BY <1>2, <2>4
    <3>2. PICK k \in Index : job[k] = b
      BY <3>1 DEF PoolInv, Owners
    <3> QED
      BY <1>2, <3>1, <3>2
  <2>5. \A k \in Index : state'[k] = "reply" => row'[job'[k]] = "ended"
    BY <1>2, <1>3 DEF PoolInv, Owners, Working
  <2> QED
    BY <2>1, <2>2, <2>3, <2>4, <2>5 DEF Owners
<1>5. AnsweredIsSaved'
  BY <1>1, <1>2 DEF PoolInv, AnsweredIsSaved
<1> QED
  BY <1>2, <1>4, <1>5 DEF PoolInv

\* What pool.stop does to a worker: one that goes on keeps its batch, and no
\* batch is answered.
LEMMA TerminatedIs ==
  ASSUME PoolInv, NEW i \in Index, Alive(i), NEW o \in Terminated(i)
  PROVE  /\ o[1] \in {"exited", "after", "call"}
         /\ o[1] = "call" => state[i] = "call" /\ job[i] # NoBatch /\ o[2] = "running"
         /\ job[i] # NoBatch => /\ o[2] \in {"queued", "lost", "failed", "running"}
                                /\ o[2] = "running" <=> o[1] = "call"
                                /\ o[3] \in {"new", "started", "ended", "failed"}
<1>1. CASE job[i] = NoBatch
  <2>1. o = <<"exited", "", "">>
    BY <1>1 DEF Terminated
  <2> QED
    BY <1>1, <2>1
<1>2. CASE job[i] # NoBatch
  <2>1. row[job[i]] \in {"new", "started", "ended", "failed"}
    BY <1>2 DEF PoolInv, Types
  <2>2. CASE ~inherits[i]
    BY <1>2, <2>1, <2>2 DEF Terminated, Dropped
  <2>3. CASE inherits[i] /\ state[i] = "call"
    <3>1. o = <<"call", "running", row[job[i]]>> \/ o = <<"after", "failed", "failed">>
      BY <1>2, <2>3 DEF Terminated
    <3> QED
      BY <1>2, <2>1, <2>3, <3>1
  <2>4. CASE inherits[i] /\ state[i] # "call"
    BY <1>2, <2>1, <2>4 DEF Terminated
  <2> QED
    BY <2>2, <2>3, <2>4
<1> QED
  BY <1>1, <1>2

\* pool.stop terminates all the workers at once.
LEMMA TerminateKeeps ==
  ASSUME PoolInv, StopTerminate
  PROVE  PoolInv'
<1> DEFINE hit == {i \in Index : Alive(i)}
           of(b) == {i \in hit : job[i] = b}
<1>1. PICK out :
        /\ \A i \in Index : out[i] \in Terminated(i)
        /\ state' = [i \in Index |-> IF i \in hit THEN out[i][1] ELSE state[i]]
        /\ job' = [i \in Index |-> IF i \in hit /\ out[i][1] # "call" THEN NoBatch ELSE job[i]]
        /\ batch' = [b \in Batches |->
                       IF of(b) = {} THEN batch[b] ELSE out[CHOOSE i \in of(b) : TRUE][2]]
        /\ row' = [b \in Batches |->
                     IF of(b) = {} THEN row[b] ELSE out[CHOOSE i \in of(b) : TRUE][3]]
  BY DEF StopTerminate
<1>2. \A i \in Index : job[i] # NoBatch => i \in hit /\ job[i] \in Batches
  BY DEF PoolInv, Owners, Types, Alive, Working
<1>3. ASSUME NEW i \in Index, job[i] # NoBatch
      PROVE  of(job[i]) = {i} /\ (CHOOSE k \in of(job[i]) : TRUE) = i
  BY <1>2, <1>3 DEF PoolInv, Owners
<1>4. ASSUME NEW i \in hit
      PROVE  /\ out[i][1] \in {"exited", "after", "call"}
             /\ out[i][1] = "call" => state[i] = "call" /\ job[i] # NoBatch /\ out[i][2] = "running"
             /\ job[i] # NoBatch => /\ out[i][2] \in {"queued", "lost", "failed", "running"}
                                    /\ out[i][2] = "running" <=> out[i][1] = "call"
                                    /\ out[i][3] \in {"new", "started", "ended", "failed"}
  BY <1>1, TerminatedIs
<1>5. ASSUME NEW i \in Index, job[i] # NoBatch
      PROVE  batch'[job[i]] = out[i][2] /\ row'[job[i]] = out[i][3]
  BY <1>1, <1>2, <1>3, <1>5
<1>6. ASSUME NEW b \in Batches, \A i \in Index : job[i] # b
      PROVE  batch'[b] = batch[b] /\ row'[b] = row[b] /\ batch[b] # "running"
  BY <1>1, <1>6 DEF PoolInv, Owners
<1>7. ASSUME NEW b \in Batches
      PROVE  (\E i \in Index : job[i] = b /\ job[i] # NoBatch) \/ (\A i \in Index : job[i] # b)
  BY WorkerPoolAssumption DEF NoBatch
<1>8. \A i \in Index : IF i \in hit THEN state'[i] = out[i][1] ELSE state'[i] = state[i] /\ state[i] \in {"none", "exited"}
  BY <1>1 DEF Alive
<1>9. \A i \in Index : job'[i] = IF i \in hit /\ out[i][1] # "call" THEN NoBatch ELSE job[i]
  BY <1>1
<1> HIDE DEF hit, of
<1>10. Types'
  <2>1. state' \in [Index -> {"none", "boot", "poll", "after", "exited"} \cup Working]
    BY <1>1, <1>4, <1>8 DEF Working
  <2>2. job' \in [Index -> Batches \cup {NoBatch}]
    BY <1>1 DEF PoolInv, Types
  <2>3. ASSUME NEW b \in Batches
        PROVE  /\ batch'[b] \in {"queued", "running", "answered", "failed", "lost"}
               /\ row'[b] \in {"new", "started", "ended", "failed"}
    BY <1>2, <1>4, <1>5, <1>6, <1>7 DEF PoolInv, Types
  <2> QED
    BY <1>1, <2>1, <2>2, <2>3 DEF Types
<1>11. Owners'
  <2>1. \A i \in Index : job'[i] # NoBatch <=> state'[i] \in Working
    BY <1>2, <1>4, <1>8, <1>9 DEF Working
  <2>2. \A i \in Index : job'[i] # NoBatch => job'[i] = job[i] /\ i \in hit /\ out[i][1] = "call"
    BY <1>2, <1>9
  <2>3. \A i \in Index : job'[i] # NoBatch => batch'[job'[i]] = "running"
    BY <2>2, <1>4, <1>5
  <2>4. \A i, k \in Index : job'[i] # NoBatch /\ job'[i] = job'[k] => i = k
    BY <2>2 DEF PoolInv, Owners
  <2>5. ASSUME NEW b \in Batches, batch'[b] = "running" PROVE \E i \in Index : job'[i] = b
    <3>1. PICK i \in Index : job[i] = b /\ job[i] # NoBatch
      BY <2>5, <1>6, <1>7
    <3>2. i \in hit /\ out[i][1] = "call"
      BY <2>5, <3>1, <1>2, <1>4, <1>5
    <3> QED
      BY <3>1, <3>2, <1>9
  <2>6. \A i \in Index : state'[i] # "reply"
    BY <1>4, <1>8
  <2> QED
    BY <2>1, <2>3, <2>4, <2>5, <2>6 DEF Owners
<1>12. AnsweredIsSaved'
  BY <1>2, <1>4, <1>5, <1>6, <1>7 DEF PoolInv, AnsweredIsSaved
<1> QED
  BY <1>10, <1>11, <1>12 DEF PoolInv

\* Every step of the parent, its maintenance thread and the workers keeps it.
LEMMA PoolStep ==
  ASSUME PoolInv, [Next]_vars
  PROVE  PoolInv'
<1> USE WorkerPoolAssumption
<1>0. ASSUME UNCHANGED <<proc, batch, row>> PROVE PoolInv'
  BY <1>0 DEF proc, PoolInv, Types, Owners, AnsweredIsSaved
<1>1. CASE StartOne
  BY <1>1, StartKeeps DEF StartOne
<1>2. CASE \/ StartThread \/ Install \/ Pause \/ Signal \/ StopSet \/ StopJoinThread \/ StopMark \/ Exit
           \/ MaintainCheck \/ Stopped \/ UNCHANGED vars
  <2>1. UNCHANGED <<proc, batch, row>>
    BY <1>2
    DEF StartThread, Install, Pause, Signal, StopSet, StopJoinThread, StopMark, Exit, MaintainCheck,
        Stopped, vars
  <2> QED
    BY <1>0, <2>1
<1>3. CASE StopTerminate
  BY <1>3, TerminateKeeps
<1>4. CASE RestartExited
  BY <1>4, StartKeeps DEF RestartExited
<1>5. ASSUME NEW i \in Index, Register(i) \/ PollNothing(i) \/ AfterPoll(i)
      PROVE  PoolInv'
  <2>1. state[i] \notin Working
    BY <1>5 DEF Register, PollNothing, AfterPoll, Working
  <2>2. PICK s \in {"poll", "after", "exited"} : state' = [state EXCEPT ![i] = s]
    BY <1>5 DEF Register, PollNothing, AfterPoll, To
  <2>3. UNCHANGED <<job, batch, row>>
    BY <1>5 DEF Register, PollNothing, AfterPoll
  <2> QED
    BY <2>1, <2>2, <2>3, IdleKeeps
<1>6. ASSUME NEW i \in Index, NEW b \in Batches, Grab(i, b)
      PROVE  PoolInv'
  <2>1. /\ state[i] = "poll" /\ batch[b] = "queued" /\ row' = row
        /\ state' = [state EXCEPT ![i] = "begin"] /\ job' = [job EXCEPT ![i] = b]
        /\ batch' = [batch EXCEPT ![b] = "running"]
    BY <1>6 DEF Grab, To
  <2>2. job[i] = NoBatch /\ b # NoBatch /\ \A k \in Index : job[k] # b
    BY <2>1 DEF PoolInv, Owners, NoBatch, Working
  <2>3. /\ state'[i] = "begin" /\ job'[i] = b /\ batch'[b] = "running"
        /\ \A k \in Index : k # i => state'[k] = state[k] /\ job'[k] = job[k]
        /\ \A c \in Batches : c # b => batch'[c] = batch[c]
    BY <2>1 DEF PoolInv, Types
  <2>4. Types'
    BY <2>1 DEF PoolInv, Types, Working
  <2>5. \A c \in Batches : batch[c] = "running" => \E k \in Index : k # i /\ job[k] = c
    BY <2>1, <2>2 DEF PoolInv, Owners, NoBatch
  <2>6. Owners'
    <3>1. \A k \in Index : job'[k] # NoBatch <=> state'[k] \in Working
      BY <2>2, <2>3 DEF PoolInv, Owners, Working
    <3>2. \A k \in Index : job'[k] # NoBatch => batch'[job'[k]] = "running"
      BY <2>2, <2>3 DEF PoolInv, Owners, Types
    <3>3. \A j, k \in Index : job'[j] # NoBatch /\ job'[j] = job'[k] => j = k
      BY <2>2, <2>3 DEF PoolInv, Owners
    <3>4. \A c \in Batches : batch'[c] = "running" => \E k \in Index : job'[k] = c
      BY <2>3, <2>5
    <3>5. \A k \in Index : state'[k] = "reply" => row'[job'[k]] = "ended"
      BY <2>1, <2>3 DEF PoolInv, Owners
    <3> QED
      BY <3>1, <3>2, <3>3, <3>4, <3>5 DEF Owners
  <2>7. AnsweredIsSaved'
    BY <2>1, <2>3 DEF PoolInv, AnsweredIsSaved
  <2> QED
    BY <2>4, <2>6, <2>7 DEF PoolInv
<1>w. ASSUME NEW i \in Index, state[i] \in Working
      PROVE  job[i] \in Batches /\ row[job[i]] \in {"new", "started", "ended", "failed"}
  BY <1>w DEF PoolInv, Owners, Types
<1>7. ASSUME NEW i \in Index, SetStartTimes(i) \/ CallReturns(i) \/ UpdateTaskStatus(i)
      PROVE  PoolInv'
  <2>1. state[i] \in Working /\ UNCHANGED <<job, batch>>
    BY <1>7 DEF SetStartTimes, CallReturns, UpdateTaskStatus, Working
  <2>2. CASE SetStartTimes(i)
    <3>1. PICK r \in {"new", "started", "ended", "failed"} : row' = [row EXCEPT ![job[i]] = r]
      BY <2>1, <2>2, <1>w DEF SetStartTimes, PoolInv, Types
    <3> QED
      BY <2>1, <2>2, <3>1, WorkKeeps DEF SetStartTimes, To
  <2>3. CASE CallReturns(i)
    <3>1. row' = [row EXCEPT ![job[i]] = row[job[i]]]
      BY <2>1, <2>3, <1>w DEF CallReturns, PoolInv, Types
    <3> QED
      BY <2>1, <2>3, <3>1, <1>w, WorkKeeps DEF CallReturns, To
  <2>4. CASE UpdateTaskStatus(i)
    BY <2>1, <2>4, WorkKeeps DEF UpdateTaskStatus, To
  <2> QED
    BY <1>7, <2>2, <2>3, <2>4
<1>8. ASSUME NEW i \in Index, CallRaises(i)
      PROVE  PoolInv'
  BY <1>8, LeaveKeeps DEF CallRaises, To, Working
<1>9. ASSUME NEW i \in Index, Reply(i)
      PROVE  PoolInv'
  <2>1. state[i] = "reply" /\ state[i] \in Working /\ row[job[i]] = "ended"
    BY <1>9 DEF Reply, PoolInv, Owners, Working
  <2>2. row' = [row EXCEPT ![job[i]] = "ended"]
    BY <1>9, <2>1, <1>w DEF Reply, PoolInv, Types
  <2> QED
    BY <1>9, <2>1, <2>2, LeaveKeeps DEF Reply, To
<1>10. ASSUME NEW i \in Index, Crash(i)
       PROVE  PoolInv'
  <2>1. state' = [state EXCEPT ![i] = "exited"] /\ job' = [job EXCEPT ![i] = NoBatch] /\ row' = row
    BY <1>10 DEF Crash, To
  <2>2. CASE job[i] = NoBatch
    <3>1. job' = job /\ state[i] \notin Working /\ batch' = batch
      BY <1>10, <2>1, <2>2 DEF Crash, PoolInv, Types, Owners
    <3> QED
      BY <2>1, <3>1, IdleKeeps
  <2>3. CASE job[i] # NoBatch
    <3>1. state[i] \in Working
      BY <2>3 DEF PoolInv, Owners
    <3>2. PICK d \in Dropped : batch' = [batch EXCEPT ![job[i]] = d]
      BY <1>10, <2>3 DEF Crash
    <3>3. row' = [row EXCEPT ![job[i]] = row[job[i]]]
      BY <2>1, <3>1, <1>w DEF PoolInv, Types
    <3> QED
      BY <2>1, <3>1, <3>2, <3>3, <1>w, LeaveKeeps DEF Dropped
  <2> QED
    BY <2>2, <2>3
<1> QED
  BY <1>1, <1>2, <1>3, <1>4, <1>5, <1>6, <1>7, <1>8, <1>9, <1>10
  DEF Next, Main, Maintain, Serve, Poll

\* Who works on which batch is known throughout.
LEMMA PoolAlways == Spec => []PoolInv
<1>1. PoolInv /\ [Next]_vars => PoolInv'
  BY PoolStep
<1> QED
  BY PoolInit, <1>1, PTL DEF Spec

\* Whatever the number of workers and however they crash, are recycled and
\* replaced, no more processes serve a script than it allows, and a batch that
\* runs has exactly one worker ("Only one process in the pool will handle tasks
\* unless marked as safe for concurrent instances", pool.py).
THEOREM PoolWithinConcurrency == Spec => []WithinConcurrency
<1>1. PoolInv => WithinConcurrency
  <2> SUFFICES ASSUME PoolInv PROVE WithinConcurrency
    OBVIOUS
  <2>1. ASSUME NEW s \in Scripts
        PROVE  Cardinality({i \in Index : Alive(i) /\ s \in InitScripts(i)}) <= WorkersRequired[s]
    BY RegisteredWithin
  <2>2. ASSUME NEW b \in Batches
        PROVE  Cardinality({i \in Index : job[i] = b}) = IF batch[b] = "running" THEN 1 ELSE 0
    <3>0. b # NoBatch
      BY WorkerPoolAssumption DEF NoBatch
    <3>1. CASE batch[b] = "running"
      <4>1. PICK i \in Index : job[i] = b
        BY <3>1 DEF PoolInv, Owners
      <4>2. {k \in Index : job[k] = b} = {i}
        BY <3>0, <4>1 DEF PoolInv, Owners
      <4> QED
        BY <3>1, <4>2, FS_Singleton
    <3>2. CASE batch[b] # "running"
      <4>1. {k \in Index : job[k] = b} = {}
        BY <3>0, <3>2 DEF PoolInv, Owners
      <4> QED
        BY <3>2, <4>1, FS_EmptySet
    <3> QED
      BY <3>1, <3>2
  <2> QED
    BY <2>1, <2>2 DEF WithinConcurrency
<1> QED
  BY PoolAlways, <1>1, PTL

\* A batch that was answered has its results in the Tasks table (run_task
\* saves before handle_job returns), also after its worker was terminated or
\* vanished and it was handed out again.
THEOREM AnsweredSaved == Spec => []AnsweredIsSaved
<1>1. PoolInv => AnsweredIsSaved
  BY DEF PoolInv
<1> QED
  BY PoolAlways, <1>1, PTL

-----------------------------------------------------------------------------
(* Types: how deep handlers nest and how many batches a process takes.     *)

MainPoints == {"start", "install", "ready", "paused", "atexit", "gone", "killed"}

\* Below is main, above it one stop for each signal that has not returned.
Frames ==
  /\ frames \in Seq(MainPoints \cup StopPoints)
  /\ Len(frames) \in 1..(1 + signals)
  /\ frames[1] \in MainPoints
  /\ \A k \in 2..Len(frames) : frames[k] \in StopPoints
  /\ signals \in 0..MaxSignals

Answered == {b \in Batches : batch[b] = "answered"}

\* A process counts batches that were answered, and has not reached its number
\* as long as it may ask for another one.
Counts ==
  /\ processed \in [Index -> Nat]
  /\ \A i \in Index : processed[i] <= Cardinality(Answered)
  /\ MaxTasks > 0 =>
       \A i \in Index :
         /\ processed[i] <= MaxTasks
         /\ state[i] \in {"boot", "poll"} \cup Working => processed[i] < MaxTasks

Rest ==
  /\ thread \in {"none", "check", "scan", "sleep", "done"}
  /\ shutdown \in BOOLEAN
  /\ inherits \in [Index -> BOOLEAN]
  /\ files \in [Index -> Nat]
  /\ crashes \in 0..MaxCrashes

\* The main thread is in main or in the handler of a signal that was counted.
LEMMA FramesStep ==
  ASSUME Frames, [Next]_vars
  PROVE  Frames'
<1> USE WorkerPoolAssumption
<1>0. /\ Len(frames) \in Nat /\ Len(frames) >= 1 /\ frames \in Seq(MainPoints \cup StopPoints)
      /\ signals \in Nat /\ signals <= MaxSignals /\ Len(frames) <= 1 + signals
  BY DEF Frames
<1>1. CASE UNCHANGED <<frames, signals>>
  BY <1>1 DEF Frames
<1>2. ASSUME NEW at, Goto(at), signals' = signals,
             \/ Len(frames) = 1 /\ at \in MainPoints
             \/ Top \in StopPoints /\ at \in StopPoints
      PROVE  Frames'
  <2>1. frames' = [frames EXCEPT ![Len(frames)] = at] /\ at \in MainPoints \cup StopPoints
    BY <1>2 DEF Goto
  <2>2. frames' \in Seq(MainPoints \cup StopPoints) /\ Len(frames') = Len(frames)
    BY <1>0, <2>1
  <2>3. \A k \in 1..Len(frames) : frames'[k] = IF k = Len(frames) THEN at ELSE frames[k]
    BY <1>0, <2>1
  <2>4. Top \in StopPoints => Len(frames) # 1
    BY DEF Frames, Top, StopPoints, MainPoints
  <2>5. frames'[1] \in MainPoints
    <3>1. CASE Len(frames) = 1
      BY <1>2, <2>3, <2>4, <3>1
    <3>2. CASE Len(frames) # 1
      <4>1. 1 \in 1..Len(frames)
        BY <1>0
      <4>2. frames'[1] = frames[1]
        BY <2>3, <3>2, <4>1
      <4> QED
        BY <4>2 DEF Frames
    <3> QED
      BY <3>1, <3>2
  <2>6. \A k \in 2..Len(frames') : frames'[k] \in StopPoints
    BY <1>0, <1>2, <2>2, <2>3, <2>4 DEF Frames
  <2> QED
    BY <1>0, <1>2, <2>2, <2>5, <2>6 DEF Frames
<1>3. CASE StartThread \/ Install \/ Pause \/ Exit
  <2>1. Len(frames) = 1 /\ signals' = signals
    BY <1>3 DEF StartThread, Install, Pause, Exit
  <2>2. \E at \in MainPoints : Goto(at)
    BY <1>3 DEF StartThread, Install, Pause, Exit, MainPoints
  <2> QED
    BY <1>2, <2>1, <2>2
<1>4. CASE StopSet \/ StopJoinThread \/ StopTerminate
  <2>1. Top \in StopPoints /\ signals' = signals
    BY <1>4 DEF StopSet, StopJoinThread, StopTerminate, StopPoints
  <2>2. \E at \in StopPoints : Goto(at)
    BY <1>4 DEF StopSet, StopJoinThread, StopTerminate, StopPoints
  <2> QED
    BY <1>2, <2>1, <2>2
<1>5. CASE Signal
  <2>1. signals' = signals + 1 /\ signals' \in 0..MaxSignals
    BY <1>0, <1>5 DEF Signal
  <2>2. CASE HandlersSet
    <3>1. frames' = Append(frames, "set")
      BY <1>5, <2>2 DEF Signal
    <3>2. /\ frames' \in Seq(MainPoints \cup StopPoints) /\ Len(frames') = Len(frames) + 1
          /\ \A k \in 1..Len(frames) : frames'[k] = frames[k]
          /\ frames'[Len(frames) + 1] = "set"
      BY <1>0, <3>1 DEF StopPoints
    <3>3. \A k \in 2..Len(frames') : frames'[k] \in StopPoints
      BY <1>0, <3>2 DEF Frames, StopPoints
    <3> QED
      BY <1>0, <2>1, <3>2, <3>3 DEF Frames
  <2>3. CASE ~HandlersSet
    <3>1. frames' = <<"killed">>
      BY <1>5, <2>3 DEF Signal
    <3> QED
      BY <1>0, <2>1, <3>1 DEF Frames, MainPoints
  <2> QED
    BY <2>2, <2>3
<1>6. CASE StopMark
  <2>1. Len(frames) # 1 /\ signals' = signals
    BY <1>6 DEF StopMark, Top, Frames, MainPoints
  <2>2. /\ Front(frames) \in Seq(MainPoints \cup StopPoints) /\ Len(Front(frames)) = Len(frames) - 1
        /\ \A k \in 1..(Len(frames) - 1) : Front(frames)[k] = frames[k]
    <3>1. \A k \in 1..(Len(frames) - 1) : frames[k] \in MainPoints \cup StopPoints
      BY <1>0
    <3>0. Front(frames) = SubSeq(frames, 1, Len(frames) - 1)
      BY DEF Front
    <3>n. \A n \in Nat : n >= 1 /\ n # 1 => n - 1 \in Int /\ 1 <= n - 1
      OBVIOUS
    <3>2. Len(frames) - 1 \in Int /\ 1 <= Len(frames) - 1
      BY <1>0, <2>1, <3>n
    <3>3. /\ Front(frames) \in Seq(MainPoints \cup StopPoints)
          /\ Len(Front(frames)) = (Len(frames) - 1) - 1 + 1
          /\ \A k \in 1..((Len(frames) - 1) - 1 + 1) : Front(frames)[k] = frames[1 + k - 1]
      BY <3>0, <3>1, <3>2, SubSeqProperties
    <3>4. \A k \in 1..(Len(frames) - 1) : k \in 1..((Len(frames) - 1) - 1 + 1) /\ 1 + k - 1 = k
      BY <1>0
    <3> QED
      BY <1>0, <3>3, <3>4
  <2>3. CASE frames' = Front(frames)
    <3>1. ASSUME NEW k \in 2..Len(frames') PROVE frames'[k] \in StopPoints
      <4>1. k \in 1..(Len(frames) - 1) /\ k \in 2..Len(frames)
        BY <1>0, <2>2, <2>3, <3>1
      <4>2. frames[k] \in StopPoints
        BY <4>1 DEF Frames
      <4> QED
        BY <2>2, <2>3, <4>1, <4>2
    <3>2. frames'[1] \in MainPoints
      BY <1>0, <2>1, <2>2, <2>3 DEF Frames
    <3> QED
      BY <1>0, <2>1, <2>2, <2>3, <3>1, <3>2 DEF Frames
  <2>4. CASE frames' = <<"atexit">>
    BY <1>0, <2>1, <2>4 DEF Frames, MainPoints
  <2> QED
    BY <1>6, <2>3, <2>4 DEF StopMark
<1> QED
  BY <1>1, <1>3, <1>4, <1>5, <1>6
  DEF Next, Main, Maintain, Serve, Poll, StartOne, MaintainCheck, RestartExited, Stopped, Register, PollNothing,
      AfterPoll, Grab, SetStartTimes, CallReturns, CallRaises, UpdateTaskStatus, Reply, Crash, vars

\* A batch becomes answered by a reply, and stays so.
LEMMA AnsweredStays ==
  ASSUME PoolInv, [Next]_vars, \A i \in Index : ~Reply(i)
  PROVE  Answered' = Answered
<1> USE WorkerPoolAssumption
<1>1. CASE UNCHANGED batch
  BY <1>1 DEF Answered
<1>2. ASSUME NEW b \in Batches, NEW v, batch' = [batch EXCEPT ![b] = v], batch[b] # "answered", v # "answered"
      PROVE  Answered' = Answered
  BY <1>2 DEF Answered, PoolInv, Types
<1>3. \A i \in Index : job[i] # NoBatch => job[i] \in Batches /\ batch[job[i]] = "running"
  BY DEF PoolInv, Types, Owners
<1>4. ASSUME NEW i \in Index, NEW b \in Batches, Grab(i, b)
      PROVE  Answered' = Answered
  BY <1>2, <1>4 DEF Grab
<1>5. ASSUME NEW i \in Index, CallRaises(i)
      PROVE  Answered' = Answered
  <2>1. job[i] # NoBatch
    BY <1>5 DEF CallRaises, PoolInv, Owners, Working
  <2> QED
    BY <1>2, <1>3, <1>5, <2>1 DEF CallRaises
<1>6. ASSUME NEW i \in Index, Crash(i)
      PROVE  Answered' = Answered
  <2>1. CASE job[i] = NoBatch
    BY <1>1, <1>6, <2>1 DEF Crash
  <2>2. CASE job[i] # NoBatch
    <3>1. PICK d \in Dropped : batch' = [batch EXCEPT ![job[i]] = d]
      BY <1>6, <2>2 DEF Crash
    <3>2. job[i] \in Batches /\ batch[job[i]] # "answered" /\ d # "answered"
      BY <1>3, <2>2 DEF Dropped
    <3> QED
      BY <1>2, <3>1, <3>2
  <2> QED
    BY <2>1, <2>2
<1>7. CASE StopTerminate
  <2> DEFINE hit == {i \in Index : Alive(i)}
             of(b) == {i \in hit : job[i] = b}
  <2>1. PICK out :
          /\ \A i \in Index : out[i] \in Terminated(i)
          /\ batch' = [b \in Batches |->
                         IF of(b) = {} THEN batch[b] ELSE out[CHOOSE i \in of(b) : TRUE][2]]
    BY <1>7 DEF StopTerminate
  <2>2. ASSUME NEW b \in Batches PROVE batch'[b] = "answered" <=> batch[b] = "answered"
    <3>1. CASE of(b) = {}
      BY <2>1, <3>1
    <3>2. CASE of(b) # {}
      <4> DEFINE k == CHOOSE i \in of(b) : TRUE
      <4>1. k \in Index /\ Alive(k) /\ job[k] = b /\ job[k] # NoBatch
        BY <3>2 DEF NoBatch
      <4>2. batch'[b] = out[k][2] /\ out[k] \in Terminated(k)
        BY <2>1, <3>2, <4>1
      <4> HIDE DEF k
      <4>3. out[k][2] # "answered"
        BY <4>1, <4>2, TerminatedIs
      <4> QED
        BY <1>3, <4>1, <4>2, <4>3
    <3> QED
      BY <3>1, <3>2
  <2> QED
    BY <2>2 DEF Answered
<1> QED
  BY <1>1, <1>4, <1>5, <1>6, <1>7
  DEF Next, Main, Maintain, Serve, Poll, StartOne, StartThread, Install, Pause, Signal, StopSet, StopJoinThread,
      StopMark, Exit, MaintainCheck, RestartExited, Stopped, Register, PollNothing, AfterPoll, SetStartTimes,
      CallReturns, UpdateTaskStatus, vars

\* A reply adds its batch.
LEMMA AnsweredAfterReply ==
  ASSUME PoolInv, NEW i \in Index, Reply(i)
  PROVE  Cardinality(Answered') = Cardinality(Answered) + 1
<1>1. job[i] \in Batches /\ batch[job[i]] = "running"
  BY DEF Reply, PoolInv, Types, Owners, Working
<1>2. Answered' = Answered \cup {job[i]} /\ job[i] \notin Answered
  BY <1>1 DEF Reply, PoolInv, Types, Answered
<1>3. IsFiniteSet(Answered)
  BY WorkerPoolAssumption, FS_Subset DEF Answered
<1> QED
  BY <1>2, <1>3, FS_AddElement

\* A process that has answered max_tasks_per_child batches asks for no more.
LEMMA CountsStep ==
  ASSUME PoolInv, Counts, [Next]_vars
  PROVE  Counts'
<1> USE WorkerPoolAssumption
<1>0. Cardinality(Answered) \in Nat
  <2>1. IsFiniteSet(Answered)
    BY FS_Subset DEF Answered
  <2> QED
    BY <2>1, FS_CardinalityType
<1>1. ASSUME Answered' = Answered, processed' \in [Index -> Nat],
             \A i \in Index : \/ processed'[i] = 0
                              \/ /\ processed'[i] = processed[i]
                                 /\ state'[i] \in {"boot", "poll"} \cup Working =>
                                      \/ state[i] \in {"boot", "poll"} \cup Working
                                      \/ MaxTasks > 0 => processed[i] < MaxTasks
      PROVE  Counts'
  BY <1>0, <1>1 DEF Counts
<1>2. ASSUME NEW S \in SUBSET Index, StartWorkers(S), Answered' = Answered
      PROVE  Counts'
  <2>1. /\ processed' = [i \in Index |-> IF i \in S THEN 0 ELSE processed[i]]
        /\ state' = [i \in Index |-> IF i \in S THEN "boot" ELSE state[i]]
    BY <1>2 DEF StartWorkers
  <2>2. processed' \in [Index -> Nat]
    BY <2>1 DEF Counts
  <2> QED
    BY <1>1, <1>2, <2>1, <2>2
<1>3. ASSUME NEW i \in Index, NEW s, state' = [state EXCEPT ![i] = s], processed' = processed, Answered' = Answered,
             s \in {"boot", "poll"} \cup Working =>
               \/ state[i] \in {"boot", "poll"} \cup Working
               \/ MaxTasks > 0 => processed[i] < MaxTasks
      PROVE  Counts'
  <2>1. state'[i] = s /\ \A k \in Index : k # i => state'[k] = state[k]
    BY <1>3 DEF PoolInv, Types
  <2> QED
    BY <1>1, <1>3, <2>1 DEF Counts
<1>4. ASSUME NEW i \in Index, Reply(i)
      PROVE  Counts'
  <2>1. /\ state[i] = "reply" /\ state'[i] = "after" /\ processed'[i] = processed[i] + 1
        /\ processed' \in [Index -> Nat]
        /\ \A k \in Index : k # i => state'[k] = state[k] /\ processed'[k] = processed[k]
    BY <1>4 DEF Reply, To, PoolInv, Types, Counts
  <2>2. Cardinality(Answered') = Cardinality(Answered) + 1
    BY <1>4, AnsweredAfterReply
  <2> QED
    BY <1>0, <2>1, <2>2 DEF Counts, Working
<1>5. CASE \A i \in Index : ~Reply(i)
  <2>0. Answered' = Answered
    BY <1>5, AnsweredStays
  <2>1. CASE UNCHANGED <<state, processed>>
    BY <1>1, <2>0, <2>1 DEF Counts
  <2>2. CASE StartOne \/ RestartExited
    BY <1>2, <2>0, <2>2 DEF StartOne, RestartExited
  <2>3. CASE StopTerminate
    <3>1. processed' = processed
      BY <2>3 DEF StopTerminate
    <3>2. ASSUME NEW i \in Index PROVE state'[i] \in {"exited", "after"} \/ state'[i] = state[i]
      <4>1. PICK out : /\ \A j \in Index : out[j] \in Terminated(j)
                       /\ state' = [j \in Index |-> IF j \in {m \in Index : Alive(m)} THEN out[j][1] ELSE state[j]]
        BY <2>3 DEF StopTerminate
      <4>2. CASE Alive(i)
        <5>1. state'[i] = out[i][1] /\ out[i] \in Terminated(i)
          BY <4>1, <4>2
        <5> QED
          BY <4>2, <5>1, TerminatedIs
      <4>3. CASE ~Alive(i)
        BY <4>1, <4>3
      <4> QED
        BY <4>2, <4>3
    <3> QED
      BY <1>1, <2>0, <3>1, <3>2 DEF Counts, Working
  <2>4. ASSUME NEW i \in Index, Register(i) \/ PollNothing(i) \/ SetStartTimes(i) \/ CallReturns(i) \/ CallRaises(i)
                                  \/ UpdateTaskStatus(i) \/ Crash(i) \/ (\E b \in Batches : Grab(i, b))
        PROVE  Counts'
    <3>1. processed' = processed /\ \E s \in {"poll", "after", "call", "save", "reply", "begin", "exited"} :
            state' = [state EXCEPT ![i] = s] /\ (s \in {"after", "exited"} \/ state[i] \in {"boot", "poll"} \cup Working)
      BY <2>4 DEF Register, PollNothing, SetStartTimes, CallReturns, CallRaises, UpdateTaskStatus, Crash, Grab, To, Working
    <3> QED
      BY <1>3, <2>0, <3>1 DEF Working
  <2>5. ASSUME NEW i \in Index, AfterPoll(i)
        PROVE  Counts'
    <3>1. processed[i] \in Nat /\ processed' = processed
      BY <2>5 DEF Counts, AfterPoll
    <3>2. CASE Leaves(i)
      BY <1>3, <2>0, <2>5, <3>1, <3>2 DEF AfterPoll, To, Working
    <3>3. CASE ~Leaves(i)
      <4>1. MaxTasks > 0 => processed[i] < MaxTasks
        BY <3>1, <3>3 DEF Leaves
      <4> QED
        BY <1>3, <2>0, <2>5, <3>1, <3>3, <4>1 DEF AfterPoll, To
    <3> QED
      BY <3>2, <3>3
  <2> QED
    BY <1>5, <2>1, <2>2, <2>3, <2>4, <2>5
    DEF Next, Main, Maintain, Serve, Poll, StartThread, Install, Pause, Signal, StopSet, StopJoinThread,
        StopMark, Exit, MaintainCheck, Stopped, vars, proc
<1> QED
  BY <1>4, <1>5

\* What does not depend on the others.
LEMMA RestStep ==
  ASSUME Rest, [Next]_vars
  PROVE  Rest'
<1> USE WorkerPoolAssumption
<1>1. thread' \in {"none", "check", "scan", "sleep", "done"}
  BY DEF Rest, Next, Main, Maintain, Serve, Poll, StartOne, StartThread, Install, Pause, Signal, StopSet,
         StopJoinThread, StopTerminate, StopMark, Exit, MaintainCheck, RestartExited, Stopped, Register, PollNothing,
         AfterPoll, Grab, SetStartTimes, CallReturns, CallRaises, UpdateTaskStatus, Reply, Crash, vars
<1>2. shutdown' = shutdown \/ shutdown' = TRUE
  BY DEF Next, Main, Maintain, Serve, Poll, StartOne, StartThread, Install, Pause, Signal, StopSet,
         StopJoinThread, StopTerminate, StopMark, Exit, MaintainCheck, RestartExited, Stopped, Register, PollNothing,
         AfterPoll, Grab, SetStartTimes, CallReturns, CallRaises, UpdateTaskStatus, Reply, Crash, vars
<1>3. inherits' = inherits \/ \E S \in SUBSET Index : StartWorkers(S)
  BY DEF Next, Main, Maintain, Serve, Poll, StartOne, StartThread, Install, Pause, Signal, StopSet,
         StopJoinThread, StopTerminate, StopMark, Exit, MaintainCheck, RestartExited, Stopped, Register, PollNothing,
         AfterPoll, Grab, SetStartTimes, CallReturns, CallRaises, UpdateTaskStatus, Reply, Crash, vars, proc
<1>4. ASSUME NEW S \in SUBSET Index, StartWorkers(S) PROVE inherits' \in [Index -> BOOLEAN]
  <2>1. inherits' = [i \in Index |-> IF i \in S THEN HandlersSet ELSE inherits[i]]
    BY <1>4 DEF StartWorkers
  <2>2. HandlersSet \in BOOLEAN
    BY DEF HandlersSet
  <2>3. \A i \in Index : inherits[i] \in BOOLEAN
    BY DEF Rest
  <2> QED
    BY <2>1, <2>2, <2>3, Zenon
<1>5. files' \in [Index -> Nat]
  <2>1. files' = files \/ StartOne \/ RestartExited \/ StopMark
    BY DEF Next, Main, Maintain, Serve, Poll, StartThread, Install, Pause, Signal, StopSet,
           StopJoinThread, StopTerminate, Exit, MaintainCheck, Stopped, Register, PollNothing,
           AfterPoll, Grab, SetStartTimes, CallReturns, CallRaises, UpdateTaskStatus, Reply, Crash, vars
  <2>2. CASE StartOne
    BY <2>2 DEF StartOne, Rest
  <2>3. CASE RestartExited
    BY <2>3 DEF RestartExited, Rest
  <2>4. CASE StopMark
    BY <2>4 DEF StopMark, Rest
  <2> QED
    BY <2>1, <2>2, <2>3, <2>4 DEF Rest
<1>6. crashes' \in 0..MaxCrashes
  <2>1. crashes' = crashes \/ \E i \in Index : Crash(i)
    BY DEF Next, Main, Maintain, Serve, Poll, StartOne, StartThread, Install, Pause, Signal, StopSet,
           StopJoinThread, StopTerminate, StopMark, Exit, MaintainCheck, RestartExited, Stopped, Register,
           PollNothing, AfterPoll, Grab, SetStartTimes, CallReturns, CallRaises, UpdateTaskStatus, Reply, vars
  <2> QED
    BY <2>1 DEF Rest, Crash
<1>7. shutdown' \in BOOLEAN /\ inherits' \in [Index -> BOOLEAN]
  BY <1>2, <1>3, <1>4, Zenon DEF Rest
<1> QED
  BY <1>1, <1>5, <1>6, <1>7 DEF Rest

\* The variables have their types: the handlers nest no deeper than signals
\* came (WorkerPool.stop, entered while it runs), and a worker process answers
\* at most max_tasks_per_child batches (after_poll), however it is terminated
\* and replaced.
THEOREM TypeCorrect == Spec => []TypeOK
<1> DEFINE Inv == PoolInv /\ Frames /\ Counts /\ Rest
<1>1. Init => Inv
  <2>1. SUFFICES ASSUME Init PROVE Frames /\ Counts /\ Rest
    BY PoolInit
  <2>2. Frames
    BY <2>1, WorkerPoolAssumption DEF Init, Frames, MainPoints
  <2>3. Counts
    <3>1. Answered = {}
      BY <2>1 DEF Init, Answered
    <3> QED
      BY <2>1, <3>1, WorkerPoolAssumption, FS_EmptySet DEF Init, Counts, Working
  <2>4. shutdown \in BOOLEAN /\ inherits \in [Index -> BOOLEAN]
    BY <2>1, Zenon DEF Init
  <2> QED
    BY <2>1, <2>2, <2>3, <2>4, WorkerPoolAssumption DEF Init, Rest
<1>2. Inv /\ [Next]_vars => Inv'
  BY PoolStep, FramesStep, CountsStep, RestStep
<1>3. Inv => TypeOK
  <2>1. SUFFICES ASSUME Inv PROVE TypeOK
    OBVIOUS
  <2>2. Cardinality(Answered) \in Nat /\ Cardinality(Answered) <= Cardinality(Batches) /\ Cardinality(Batches) \in Nat
    BY WorkerPoolAssumption, FS_Subset, FS_CardinalityType DEF Answered
  <2>3. processed \in [Index -> 0..(IF MaxTasks > 0 THEN MaxTasks ELSE Cardinality(Batches))]
    BY <2>1, <2>2, WorkerPoolAssumption DEF Counts
  <2>4. Len(frames) \in 1..(1 + MaxSignals) /\ signals \in 0..MaxSignals
    BY <2>1, WorkerPoolAssumption DEF Frames
  <2> QED
    BY <2>1, <2>3, <2>4 DEF TypeOK, PoolInv, Types, Frames, Rest, MainPoints
<1> QED
  BY <1>1, <1>2, <1>3, PTL DEF Spec
=============================================================================
