------------------------- MODULE JobIteratorProofs -------------------------
(***************************************************************************)
(* Proofs about JobIterator, for any workflow document, any number of      *)
(* iterators of the package and any number of crashes.                     *)
(*                                                                         *)
(* The inductive invariant says where the open rows of an iterator may be  *)
(* (RowsFollow), what a package that is done rests on (DoneHasTerminalJob) *)
(* and how far an interrupted clean-up has come (CleanSoFar).              *)
(***************************************************************************)
EXTENDS JobIterator, TLAPS

\* Rows beyond the current job do not exist and those before it are closed;
\* what the row of the current job may be depends on where the iterator is.
\* Only a server that is up has iterators at work.
Follows(i) ==
  /\ \A k \in 1..MaxJobs : /\ k > n[i] => row[<<i, k>>] = NoRow
                           /\ k < n[i] => row[<<i, k>>].step \notin Open
  /\ pc[i] \in {"run", "tasks", "ran", "await", "eof"} =>
       n[i] > 0 /\ row[Current(i)].link \in Links
  /\ pc[i] \in {"run", "tasks", "ran"} => row[Current(i)].step = "executing"
  /\ pc[i] = "await" => row[Current(i)].step = "awaiting"
  /\ pc[i] = "eof" => row[Current(i)].step \in {"complete", "failed"}
  /\ pc[i] = "idle" => n[i] = 0
  /\ pc[i] \in {"top", "body"} /\ n[i] > 0 => row[Current(i)].step \notin Open
  /\ pc[i] = "fail" /\ n[i] > 0 => row[Current(i)].step # "awaiting"
  /\ server # "up" => pc[i] \in {"idle", "stopped"}

RowsFollow == \A i \in Iterators : Follows(i)

\* What the statements of RemoveTransientData that have run have achieved.
CleanSoFar ==
  server = "clean" =>
    /\ stmt \in 1..6
    /\ stmt > 1 => \A k \in Keys : row[k].tasks # "null"
    /\ stmt > 2 /\ Table = "Transfers" => status \notin {"unknown", "processing"}
    /\ stmt > 4 => \A k \in Keys : row[k].step # "awaiting"
    /\ stmt > 5 /\ Table = "SIPs" => status \notin {"unknown", "processing"}

\* An entry of the workflow document names links, chains, variables and
\* statuses: what exitCodeLinkID and updateStatusFromExitCode return is one.
LEMMA LinkFacts ==
  ASSUME NEW l \in Links, NEW code \in Codes
  PROVE  /\ exitCodeLinkID(Link[l], code) \in Links \cup {Nil}
         /\ ExitLink(Link[l], code) \in Links \cup {Nil}
         /\ ExitStep(Link[l], code) \in {"complete", "failed"}
         /\ Link[l].target \in Links \cup {Nil}
         /\ Link[l].preset \in Chains \cup Links \cup {Nil, Unknown}
         /\ Link[l].choices \subseteq Chains
         /\ Link[l].var \in Vars
<1>1. Link[l] \in LinkType
  BY JobIteratorAssumption
<1>2. PICK S \in SUBSET Codes :
        Link[l].exits \in [S -> [link : Links \cup {Nil}, step : {"complete", "failed"}]]
  BY <1>1 DEF LinkType
<1> QED
  BY <1>1, <1>2 DEF LinkType, exitCodeLinkID, ExitLink, ExitStep

\* The key of the current job is a key of the Jobs table.
LEMMA CurrentKey ==
  ASSUME n \in [Iterators -> 0..MaxJobs], NEW i \in Iterators, n[i] > 0
  PROVE  Current(i) \in Keys /\ n[i] \in 1..MaxJobs
BY JobIteratorAssumption DEF Current, Keys

\* An iterator that runs a job has a row for it, of a link of the workflow.
LEMMA RunsALink ==
  ASSUME TypeOK, RowsFollow, NEW i \in Iterators,
         pc[i] \in {"run", "tasks", "ran", "await", "eof"}
  PROVE  /\ Current(i) \in Keys
         /\ row[Current(i)].link \in Links
         /\ CurrentLink(i) = Link[row[Current(i)].link]
BY CurrentKey DEF TypeOK, RowsFollow, Follows, CurrentLink

-----------------------------------------------------------------------------
(* Types.                                                                  *)

\* No step of the iterators, the workers or the server leaves the types.
LEMMA TypeStep ==
  ASSUME TypeOK, RowsFollow, [Next]_vars
  PROVE  TypeOK'
<1> USE JobIteratorAssumption
<1>1. ASSUME NEW i \in Iterators, Start(i) \/ BeforeJob(i)
      PROVE  TypeOK'
  <2>1. CASE Start(i)
    BY <2>1 DEF Start, Move, env, db, TypeOK
  <2>2. CASE \/ NextCancelled(i) \/ InitFails(i) \/ Continue(i) \/ EnterFails(i) \/ BuildFails(i)
             \/ SaveFails(i)
    BY <2>2
    DEF NextCancelled, InitFails, Continue, EnterFails, BuildFails, SaveFails, Move, env, db, TypeOK
  <2>3. CASE InitIterator(i)
    BY <2>3 DEF InitIterator, Move, env, TypeOK
  <2>4. CASE EnterChain(i)
    BY <2>4 DEF EnterChain, Move, env, db, TypeOK
  <2>5. CASE SaveJob(i)
    <3>1. <<i, n[i] + 1>> \in Keys /\ n[i] + 1 \in 0..MaxJobs
      BY <2>5 DEF SaveJob, Keys, TypeOK
    <3> QED
      BY <2>5, <3>1 DEF SaveJob, Builds, Move, env, TypeOK
  <2> QED
    BY <1>1, <2>1, <2>2, <2>3, <2>4, <2>5 DEF BeforeJob
<1>2. ASSUME NEW i \in Iterators, pc[i] \in {"run", "tasks", "ran"}, RunJob(i)
      PROVE  TypeOK'
  <2>r. Current(i) \in Keys /\ row[Current(i)].link \in Links
    BY <1>2, RunsALink
  <2>l. ASSUME NEW code \in Codes
        PROVE  /\ exitCodeLinkID(CurrentLink(i), code) \in Links \cup {Nil}
               /\ ExitLink(CurrentLink(i), code) \in Links \cup {Nil}
               /\ ExitStep(CurrentLink(i), code) \in {"complete", "failed"}
               /\ CurrentLink(i).target \in Links \cup {Nil}
               /\ CurrentLink(i).preset \in Chains \cup Links \cup {Nil, Unknown}
               /\ CurrentLink(i).var \in Vars
    BY <2>r, LinkFacts DEF CurrentLink
  <2>1. CASE RunSetUnitVar(i)
    BY <2>1, <2>l DEF RunSetUnitVar, Returns, Move, env, TypeOK
  <2>2. CASE RunSetUnitVarZero(i) \/ RunChoiceUnavailable(i) \/ ExecFails(i)
    BY <2>2 DEF RunSetUnitVarZero, RunChoiceUnavailable, ExecFails, Move, env, db, TypeOK
  <2>3. CASE RunGetUnitVar(i)
    BY <2>3, <2>l DEF RunGetUnitVar, Returns, Move, env, TypeOK
  <2>4. CASE RunPreconfiguredChoice(i) \/ RunDatabaseContext(i) \/ RunPreconfiguredContext(i)
    BY <2>4, <2>l
    DEF RunPreconfiguredChoice, RunDatabaseContext, RunPreconfiguredContext, Returns, Move, env, TypeOK
  <2>5. CASE RunAwait(i)
    BY <2>5, <2>r DEF RunAwait, UpdateJob, Move, env, TypeOK
  <2>6. CASE RunClient(i)
    BY <2>6, <2>r DEF RunClient, Move, env, TypeOK
  <2>7. ASSUME NEW code \in Codes, RecordExit(i, code)
        PROVE  TypeOK'
    <3> DEFINE to == ExitLink(CurrentLink(i), code)
               step == ExitStep(CurrentLink(i), code)
    <3>1. to \in Links \cup {Nil} /\ step \in {"complete", "failed"}
      BY <2>l
    <3>2. /\ pc' = [pc EXCEPT ![i] = IF to = Nil THEN "eof" ELSE "top"]
          /\ row' = [row EXCEPT ![Current(i)].step = step]
          /\ next' = [next EXCEPT ![i] = IF to = Nil THEN @ ELSE to]
          /\ UNCHANGED <<chain, n, ret, status, uvar, env>>
      BY <2>7 DEF RecordExit, Move, UpdateJob
    <3> HIDE DEF to, step
    <3> QED
      BY <3>1, <3>2, <2>r DEF TypeOK, env
  <2>8. CASE MarkComplete(i)
    BY <2>8, <2>r DEF MarkComplete, UpdateJob, Move, env, TypeOK
  <2> QED
    BY <1>2, <2>1, <2>2, <2>3, <2>4, <2>5, <2>6, <2>7, <2>8 DEF RunJob
<1>3. ASSUME NEW i \in Iterators, AfterJob(i)
      PROVE  TypeOK'
  BY <1>3 DEF AfterJob, AwaitFails, EndOfChain, MarkFailed, Move, env, db, TypeOK
<1>4. ASSUME NEW i \in Iterators, WorkerSaves(i)
      PROVE  TypeOK'
  <2>1. Current(i) \in Keys
    BY <1>4, CurrentKey DEF WorkerSaves, TypeOK
  <2> QED
    BY <1>4, <2>1 DEF WorkerSaves, iter, env, TypeOK
<1>5. ASSUME NEW i \in Iterators, Resolve(i)
      PROVE  TypeOK'
  <2>1. PICK to \in Resolutions(i) : Decide(i, to)
    BY <1>5 DEF Resolve
  <2>2. Current(i) \in Keys /\ row[Current(i)].link \in Links
    BY <1>5, RunsALink DEF Resolve
  <2>3. to \in Chains \cup Links \cup {Nil, Unknown}
    BY <2>1, <2>2, LinkFacts DEF Resolutions, CurrentLink
  <2> QED
    <3>1. /\ pc' = [pc EXCEPT ![i] = "top"]
          /\ row' = [row EXCEPT ![Current(i)].step = "complete"]
          /\ next' = [next EXCEPT ![i] = to]
          /\ UNCHANGED <<chain, n, ret, status, uvar, env>>
      BY <2>1 DEF Decide, UpdateJob, Move
    <3> QED
      BY <3>1, <2>2, <2>3 DEF env, TypeOK
<1>6. CASE Close \/ Boot
  <2>1. CASE Close
    BY <2>1 DEF Close, iter, db, TypeOK
  <2>2. CASE Boot
    <3>1. cancelled' \in BOOLEAN /\ server' = "clean" /\ stmt' = 1 /\ UNCHANGED <<iter, db, crashes>>
      BY <2>2, Zenon DEF Boot
    <3> QED
      BY <3>1 DEF iter, db, TypeOK
  <2> QED
    BY <1>6, <2>1, <2>2
<1>7. CASE Crash
  BY <1>7 DEF Crash, db, TypeOK
<1>8. CASE CleanUp
  <2>1. row' \in [Keys -> [link : Links \cup {Nil},
                       step : {"none", "executing", "awaiting", "complete", "failed"},
                       tasks : {"none", "null", "lost", "coded"}]]
    <3>1. ASSUME NEW k \in Keys
          PROVE  CleanUpRow(row[k], stmt) \in [link : Links \cup {Nil},
                       step : {"none", "executing", "awaiting", "complete", "failed"},
                       tasks : {"none", "null", "lost", "coded"}]
      BY DEF CleanUpRow, NoRow, TypeOK
    <3> QED
      BY <1>8, <3>1 DEF CleanUp
  <2>2. status' \in {"unknown", "processing", "done", "failed"}
    BY <1>8 DEF CleanUp, CleanUpPackages, TypeOK
  <2>3. stmt' \in 0..6
    BY <1>8 DEF CleanUp, TypeOK
  <2> QED
    BY <1>8, <2>1, <2>2, <2>3 DEF CleanUp, iter, TypeOK
<1>9. CASE UNCHANGED vars
  BY <1>9 DEF vars, iter, db, env, TypeOK
<1> QED
  BY <1>1, <1>2, <1>3, <1>4, <1>5, <1>6, <1>7, <1>8, <1>9 DEF Next, IterStep, ServerStep

-----------------------------------------------------------------------------
(* Where the open rows are.                                                *)

\* A step of iterator i concerns the rows of i only.
LEMMA OthersFollow ==
  ASSUME TypeOK, RowsFollow, NEW i \in Iterators, NEW j \in Iterators, j # i, server' = server,
         pc'[j] = pc[j], n'[j] = n[j], \A k \in Keys : k[1] # i => row'[k] = row[k]
  PROVE  Follows(j)'
<1>1. \A k \in 1..MaxJobs : <<j, k>> \in Keys /\ row'[<<j, k>>] = row[<<j, k>>]
  BY DEF Keys
<1>2. n[j] > 0 => row'[Current(j)'] = row[Current(j)]
  BY <1>1, JobIteratorAssumption DEF Current, TypeOK
<1> QED
  BY <1>1, <1>2 DEF RowsFollow, Follows, Current, TypeOK

\* A step that moves iterator i only, and writes no row.
LEMMA MovesFollow ==
  ASSUME TypeOK, RowsFollow, NEW i \in Iterators, server' = server, row' = row, n' = n,
         NEW to, pc' = [pc EXCEPT ![i] = to], Follows(i)'
  PROVE  RowsFollow'
<1>1. ASSUME NEW j \in Iterators, j # i PROVE Follows(j)'
  BY <1>1, OthersFollow DEF TypeOK
<1> QED
  BY <1>1 DEF RowsFollow

\* A step that moves iterator i and writes the step of its current row.
LEMMA UpdatesFollow ==
  ASSUME TypeOK, RowsFollow, NEW i \in Iterators, server = "up", server' = server, n' = n,
         pc[i] \in {"run", "tasks", "ran", "await"},
         NEW to \in {"top", "eof", "await"}, pc' = [pc EXCEPT ![i] = to],
         NEW step \in {"awaiting", "complete", "failed"}, step = "awaiting" <=> to = "await",
         row' = [row EXCEPT ![Current(i)].step = step]
  PROVE  RowsFollow'
<1>k. Current(i) \in Keys /\ Current(i)' = Current(i) /\ n[i] \in 1..MaxJobs /\ n'[i] = n[i]
  BY CurrentKey DEF TypeOK, RowsFollow, Follows, Current
<1>r. /\ row'[Current(i)].step = step /\ row'[Current(i)].link = row[Current(i)].link
      /\ \A k \in Keys : k # Current(i) => row'[k] = row[k]
  BY <1>k DEF TypeOK
<1>1. ASSUME NEW j \in Iterators, j # i PROVE Follows(j)'
  BY <1>1, <1>r, OthersFollow DEF TypeOK, Current
<1>2. Follows(i)'
  <2>1. \A k \in 1..MaxJobs : k # n[i] => <<i, k>> \in Keys /\ row'[<<i, k>>] = row[<<i, k>>]
    BY <1>r DEF Keys, Current
  <2>2. pc'[i] = to
    BY DEF TypeOK
  <2> QED
    BY <2>1, <2>2, <1>k, <1>r DEF RowsFollow, Follows, TypeOK, Open
<1> QED
  BY <1>1, <1>2 DEF RowsFollow

\* Every step keeps the rows of the iterators where they may be.
LEMMA FollowStep ==
  ASSUME TypeOK, RowsFollow, [Next]_vars
  PROVE  RowsFollow'
<1> USE JobIteratorAssumption
<1>m. ASSUME NEW i \in Iterators, NEW to \in {"stopped", "fail", "top", "body", "ran"},
             server = "up", server' = server, row' = row, n' = n, pc' = [pc EXCEPT ![i] = to],
             to = "fail" => pc[i] \in {"body", "run", "tasks", "ran"},
             to = "top" => pc[i] \in {"idle", "body"},
             to = "body" => pc[i] = "top",
             to = "ran" => pc[i] = "run"
      PROVE  RowsFollow'
  <2>1. server = "up" /\ server' = server /\ pc'[i] = to
    BY <1>m DEF TypeOK
  <2>2. Current(i)' = Current(i) /\ n'[i] = n[i]
    BY <1>m DEF Current
  <2>3. Follows(i)
    BY DEF RowsFollow
  <2>4. Follows(i)'
    BY <2>1, <2>2, <2>3, <1>m DEF Follows, TypeOK, Open
  <2> QED
    BY <2>1, <2>4, <1>m, MovesFollow
<1>1. ASSUME NEW i \in Iterators, Start(i) \/ BeforeJob(i)
      PROVE  RowsFollow'
  <2>1. CASE Start(i)
    <3>1. /\ server = "up" /\ pc[i] = "idle" /\ pc' = [pc EXCEPT ![i] = "top"]
          /\ row' = row /\ n' = n /\ server' = server
      BY <2>1 DEF Start, Move, db, env
    <3> QED
      BY <3>1, <1>m
  <2>2. CASE \/ NextCancelled(i) \/ InitIterator(i) \/ InitFails(i) \/ Continue(i)
             \/ EnterChain(i) \/ EnterFails(i) \/ BuildFails(i) \/ SaveFails(i)
    BY <2>2, <1>m
    DEF NextCancelled, InitIterator, InitFails, Continue, EnterChain, EnterFails, BuildFails, SaveFails,
        Move, db, env
  <2>3. CASE SaveJob(i)
    <3>1. /\ server = "up" /\ server' = server /\ pc' = [pc EXCEPT ![i] = "run"]
          /\ n' = [n EXCEPT ![i] = n[i] + 1] /\ n[i] + 1 \in 1..MaxJobs
          /\ row' = [row EXCEPT ![<<i, n[i] + 1>>] =
                       [link |-> next[i], step |-> "executing", tasks |-> "none"]]
          /\ next[i] \in Links /\ pc[i] = "body"
      BY <2>3 DEF SaveJob, Builds, Move, env, TypeOK
    <3>2. <<i, n[i] + 1>> \in Keys /\ n'[i] = n[i] + 1 /\ pc'[i] = "run"
      BY <3>1 DEF Keys, TypeOK
    <3>3. /\ row'[<<i, n[i] + 1>>].step = "executing" /\ row'[<<i, n[i] + 1>>].link \in Links
          /\ \A k \in Keys : k # <<i, n[i] + 1>> => row'[k] = row[k]
      BY <3>1, <3>2 DEF TypeOK
    <3>4. ASSUME NEW j \in Iterators, j # i PROVE Follows(j)'
      BY <3>1, <3>3, <3>4, OthersFollow DEF TypeOK
    <3>5. Follows(i)
      BY DEF RowsFollow
    <3>6. \A k \in 1..MaxJobs : k # n[i] + 1 => <<i, k>> \in Keys /\ row'[<<i, k>>] = row[<<i, k>>]
      BY <3>3 DEF Keys
    <3>7. \A k \in 1..MaxJobs : k < n[i] + 1 => row[<<i, k>>].step \notin Open
      <4>1. ASSUME NEW k \in 1..MaxJobs, k < n[i] PROVE row[<<i, k>>].step \notin Open
        BY <4>1, <3>5 DEF Follows
      <4>2. n[i] \in 1..MaxJobs => row[<<i, n[i]>>].step \notin Open
        BY <3>1, <3>5 DEF Follows, Current
      <4> QED
        <5>0. n[i] \in 0..MaxJobs
          BY DEF TypeOK
        <5>1. ASSUME NEW k \in 1..MaxJobs, k < n[i] + 1 PROVE k < n[i] \/ k = n[i]
          BY <5>0, <5>1
        <5> QED
          BY <4>1, <4>2, <5>1
    <3>8. Follows(i)'
      <4>1. \A k \in 1..MaxJobs : /\ k > n'[i] => row'[<<i, k>>] = NoRow
                                  /\ k < n'[i] => row'[<<i, k>>].step \notin Open
        BY <3>1, <3>2, <3>5, <3>6, <3>7 DEF Follows, TypeOK, NoRow
      <4>2. Current(i)' = <<i, n[i] + 1>>
        BY <3>2 DEF Current
      <4> QED
        BY <4>1, <4>2, <3>1, <3>2, <3>3 DEF Follows, TypeOK
    <3> QED
      BY <3>4, <3>8 DEF RowsFollow
  <2> QED
    BY <1>1, <2>1, <2>2, <2>3 DEF BeforeJob
<1>2. ASSUME NEW i \in Iterators, pc[i] \in {"run", "tasks", "ran"}, RunJob(i)
      PROVE  RowsFollow'
  <2>r. Current(i) \in Keys /\ row[Current(i)].link \in Links
    BY <1>2, RunsALink
  <2>1. CASE \/ RunSetUnitVar(i) \/ RunSetUnitVarZero(i) \/ RunGetUnitVar(i)
             \/ RunPreconfiguredChoice(i) \/ RunChoiceUnavailable(i) \/ RunDatabaseContext(i)
             \/ RunPreconfiguredContext(i) \/ ExecFails(i)
    BY <2>1, <1>m
    DEF RunSetUnitVar, RunSetUnitVarZero, RunGetUnitVar, RunPreconfiguredChoice, RunChoiceUnavailable,
        RunDatabaseContext, RunPreconfiguredContext, ExecFails, Returns, Move, db, env
  <2>2. CASE RunAwait(i)
    BY <1>2, <2>2, UpdatesFollow DEF RunAwait, UpdateJob, Move, env
  <2>3. CASE RunClient(i)
    <3>1. /\ server = "up" /\ server' = server /\ n' = n /\ pc[i] = "run"
          /\ pc' = [pc EXCEPT ![i] = "tasks"]
          /\ row' = [row EXCEPT ![Current(i)].tasks = "null"]
      BY <2>3 DEF RunClient, Move, env
    <3>2. /\ row'[Current(i)].step = row[Current(i)].step
          /\ row'[Current(i)].link = row[Current(i)].link
          /\ \A k \in Keys : k # Current(i) => row'[k] = row[k]
      BY <2>r, <3>1 DEF TypeOK
    <3>3. ASSUME NEW j \in Iterators, j # i PROVE Follows(j)'
      BY <3>1, <3>2, <3>3, OthersFollow DEF TypeOK, Current
    <3>4. \A k \in 1..MaxJobs : k # n[i] => <<i, k>> \in Keys /\ row'[<<i, k>>] = row[<<i, k>>]
      BY <3>2 DEF Keys, Current
    <3>5. Current(i)' = Current(i) /\ n'[i] = n[i] /\ pc'[i] = "tasks" /\ Follows(i)
      BY <3>1 DEF Current, RowsFollow, TypeOK
    <3>6. Follows(i)'
      BY <3>1, <3>2, <3>4, <3>5 DEF Follows, TypeOK
    <3> QED
      BY <3>3, <3>6 DEF RowsFollow
  <2>4. ASSUME NEW code \in Codes, RecordExit(i, code)
        PROVE  RowsFollow'
    <3>1. ExitStep(CurrentLink(i), code) \in {"complete", "failed"}
      BY <2>r, LinkFacts DEF CurrentLink
    <3>2. PICK to \in {"eof", "top"} : Move(i, pc[i], to)
      BY <2>4 DEF RecordExit
    <3> QED
      BY <1>2, <2>4, <3>1, <3>2, UpdatesFollow DEF RecordExit, UpdateJob, Move, env
  <2>5. CASE MarkComplete(i)
    BY <1>2, <2>5, UpdatesFollow DEF MarkComplete, UpdateJob, Move, env
  <2> QED
    BY <1>2, <2>1, <2>2, <2>3, <2>4, <2>5 DEF RunJob
<1>3. ASSUME NEW i \in Iterators, AfterJob(i)
      PROVE  RowsFollow'
  BY <1>3, <1>m DEF AfterJob, AwaitFails, EndOfChain, MarkFailed, Move, db, env
<1>4. ASSUME NEW i \in Iterators, WorkerSaves(i)
      PROVE  RowsFollow'
  <2>1. /\ n[i] > 0 /\ row[Current(i)].tasks \in {"null", "lost"}
        /\ row' = [row EXCEPT ![Current(i)].tasks = "coded"]
        /\ n' = n /\ pc' = pc /\ server' = server
    BY <1>4 DEF WorkerSaves, iter, env
  <2>2. Current(i) \in Keys /\ Current(i)' = Current(i) /\ n[i] \in 1..MaxJobs
    BY <2>1, CurrentKey DEF TypeOK, Current
  <2>3. /\ row'[Current(i)].step = row[Current(i)].step
        /\ row'[Current(i)].link = row[Current(i)].link
        /\ \A k \in Keys : k # Current(i) => row'[k] = row[k]
    BY <2>1, <2>2 DEF TypeOK
  <2>4. ASSUME NEW j \in Iterators, j # i PROVE Follows(j)'
    BY <2>1, <2>3, <2>4, OthersFollow DEF TypeOK, Current
  <2>5. \A k \in 1..MaxJobs : k # n[i] => <<i, k>> \in Keys /\ row'[<<i, k>>] = row[<<i, k>>]
    BY <2>3 DEF Keys, Current
  <2>6. Follows(i)'
    BY <2>1, <2>2, <2>3, <2>5 DEF RowsFollow, Follows, TypeOK
  <2> QED
    BY <2>4, <2>6 DEF RowsFollow
<1>5. ASSUME NEW i \in Iterators, Resolve(i)
      PROVE  RowsFollow'
  BY <1>5, UpdatesFollow DEF Resolve, Decide, UpdateJob, Move, env
<1>6. CASE Close
  <2>1. server' = server /\ n' = n /\ pc' = pc /\ row' = row
    BY <1>6 DEF Close, iter, db
  <2> QED
    BY <2>1 DEF RowsFollow, Follows, Current
<1>7. CASE Boot
  <2>1. server = "down" /\ server' = "clean" /\ n' = n /\ pc' = pc /\ row' = row
    BY <1>7 DEF Boot, iter, db
  <2> QED
    BY <2>1 DEF RowsFollow, Follows, Current
<1>8. CASE Crash
  <2>1. /\ n' = n /\ row' = row
        /\ pc' = [i \in Iterators |-> IF pc[i] = "idle" THEN "idle" ELSE "stopped"]
    BY <1>8 DEF Crash, db
  <2>2. ASSUME NEW i \in Iterators PROVE Follows(i)'
    <3>1. pc'[i] = "stopped" \/ (pc'[i] = "idle" /\ pc[i] = "idle")
      BY <2>1
    <3> QED
      BY <2>1, <3>1 DEF RowsFollow, Follows
  <2> QED
    BY <2>2 DEF RowsFollow
<1>9. CASE CleanUp
  <2>1. server = "clean" /\ n' = n /\ pc' = pc /\ row' = [k \in Keys |-> CleanUpRow(row[k], stmt)]
    BY <1>9 DEF CleanUp, iter
  <2>2. ASSUME NEW i \in Iterators PROVE Follows(i)'
    <3>1. pc[i] \in {"idle", "stopped"} /\ (pc[i] = "idle" => n[i] = 0)
      BY <2>1 DEF RowsFollow, Follows
    <3>2. ASSUME NEW k \in 1..MaxJobs
          PROVE  /\ row[<<i, k>>] = NoRow => row'[<<i, k>>] = NoRow
                 /\ row[<<i, k>>].step \notin Open => row'[<<i, k>>].step \notin Open
      <4>1. <<i, k>> \in Keys
        BY DEF Keys
      <4> QED
        BY <4>1, <2>1 DEF CleanUpRow, NoRow, Open, TypeOK
    <3> QED
      BY <2>1, <3>1, <3>2 DEF RowsFollow, Follows
  <2> QED
    BY <2>2 DEF RowsFollow
<1>10. CASE UNCHANGED vars
  <2>1. server' = server /\ n' = n /\ pc' = pc /\ row' = row
    BY <1>10 DEF vars, iter, db, env
  <2> QED
    BY <2>1 DEF RowsFollow, Follows, Current
<1> QED
  BY <1>1, <1>2, <1>3, <1>4, <1>5, <1>6, <1>7, <1>8, <1>9, <1>10 DEF Next, IterStep, ServerStep

-----------------------------------------------------------------------------
(* The theorems.                                                           *)

\* Initially nothing has been saved.
LEMMA InitFollows == Init => TypeOK /\ RowsFollow
<1> SUFFICES ASSUME Init PROVE TypeOK /\ RowsFollow
  OBVIOUS
<1>1. TypeOK
  <2>1. row \in [Keys -> [link : Links \cup {Nil},
                          step : {"none", "executing", "awaiting", "complete", "failed"},
                          tasks : {"none", "null", "lost", "coded"}]]
    BY DEF Init, NoRow
  <2>2. cancelled \in BOOLEAN
    BY DEF Init
  <2> QED
    BY JobIteratorAssumption, <2>1, <2>2 DEF Init, TypeOK
<1>2. ASSUME NEW i \in Iterators, NEW k \in 1..MaxJobs PROVE row[<<i, k>>] = NoRow
  BY DEF Init, Keys
<1> QED
  BY <1>1, <1>2 DEF Init, RowsFollow, Follows

\* The inductive invariant: the variables have their types and the rows of the
\* Jobs table follow the iterators, for every workflow document.
LEMMA RowsFollowAlways == Spec => [](TypeOK /\ RowsFollow)
<1>1. TypeOK /\ RowsFollow /\ [Next]_vars => (TypeOK /\ RowsFollow)'
  BY TypeStep, FollowStep
<1> QED
  BY InitFollows, <1>1, PTL DEF Spec

\* The variables of the iteration keep their types (iterator.go, jobs.go).
THEOREM TypeCorrect == Spec => []TypeOK
BY RowsFollowAlways, PTL

\* At most one job of an iterator is open in the database and it is the latest
\* one; a row that awaits a decision has an iterator that awaits it, or one
\* that was abandoned (FindAwaitingJob).
THEOREM OpenIsCurrent == Spec => []OpenJobIsCurrent
<1>1. TypeOK /\ RowsFollow => OpenJobIsCurrent
  <2> SUFFICES ASSUME TypeOK, RowsFollow, NEW i \in Iterators, NEW k \in 1..MaxJobs,
                      row[<<i, k>>].step \in Open
               PROVE  /\ k = n[i]
                      /\ pc[i] \notin {"idle", "top", "body"}
                      /\ server = "up" /\ row[<<i, k>>].step = "awaiting" =>
                           pc[i] \in {"await", "stopped"}
    BY DEF OpenJobIsCurrent
  <2>0. Follows(i) /\ n[i] \in 0..MaxJobs /\ n[i] \in Int
    BY JobIteratorAssumption DEF RowsFollow, TypeOK
  <2>1. k = n[i]
    <3>1. ~(k > n[i])
      BY <2>0 DEF Follows, NoRow, Open
    <3>2. ~(k < n[i])
      BY <2>0 DEF Follows
    <3> QED
      BY <3>1, <3>2, <2>0
  <2>2. Current(i) = <<i, k>> /\ n[i] > 0
    BY <2>1 DEF Current
  <2> QED
    BY <2>0, <2>1, <2>2 DEF Follows, Open, TypeOK
<1> QED
  BY RowsFollowAlways, <1>1, PTL

\* A job with a final status keeps it, and its link: a row is written to only
\* by the iterator whose open job it is, by workers (its tasks) and by the
\* clean-up, which leaves final rows alone.
LEMMA FinalRowKept ==
  ASSUME TypeOK, RowsFollow, [Next]_vars, NEW k \in Keys, row[k].step \in {"complete", "failed"}
  PROVE  row'[k].step = row[k].step /\ row'[k].link = row[k].link
<1>a. ASSUME NEW i \in Iterators, pc[i] \in {"run", "tasks", "ran", "await"}
      PROVE  k # Current(i) /\ Current(i) \in Keys
  BY <1>a, RunsALink DEF RowsFollow, Follows
<1>1. ASSUME NEW i \in Iterators, Start(i) \/ BeforeJob(i)
      PROVE  row'[k] = row[k]
  <2>1. CASE SaveJob(i)
    <3>1. n[i] + 1 \in 1..MaxJobs /\ n[i] + 1 > n[i]
      BY <2>1, JobIteratorAssumption DEF SaveJob, TypeOK
    <3>2. row[<<i, n[i] + 1>>] = NoRow
      BY <3>1 DEF RowsFollow, Follows
    <3>3. k # <<i, n[i] + 1>>
      BY <3>2 DEF NoRow
    <3> QED
      BY <2>1, <3>3 DEF SaveJob, TypeOK
  <2> QED
    BY <1>1, <2>1
    DEF Start, BeforeJob, NextCancelled, InitIterator, InitFails, Continue, EnterChain, EnterFails,
        BuildFails, SaveFails, db
<1>2. ASSUME NEW i \in Iterators, pc[i] \in {"run", "tasks", "ran"}, RunJob(i)
      PROVE  row'[k] = row[k]
  <2>0. k # Current(i) /\ Current(i) \in Keys
    BY <1>2, <1>a
  <2>1. ASSUME NEW code \in Codes, RecordExit(i, code) PROVE row'[k] = row[k]
    BY <2>0, <2>1 DEF RecordExit, UpdateJob, TypeOK
  <2>2. CASE RunAwait(i) \/ RunClient(i) \/ MarkComplete(i)
    BY <2>0, <2>2 DEF RunAwait, RunClient, MarkComplete, UpdateJob, TypeOK
  <2> QED
    BY <1>2, <2>1, <2>2
    DEF RunJob, RunSetUnitVar, RunSetUnitVarZero, RunGetUnitVar, RunPreconfiguredChoice,
        RunChoiceUnavailable, RunDatabaseContext, RunPreconfiguredContext, ExecFails, Returns, db
<1>3. ASSUME NEW i \in Iterators, AfterJob(i)
      PROVE  row'[k] = row[k]
  BY <1>3 DEF AfterJob, AwaitFails, EndOfChain, MarkFailed, db
<1>4. ASSUME NEW i \in Iterators, WorkerSaves(i)
      PROVE  row'[k].step = row[k].step /\ row'[k].link = row[k].link
  <2>1. Current(i) \in Keys
    BY <1>4, CurrentKey DEF WorkerSaves, TypeOK
  <2> QED
    BY <1>4, <2>1 DEF WorkerSaves, TypeOK
<1>5. ASSUME NEW i \in Iterators, Resolve(i)
      PROVE  row'[k] = row[k]
  <2>0. k # Current(i) /\ Current(i) \in Keys
    BY <1>5, <1>a DEF Resolve
  <2> QED
    BY <1>5, <2>0 DEF Resolve, Decide, UpdateJob, TypeOK
<1>6. CASE Close \/ Boot \/ Crash \/ UNCHANGED vars
  BY <1>6 DEF Close, Boot, Crash, vars, db
<1>7. CASE CleanUp
  BY <1>7 DEF CleanUp, CleanUpRow, TypeOK
<1> QED
  BY <1>1, <1>2, <1>3, <1>4, <1>5, <1>6, <1>7 DEF Next, IterStep, ServerStep

\* The status that an exit code or a decision gave to a job is never rewritten
\* (finalStatusRecorded, markComplete, RemoveTransientData).
THEOREM FinalKept == Spec => FinalStatusIsKept
<1>1. TypeOK /\ RowsFollow /\ [Next]_vars =>
        [\A k \in Keys : row[k].step \in {"complete", "failed"} => row'[k].step = row[k].step]_vars
  BY FinalRowKept
<1> QED
  BY RowsFollowAlways, <1>1, PTL DEF Spec, FinalStatusIsKept

\* The package becomes done only where a chain ends at a terminal link.
LEMMA DoneAtTerminal ==
  ASSUME TypeOK, RowsFollow, [Next]_vars, status # "done", status' = "done"
  PROVE  \E i \in Iterators : pc[i] = "eof" /\ CurrentLink(i).end /\ row' = row
<1>1. ASSUME NEW i \in Iterators, Start(i) \/ BeforeJob(i)
      PROVE  FALSE
  BY <1>1
  DEF Start, BeforeJob, NextCancelled, InitIterator, InitFails, Continue, EnterChain, EnterFails,
      BuildFails, SaveJob, SaveFails, db
<1>2. ASSUME NEW i \in Iterators, RunJob(i)
      PROVE  FALSE
  BY <1>2
  DEF RunJob, RunSetUnitVar, RunSetUnitVarZero, RunGetUnitVar, RunPreconfiguredChoice,
      RunChoiceUnavailable, RunDatabaseContext, RunPreconfiguredContext, RunAwait, RunClient, RecordExit, MarkComplete, ExecFails, Returns, db
<1>3. ASSUME NEW i \in Iterators, AfterJob(i)
      PROVE  pc[i] = "eof" /\ CurrentLink(i).end /\ row' = row
  BY <1>3 DEF AfterJob, AwaitFails, EndOfChain, MarkFailed, Move, db
<1>4. ASSUME NEW i \in Iterators, WorkerSaves(i) \/ Resolve(i)
      PROVE  FALSE
  BY <1>4 DEF WorkerSaves, Resolve, Decide
<1>5. CASE Close \/ Boot \/ Crash \/ UNCHANGED vars
  BY <1>5 DEF Close, Boot, Crash, vars, db
<1>6. CASE CleanUp
  BY <1>6 DEF CleanUp, CleanUpPackages
<1> QED
  BY <1>1, <1>2, <1>3, <1>4, <1>5, <1>6 DEF Next, IterStep, ServerStep

\* A package is done only once the job of a terminal link was recorded
\* (markAsDone), however its iterators overlap and whatever crashed before.
THEOREM DoneIsTerminal == Spec => []DoneHasTerminalJob
<1>1. Init => DoneHasTerminalJob
  BY DEF Init, DoneHasTerminalJob
<1>2. TypeOK /\ RowsFollow /\ DoneHasTerminalJob /\ [Next]_vars => DoneHasTerminalJob'
  <2> SUFFICES ASSUME TypeOK, RowsFollow, DoneHasTerminalJob, [Next]_vars, status' = "done"
               PROVE  \E k \in Keys : /\ row'[k].link # Nil /\ Link[row'[k].link].end
                                      /\ row'[k].step \in {"complete", "failed"}
    BY DEF DoneHasTerminalJob
  <2>1. CASE status = "done"
    <3>1. PICK k \in Keys : /\ row[k].link # Nil /\ Link[row[k].link].end
                            /\ row[k].step \in {"complete", "failed"}
      BY <2>1 DEF DoneHasTerminalJob
    <3>2. row'[k].step = row[k].step /\ row'[k].link = row[k].link
      BY <3>1, FinalRowKept
    <3> QED
      BY <3>1, <3>2
  <2>2. CASE status # "done"
    <3>1. PICK i \in Iterators : pc[i] = "eof" /\ CurrentLink(i).end /\ row' = row
      BY <2>2, DoneAtTerminal
    <3>2. Current(i) \in Keys /\ row[Current(i)].link \in Links
      BY <3>1, RunsALink
    <3>3. row[Current(i)].step \in {"complete", "failed"}
      BY <3>1 DEF RowsFollow, Follows
    <3> QED
      BY <3>1, <3>2, <3>3, JobIteratorAssumption DEF CurrentLink
  <2> QED
    BY <2>1, <2>2
<1> QED
  BY RowsFollowAlways, <1>1, <1>2, PTL DEF Spec

\* While the server is not up its iterators do not run: there are only the
\* workers, the start of the server and the clean-up.
LEMMA OnlyUpIterates ==
  ASSUME TypeOK, RowsFollow, [Next]_vars, server # "up"
  PROVE  (\E i \in Iterators : WorkerSaves(i)) \/ Crash \/ Boot \/ CleanUp \/ UNCHANGED vars
<1>1. ASSUME NEW i \in Iterators, Start(i) \/ BeforeJob(i)
      PROVE  FALSE
  BY <1>1
  DEF Start, BeforeJob, NextCancelled, InitIterator, InitFails, Continue, EnterChain, EnterFails,
      BuildFails, SaveJob, SaveFails, Move
<1>2. ASSUME NEW i \in Iterators, pc[i] \in {"run", "tasks", "ran"}
      PROVE  FALSE
  BY <1>2 DEF RowsFollow, Follows
<1>3. ASSUME NEW i \in Iterators, AfterJob(i) \/ Resolve(i)
      PROVE  FALSE
  BY <1>3 DEF AfterJob, AwaitFails, EndOfChain, MarkFailed, Resolve, Decide, Move
<1>4. CASE Close
  BY <1>4 DEF Close
<1> QED
  BY <1>1, <1>2, <1>3, <1>4 DEF Next, IterStep, ServerStep

\* Each statement of RemoveTransientData adds to what the earlier ones have
\* achieved, and none undoes it; a crash starts all over.
LEMMA CleanStep ==
  ASSUME TypeOK, RowsFollow, CleanSoFar, [Next]_vars
  PROVE  CleanSoFar'
<1> SUFFICES ASSUME server' = "clean"
             PROVE  /\ stmt' \in 1..6
                    /\ stmt' > 1 => \A k \in Keys : row'[k].tasks # "null"
                    /\ stmt' > 2 /\ Table = "Transfers" => status' \notin {"unknown", "processing"}
                    /\ stmt' > 4 => \A k \in Keys : row'[k].step # "awaiting"
                    /\ stmt' > 5 /\ Table = "SIPs" => status' \notin {"unknown", "processing"}
  BY DEF CleanSoFar
<1>0. server # "up"
  <2>1. ASSUME NEW i \in Iterators, Start(i) \/ IterStep(i) \/ WorkerSaves(i) \/ Resolve(i)
        PROVE  server' = server
    <3>1. CASE Start(i) \/ BeforeJob(i)
      BY <3>1
      DEF Start, BeforeJob, NextCancelled, InitIterator, InitFails, Continue, EnterChain, EnterFails,
          BuildFails, SaveJob, SaveFails, env
    <3>2. CASE RunJob(i)
      BY <3>2
      DEF RunJob, RunSetUnitVar, RunSetUnitVarZero, RunGetUnitVar, RunPreconfiguredChoice,
          RunChoiceUnavailable, RunDatabaseContext, RunPreconfiguredContext, RunAwait, RunClient,
          RecordExit, MarkComplete, ExecFails, Returns, env
    <3>3. CASE AfterJob(i) \/ WorkerSaves(i) \/ Resolve(i)
      BY <3>3 DEF AfterJob, AwaitFails, EndOfChain, MarkFailed, WorkerSaves, Resolve, Decide, env
    <3> QED
      BY <2>1, <3>1, <3>2, <3>3 DEF IterStep
  <2>2. CASE Close \/ Crash \/ Boot \/ CleanUp \/ UNCHANGED vars
    BY <2>2 DEF Close, Crash, Boot, CleanUp, vars, env
  <2> QED
    BY <2>1, <2>2 DEF Next, ServerStep
<1>1. ASSUME NEW i \in Iterators, WorkerSaves(i)
      PROVE  /\ status' = status /\ stmt' = stmt /\ server' = server
             /\ \A k \in Keys : /\ row'[k].step = row[k].step
                                /\ row[k].tasks # "null" => row'[k].tasks # "null"
  <2>1. Current(i) \in Keys
    BY <1>1, CurrentKey DEF WorkerSaves, TypeOK
  <2> QED
    BY <1>1, <2>1 DEF WorkerSaves, env, TypeOK
<1>2. CASE Crash
  BY <1>2 DEF Crash
<1>3. CASE Boot
  BY <1>3 DEF Boot
<1>4. CASE CleanUp
  <2>1. /\ server = "clean" /\ stmt \in 1..5 /\ stmt' = stmt + 1
        /\ row' = [k \in Keys |-> CleanUpRow(row[k], stmt)]
    BY <1>4 DEF CleanUp, CleanSoFar
  <2>2. \A k \in Keys : row'[k].tasks # "null"
    BY <2>1 DEF CleanUpRow, NoRow, TypeOK, CleanSoFar
  <2>3. stmt' > 4 => \A k \in Keys : row'[k].step # "awaiting"
    BY <2>1 DEF CleanUpRow, NoRow, TypeOK, CleanSoFar
  <2>4. /\ stmt' > 2 /\ Table = "Transfers" => status' \notin {"unknown", "processing"}
        /\ stmt' > 5 /\ Table = "SIPs" => status' \notin {"unknown", "processing"}
    BY <1>4, <2>1 DEF CleanUp, CleanUpPackages, CleanSoFar
  <2> QED
    BY <2>1, <2>2, <2>3, <2>4
<1>5. CASE UNCHANGED vars
  BY <1>5 DEF vars, db, env, CleanSoFar
<1> QED
  BY <1>0, <1>1, <1>2, <1>3, <1>4, <1>5, OnlyUpIterates DEF CleanSoFar

\* When the server is up again, no package is unknown or processing, no job
\* executes or awaits and no task lacks its exit code, also when earlier
\* clean-ups were interrupted (Server.Run, RemoveTransientData).
THEOREM RestartsClean == Spec => RestartIsClean
<1>1. Init => CleanSoFar
  BY DEF Init, CleanSoFar
<1>2. TypeOK /\ RowsFollow /\ CleanSoFar /\ [Next]_vars => CleanSoFar'
  BY CleanStep
<1>3. TypeOK /\ RowsFollow /\ CleanSoFar /\ [Next]_vars =>
        [server # "up" /\ server' = "up" =>
           /\ status' \notin {"unknown", "processing"}
           /\ \A k \in Keys : row'[k].step \notin Open /\ row'[k].tasks # "null"]_vars
  <2> SUFFICES ASSUME TypeOK, RowsFollow, CleanSoFar, [Next]_vars, server # "up", server' = "up"
               PROVE  /\ status' \notin {"unknown", "processing"}
                      /\ \A k \in Keys : row'[k].step \notin Open /\ row'[k].tasks # "null"
    OBVIOUS
  <2>1. CleanUp
    BY OnlyUpIterates DEF WorkerSaves, Crash, Boot, vars, env
  <2>2. /\ server = "clean" /\ stmt = 6 /\ row' = [k \in Keys |-> CleanUpRow(row[k], stmt)]
        /\ status' = status
    BY <2>1 DEF CleanUp, CleanSoFar, TypeOK
  <2>3. status' \notin {"unknown", "processing"}
    BY <2>2, JobIteratorAssumption DEF CleanSoFar
  <2>4. ASSUME NEW k \in Keys PROVE row'[k].step \notin Open /\ row'[k].tasks # "null"
    BY <2>2 DEF CleanUpRow, CleanSoFar, Open, TypeOK
  <2> QED
    BY <2>3, <2>4
<1> QED
  BY RowsFollowAlways, <1>1, <1>2, <1>3, PTL DEF Spec, RestartIsClean
=============================================================================
