---------------------------- MODULE PackageFiles ----------------------------
(***************************************************************************)
(* The files of a transfer on disk and in the Files table, while the       *)
(* client scripts of the workflow name, extract, move and remove them:     *)
(*   removeHiddenFilesAndDirectories, removeUnneededFiles, assignFileUUIDs,*)
(*   changeObjectNames, hasPackages, extractContents,                      *)
(*   createSIPfromTransferObjects, removeFilesWithoutPresmisMetadata,      *)
(* with the list of files the server gives to the scripts that run once    *)
(* per file (Package.Files, submitTasks).                                  *)
(*                                                                         *)
(* The file system has no transactions: a script that raises half-way is   *)
(* reported by its exit code only, and one whose worker dies is rolled     *)
(* back in the database only, and runs again.                              *)
(***************************************************************************)
EXTENDS Integers, Sequences, FiniteSets, FiniteSetsExt, SequencesExt

CONSTANTS
  Received,   \* the trees the transfer may have: functions from paths to contents
  Members,    \* of each content that is a package: its files, names to contents
  Removable,  \* base names of the setting ``removable_files``
  Hidden,     \* base names that start with a dot or end with a tilde
  Composed,   \* of the names that are not in NFC: their NFC
  ChunkSize,  \* files per transaction in assign_file_uuids (10)
  BatchSize,  \* NameChanger.BATCH_SIZE (2000)
  Faults,     \* what may go wrong: subset of {"raise", "walk", "crash", "partial"}
  MaxFaults   \* bound: how often it may

\* A path is a sequence of names below objects/.  The form of a name is 0 when
\* it has allowed characters only, num is the number change_path adds, ext the
\* extraction whose date is at the end of the name.
Record == [base : STRING, form : Nat, num : Nat, ext : Nat]

\* The name comes with the transfer or out of a package; the scripts make no
\* others with characters that are not allowed, but for the dates.
Given(n) ==
  \/ \E d \in Received : \E p \in DOMAIN d : \E i \in DOMAIN p : n = p[i]
  \/ \E c \in DOMAIN Members : n \in DOMAIN Members[c]

Names == {n \in Record : n.form = 0 \/ n.ext > 0 \/ Given(n)}

ASSUME PackageFilesAssumption ==
  /\ \A d \in Received :
       /\ IsFiniteSet(DOMAIN d)
       /\ \A p \in DOMAIN d : /\ p \in Seq(Record) /\ p # <<>>
                              /\ \A i \in DOMAIN p : p[i].ext = 0
  /\ \A c \in DOMAIN Members :
       /\ IsFiniteSet(DOMAIN Members[c])
       /\ \A n \in DOMAIN Members[c] : n \in Record /\ n.ext = 0
  /\ \A n \in DOMAIN Composed : n \in Record /\ n.form > 0 /\ n.ext = 0
  /\ ChunkSize \in Nat \ {0} /\ BatchSize \in Nat \ {0}
  /\ Faults \subseteq {"raise", "walk", "crash", "partial"} /\ MaxFaults \in Nat

VARIABLES
  script,   \* the script of the current job, or how processing ended
  stage,    \* "begin", "work", or "handed": the SIP's directory was handed over,
            \* and the worker died
  delete,   \* the choice %DeletePackage%
  disk,     \* the files below objects/: a function from paths to contents
  rows,     \* the Files table, with the Events of each file
  saved,    \* rows at the start of the open transaction
  tasks,    \* the tasks the server submitted, of a script that runs per file
  todo,     \* what the script still has to do
  index,    \* NameChanger.files_index
  code,     \* exit code of the job so far
  round,    \* the number that stands for the date of the last extraction
  faults

vars == <<script, stage, tasks, todo, index, code, saved, delete, disk, rows, round, faults>>

Ended == {"done", "failed"}
Present(p) == p \in DOMAIN disk
Exists(p) == \E q \in DOMAIN disk : IsPrefix(p, q)
Live(id) == ~rows[id].removed

\* What a row says of a file when it is inserted (insertIntoFiles and
\* insertIntoEvents); content is what is at its location at that moment.
NewRow(p, c, event, from) ==
  [loc |-> p, first |-> p, content |-> c, removed |-> FALSE, sip |-> FALSE, from |-> from,
   events |-> {event}]

Init ==
  /\ script = "hidden" /\ stage = "begin"
  /\ delete \in BOOLEAN
  /\ disk \in Received
  /\ rows = <<>> /\ saved = <<>>
  /\ tasks = {} /\ todo = {}
  /\ index = <<>>
  /\ code = 0
  /\ round = 0 /\ faults = 0

-----------------------------------------------------------------------------
(* How the workflow goes on (assets/workflow.json, the links of the        *)
(* scripts) and what may go wrong.                                         *)

AfterHidden == {"unneeded"}
AfterUnneeded == {"assign"}
AfterAssign(c) == IF c = 0 THEN {"names"} ELSE {"failed"}
AfterNames(c) == IF c = 0 THEN {"has"} ELSE {"failed"}
AfterHas(c) == IF c = 0 THEN {"extract", "sip"} ELSE {"sip"}
AfterExtract(c) == IF c = 0 THEN {"names2"} ELSE {"failed"}
AfterNames2 == {"unneeded2"}
AfterUnneeded2 == {"has2"}
AfterHas2(c) == IF c = 0 THEN {"extract"} ELSE {"sip"}
AfterSIP(c) == IF c = 0 THEN {"linking"} ELSE {"failed"}
AfterLinking(c) == IF c = 0 THEN {"done"} ELSE {"failed"}

After(s, c) ==
  CASE s = "hidden"    -> AfterHidden
    [] s = "unneeded"  -> AfterUnneeded
    [] s = "assign"    -> AfterAssign(c)
    [] s = "names"     -> AfterNames(c)
    [] s = "has"       -> AfterHas(c)
    [] s = "extract"   -> AfterExtract(c)
    [] s = "names2"    -> AfterNames2
    [] s = "unneeded2" -> AfterUnneeded2
    [] s = "has2"      -> AfterHas2(c)
    [] s = "sip"       -> AfterSIP(c)
    [] s = "linking"   -> AfterLinking(c)

\* The job ends with exit code c.
Finish(c) ==
  /\ \E s \in After(script, c) : script' = s
  /\ stage' = "begin"
  /\ tasks' = {} /\ todo' = {} /\ index' = <<>>
  /\ code' = 0

\* The script starts on S; its transaction is open from now on.
Start(S) ==
  /\ stage = "begin" /\ stage' = "work"
  /\ todo' = S
  /\ code' = 0
  /\ saved' = rows
  /\ UNCHANGED <<script, delete, disk, rows, index, faults>>

Goes(kind) == kind \in Faults /\ faults < MaxFaults /\ faults' = faults + 1

\* A script that is one task raises: JobContext makes that exit code 1, and
\* what was written to the database so far is committed.  One exception is
\* named apart: after the walk that follows an extraction the workflow goes on,
\* with names that are half changed.
Raise ==
  /\ stage = "work"
  /\ script \in {"hidden", "assign", "names", "names2", "extract", "sip"}
  /\ Goes(IF script = "names2" THEN "walk" ELSE "raise")
  /\ Finish(1)
  /\ UNCHANGED <<delete, disk, rows, saved, round>>

\* The worker dies: the open transaction is rolled back, and the script runs
\* again.  If createSIPfromTransferObjects had handed the directory of the SIP
\* over, it will not find the files.
Crash ==
  /\ stage = "work"
  /\ Goes("crash")
  /\ stage' \in IF script = "sip" /\ todo = {} THEN {"begin", "handed"} ELSE {"begin"}
  /\ rows' = IF script \in {"assign", "linking"} THEN rows ELSE saved
  /\ todo' = {} /\ index' = <<>> /\ code' = 0
  /\ UNCHANGED <<script, tasks, delete, disk, saved, round>>

-----------------------------------------------------------------------------
(* removeHiddenFilesAndDirectories: a walk over the transfer directory.    *)

StartHidden ==
  /\ script = "hidden"
  /\ Start({p \in DOMAIN disk : \E i \in 1..Len(p) : p[i].base \in Hidden})
  /\ UNCHANGED <<tasks, round>>

RemoveHidden ==
  /\ script = "hidden" /\ stage = "work"
  /\ IF todo = {}
     THEN Finish(0) /\ UNCHANGED disk
     ELSE \E p \in todo :
            /\ disk' = Restrict(disk, DOMAIN disk \ {p})
            /\ todo' = todo \ {p}
            /\ UNCHANGED <<script, stage, tasks, index, code>>
  /\ UNCHANGED <<delete, rows, saved, round, faults>>

-----------------------------------------------------------------------------
(* The tasks of a script that runs once per file.  Package.Files lists the *)
(* rows whose file is there, then the files on disk that no row accounts   *)
(* for.  These set "%relativeLocation" (sic) and "%fileUUID%"; the mapping *)
(* is the one of the file before with these on top, and the order in which *)
(* its keys are replaced is random: the path of the task is either that of *)
(* the last row of the list or the path on disk with a % at the end, which *)
(* is the path of no file.                                                 *)

NoFile == <<>>

\* The rows whose file is on disk.
Listing(sip) == {id \in DOMAIN rows : Live(id) /\ rows[id].sip = sip /\ Present(rows[id].loc)}

\* The paths a file on disk that has no row may be given.
DiskPath(p, last) == {NoFile} \cup (IF last = 0 THEN {} ELSE {rows[last].loc})

Unlisted(sip) == DOMAIN disk \ {rows[id].loc : id \in Listing(sip)}

\* The sets of tasks the server may submit: pairs of a row, or 0, and a path.
TaskSets(sip) ==
  LET listed == Listing(sip)
      ofRows == {<<id, rows[id].loc, rows[id].loc>> : id \in listed}
      lasts  == IF listed = {} THEN {0} ELSE listed
      given(last) == {g \in [Unlisted(sip) -> UNION {DiskPath(p, last) : p \in Unlisted(sip)}] :
                        \A p \in Unlisted(sip) : g[p] \in DiskPath(p, last)}
  IN UNION {{ofRows \cup {<<0, p, g[p]>> : p \in Unlisted(sip)} : g \in given(last)}
              : last \in lasts}

\* The tasks are listed once, and are the same when the script runs again; they
\* run in any order.
StartPerFile ==
  /\ script \in {"unneeded", "unneeded2", "linking"}
  /\ \E T \in IF tasks = {} THEN TaskSets(script = "linking") ELSE {tasks} :
       Start(T) /\ tasks' = T
  /\ UNCHANGED round

\* A task fails.
TaskFails(t) ==
  /\ todo' = todo \ {t}
  /\ code' = 1
  /\ UNCHANGED <<script, stage, tasks, index, disk, rows>>

\* fileWasRemoved
Removed(id) ==
  rows' = [rows EXCEPT ![id].removed = TRUE, ![id].loc = NoFile,
                       ![id].events = @ \cup {"file removed"}]

\* basename in removableFiles: the name itself, not one that would become it.
Unneeded(n) == n.base \in Removable /\ n.form = 0 /\ n.num = 0

\* remove_unneeded_files: the file goes first, then the row says so.
RemoveUnneeded ==
  /\ script \in {"unneeded", "unneeded2"} /\ stage = "work"
  /\ IF todo = {}
     THEN Finish(code) /\ UNCHANGED <<disk, rows>>
     ELSE \E t \in todo :
            LET p == t[3]
            IN IF p = NoFile \/ ~Unneeded(p[Len(p)])
               THEN /\ todo' = todo \ {t}
                    /\ UNCHANGED <<script, stage, tasks, index, code, disk, rows>>
               ELSE IF Present(p)
               THEN /\ todo' = todo \ {t}
                    /\ disk' = Restrict(disk, DOMAIN disk \ {p})
                    /\ IF t[1] = 0 THEN UNCHANGED rows ELSE Removed(t[1])
                    /\ UNCHANGED <<script, stage, tasks, index, code>>
               ELSE TaskFails(t)
  /\ UNCHANGED <<delete, saved, round, faults>>

\* remove_files_without_premis_metadata: what has no row is deleted.
RemoveUnlinked ==
  /\ script = "linking" /\ stage = "work"
  /\ IF todo = {}
     THEN Finish(code) /\ UNCHANGED <<disk, rows>>
     ELSE \E t \in todo :
            IF t[1] # 0
            THEN /\ todo' = todo \ {t}
                 /\ UNCHANGED <<script, stage, tasks, index, code, disk, rows>>
            ELSE IF Present(t[3])
            THEN /\ todo' = todo \ {t}
                 /\ disk' = Restrict(disk, DOMAIN disk \ {t[3]})
                 /\ UNCHANGED <<script, stage, tasks, index, code, rows>>
            ELSE TaskFails(t)
  /\ UNCHANGED <<delete, saved, round, faults>>

-----------------------------------------------------------------------------
(* assignFileUUIDs: a row for each file, a transaction for each chunk of   *)
(* the files of a directory.  Rows that are there already do not matter.   *)

StartAssign == script = "assign" /\ Start(DOMAIN disk) /\ UNCHANGED <<tasks, round>>

AssignChunk ==
  /\ script = "assign" /\ stage = "work"
  /\ IF todo = {}
     THEN Finish(0) /\ UNCHANGED <<rows, saved>>
     ELSE \E chunk \in SUBSET todo :
            LET dir  == {p \in todo : \E q \in chunk : Front(p) = Front(q)}
                files == SetToSeq(chunk)
            IN /\ chunk # {} /\ \A p, q \in chunk : Front(p) = Front(q)
               /\ Cardinality(chunk) = Min({ChunkSize, Cardinality(dir)})
               /\ rows' = rows \o [i \in DOMAIN files |->
                                     NewRow(files[i], disk[files[i]], "ingestion", NoFile)]
               /\ saved' = rows'
               /\ todo' = todo \ chunk
               /\ UNCHANGED <<script, stage, tasks, index, code>>
  /\ UNCHANGED <<delete, disk, round, faults>>

-----------------------------------------------------------------------------
(* changeObjectNames: a walk that renames on disk (change_tree) and        *)
(* collects the changes for the database (NameChanger).                    *)

\* The entries of a directory, as the walk sees them: the path before any
\* change, and the present one.
Entries(old, at) ==
  {<<Append(old, q[Len(at) + 1]), Append(at, q[Len(at) + 1])>> :
     q \in {r \in DOMAIN disk : IsStrictPrefix(at, r)}}

\* Fault: the new name is taken without looking whether it is in use.
ChangePathBlindly(p) == Append(Front(p), [p[Len(p)] EXCEPT !.form = 0])

\* change_path: the name with allowed characters only, numbered if need be.
ChangePath(p) ==
  LET name == p[Len(p)]
      free == {n \in 0..Cardinality(DOMAIN disk) :
                 ~Exists(Append(Front(p), [name EXCEPT !.form = 0, !.num = @ + n]))}
  IN IF name.form = 0 THEN p
     ELSE Append(Front(p), [name EXCEPT !.form = 0, !.num = @ + Min(free)])

\* The disk once the entry at p, and all below it, is at q.
Moved(p, q) ==
  LET to(r) == IF IsPrefix(p, r) THEN q \o SubSeq(r, Len(p) + 1, Len(r)) ELSE r
      was(x) == LET S == {r \in DOMAIN disk : to(r) = x}
                IN IF \E r \in S : IsPrefix(p, r) THEN CHOOSE r \in S : IsPrefix(p, r)
                                                  ELSE CHOOSE r \in S : TRUE
  IN [x \in {to(r) : r \in DOMAIN disk} |-> disk[was(x)]]

NfcName(n) == IF n \in DOMAIN Composed THEN Composed[n] ELSE n
NfcPath(p) == [i \in DOMAIN p |-> NfcName(p[i])]

\* add_file_to_batch.  The keys of files_index are in NFC; here a key is the
\* path as it is, the last one of those that are equal in NFC.
AddFile(old, new) ==
  [p \in {q \in DOMAIN index : NfcPath(q) # NfcPath(old)} \cup {old} |->
     IF p = old THEN new ELSE index[p]]

\* apply_file_updates: every row whose location, in NFC, is in the index.
FileUpdates(ix) ==
  LET keys(id) == {q \in DOMAIN ix : NfcPath(q) = NfcPath(rows[id].loc)}
  IN [id \in DOMAIN rows |->
        IF Live(id) /\ keys(id) # {}
        THEN [rows[id] EXCEPT !.loc = ix[CHOOSE q \in keys(id) : TRUE],
                              !.events = @ \cup {"filename change"}]
        ELSE rows[id]]

StartNames ==
  /\ script \in {"names", "names2"}
  /\ Start(Entries(<<>>, <<>>))
  /\ UNCHANGED <<tasks, round>>

\* change_tree renames one entry, the files of a directory right after the
\* directory, and add_file_to_batch takes note of it.
ChangeName ==
  /\ script \in {"names", "names2"} /\ stage = "work"
  /\ \E e \in todo :
       LET old == e[1]
           new == ChangePath(e[2])
           dir == ~Present(e[2])
           ix  == IF dir \/ new = old THEN index ELSE AddFile(old, new)
       IN /\ \A f \in todo : Len(f[1]) <= Len(old)
          /\ disk' = Moved(e[2], new)
          /\ todo' = (todo \ {e}) \cup
                       {<<Append(old, q[Len(e[2]) + 1]), Append(new, q[Len(e[2]) + 1])>> :
                          q \in {r \in DOMAIN disk : IsStrictPrefix(e[2], r)}}
          /\ IF Cardinality(DOMAIN ix) >= BatchSize
             THEN rows' = FileUpdates(ix) /\ index' = <<>>
             ELSE index' = ix /\ UNCHANGED rows
  /\ UNCHANGED <<script, stage, tasks, code, saved, delete, round, faults>>

\* Fault: the last batch is not applied.
ChangeNamesForget ==
  /\ script \in {"names", "names2"} /\ stage = "work" /\ todo = {}
  /\ Finish(0)
  /\ UNCHANGED <<delete, disk, rows, saved, round, faults>>

\* The remainder after all batches.
ChangeNamesEnd ==
  /\ script \in {"names", "names2"} /\ stage = "work" /\ todo = {}
  /\ rows' = FileUpdates(index)
  /\ Finish(0)
  /\ UNCHANGED <<delete, disk, saved, round, faults>>

-----------------------------------------------------------------------------
(* hasPackages and extractContents.                                        *)

\* What the file of a row was identified by, where the row says it is.
Format(id) == IF Present(rows[id].loc) THEN disk[rows[id].loc] ELSE rows[id].content

IsExtractable(id) == Format(id) \in DOMAIN Members

\* The location p starts with the location q, as strings: the name of an
\* extracted directory starts with that of its package, the cleaned one only
\* if the latter is clean too.
StartsWith(p, q) ==
  /\ Len(p) >= Len(q)
  /\ SubSeq(p, 1, Len(q) - 1) = Front(q)
  /\ LET m == p[Len(q)]
         n == q[Len(q)]
     IN m = n \/ (/\ m.base = n.base /\ m.num >= n.num /\ (m.form = 0 => n.form = 0)
                 /\ n.ext = 0 /\ m.ext > 0)

\* already_extracted: some file below says that it was unpacked from it.
AlreadyExtracted(id) ==
  \E k \in DOMAIN rows :
    /\ k # id /\ Live(k)
    /\ StartsWith(rows[k].loc, rows[id].loc)
    /\ "unpacking" \in rows[k].events /\ StartsWith(rows[k].from, rows[id].loc)

HasPackages ==
  /\ script \in {"has", "has2"}
  /\ Finish(IF \E id \in DOMAIN rows : Live(id) /\ IsExtractable(id) /\ ~AlreadyExtracted(id)
            THEN 0 ELSE 1)
  /\ UNCHANGED <<delete, disk, rows, saved, round, faults>>

StartExtract ==
  /\ script = "extract"
  /\ Start({id \in DOMAIN rows : Live(id)})
  /\ round' = round + 1
  /\ UNCHANGED tasks

\* Where the files of the package at p are extracted: a directory with the
\* name of the package and the date, which has characters that are not allowed.
ExtractionTarget(p) == Append(Front(p), [p[Len(p)] EXCEPT !.ext = round, !.form = @ + 1])

\* The disk with files S of the package of row id extracted.
Extracted(id, S) ==
  LET target == ExtractionTarget(rows[id].loc)
      files  == Members[Format(id)]
      new    == {Append(target, n) : n \in S}
  IN [p \in DOMAIN disk \cup new |-> IF p \in new THEN files[p[Len(p)]] ELSE disk[p]]

\* The exit code of extractContents: 255 unless something was extracted.
ExtractCode(done) == IF done THEN 0 ELSE 255

\* Fault: the package is deleted although the command failed.
ExtractFailsAndDeletes(id) ==
  /\ Present(rows[id].loc)
  /\ Goes("partial")
  /\ disk' = IF delete THEN Restrict(disk, DOMAIN disk \ {rows[id].loc}) ELSE disk
  /\ UNCHANGED <<rows, code>>

\* The extraction command fails, perhaps with some of the files written; or
\* the file is not where its row says.  The job goes on.
ExtractFails(id) ==
  /\ IF Present(rows[id].loc)
     THEN /\ Goes("partial")
          /\ \E S \in SUBSET DOMAIN Members[Format(id)] : disk' = Extracted(id, S)
     ELSE UNCHANGED <<disk, faults>>
  /\ UNCHANGED <<rows, code>>

\* The rows that the files T of the package of row id are given (assign_uuid).
Unpacking(id, T) ==
  LET g     == rows[id].loc
      names == SetToSeq(T)
  IN [i \in DOMAIN names |->
        NewRow(Append(ExtractionTarget(g), names[i]), Members[Format(id)][names[i]],
               "unpacking", g)]

\* The command works: each file gets a row, and the package is deleted if the
\* user said so (delete_and_record_package_file).
ExtractWorks(id) ==
  LET g     == rows[id].loc
      files == DOMAIN Members[Format(id)]
      full  == Extracted(id, files)
  IN /\ Present(g)
     /\ code' = -1
     /\ disk' = IF delete THEN Restrict(full, DOMAIN full \ {g}) ELSE full
     /\ rows' = IF delete
                THEN [rows EXCEPT ![id].removed = TRUE, ![id].loc = NoFile,
                                  ![id].events = @ \cup {"file removed"}] \o Unpacking(id, files)
                ELSE rows \o Unpacking(id, files)
     /\ UNCHANGED faults

\* extractContents, one row after the other; code is -1 once extracted is set.
Extract ==
  /\ script = "extract" /\ stage = "work"
  /\ IF todo = {}
     THEN /\ Finish(ExtractCode(code = -1))
          /\ UNCHANGED <<disk, rows, faults>>
     ELSE \E id \in todo :
            /\ todo' = todo \ {id}
            /\ IF IsExtractable(id) /\ ~AlreadyExtracted(id)
               THEN ExtractFails(id) \/ ExtractWorks(id)
               ELSE UNCHANGED <<disk, rows, code, faults>>
            /\ UNCHANGED <<script, stage, tasks, index>>
  /\ UNCHANGED <<delete, saved, round>>

\* The extraction of a package is cut off: with some files on disk, with all of
\* them and rows for some, or with the package gone and its row not told.  The
\* worker died, and the rows are those from before the job; or an exception
\* ends the job, with the rows there are.
ExtractCutOff ==
  /\ script = "extract" /\ stage = "work"
  /\ \E id \in todo :
       LET g     == rows[id].loc
           files == DOMAIN Members[Format(id)]
       IN /\ IsExtractable(id) /\ ~AlreadyExtracted(id) /\ Present(g)
          /\ \E S, T \in SUBSET files, gone \in BOOLEAN :
               LET d == Extracted(id, S)
               IN /\ T # {} => S = files
                  /\ gone => delete /\ T = files
                  /\ disk' = IF gone THEN Restrict(d, DOMAIN d \ {g}) ELSE d
                  /\ \/ /\ Goes("crash")
                        /\ stage' = "begin" /\ rows' = saved
                        /\ todo' = {} /\ index' = <<>> /\ code' = 0
                        /\ UNCHANGED <<script, tasks>>
                     \/ /\ Goes("raise")
                        /\ rows' = rows \o Unpacking(id, T)
                        /\ Finish(1)
  /\ UNCHANGED <<delete, saved, round>>

-----------------------------------------------------------------------------
(* createSIPfromTransferObjects: the objects are moved to a directory for  *)
(* the SIP as they are, the rows of those that are found there become the  *)
(* SIP's, and the directory is handed over; what is not found is only      *)
(* mentioned.  Then the transaction is committed.                          *)

StartSIP == script = "sip" /\ Start({"rows"}) /\ UNCHANGED <<tasks, round>>

CreateSIP ==
  /\ script = "sip" /\ stage = "work"
  /\ IF todo = {}
     THEN Finish(0) /\ UNCHANGED rows
     ELSE /\ rows' = [id \in DOMAIN rows |->
                        IF Live(id) /\ Present(rows[id].loc)
                        THEN [rows[id] EXCEPT !.sip = TRUE] ELSE rows[id]]
          /\ todo' = {}
          /\ UNCHANGED <<script, stage, tasks, index, code>>
  /\ UNCHANGED <<delete, disk, saved, round, faults>>

\* The script runs again after the hand-over: no file is found.
CreateSIPAgain ==
  /\ script = "sip" /\ stage = "handed"
  /\ Finish(0)
  /\ UNCHANGED <<delete, disk, rows, saved, round, faults>>

-----------------------------------------------------------------------------
Step ==
  \/ StartHidden \/ RemoveHidden \/ StartPerFile \/ RemoveUnneeded \/ RemoveUnlinked
  \/ StartAssign \/ AssignChunk \/ StartNames \/ ChangeName \/ ChangeNamesEnd
  \/ HasPackages \/ StartExtract \/ Extract \/ StartSIP \/ CreateSIP \/ CreateSIPAgain

Stop == script \in Ended /\ UNCHANGED vars

Next == Step \/ Raise \/ Crash \/ ExtractCutOff \/ Stop

\* The worker goes on with the job it has.
Spec == Init /\ [][Next]_vars /\ WF_vars(Step)

-----------------------------------------------------------------------------
Contents(d) == {d[p] : p \in DOMAIN d}

TypeOK ==
  /\ script \in {"hidden", "unneeded", "assign", "names", "has", "extract", "names2",
                 "unneeded2", "has2", "sip", "linking"} \cup Ended
  /\ stage \in {"begin", "work", "handed"}
  /\ DOMAIN disk \subseteq Seq(Names)
  /\ \A id \in DOMAIN rows : rows[id].loc \in Seq(Names) /\ rows[id].removed \in BOOLEAN
  /\ code \in {-1, 0, 1}
  /\ faults \in 0..MaxFaults

\* The file of another row came with a name that differs from that of row id
\* only before both are in NFC.
Twinned(id) ==
  \E k \in DOMAIN rows :
    rows[k].first # rows[id].first /\ NfcPath(rows[k].first) = NfcPath(rows[id].first)

\* A row never comes to stand for another file than the one it was made for:
\* what is at its location is what was there when its UUID was assigned,
\* whichever script raises, crashes or runs again (change_path,
\* apply_file_updates), unless an exception leaves the walk after an
\* extraction half-way ("walk"), or the file came with a name that is equal to
\* that of another in NFC: files_index then has one entry for both.
RowKeepsContent ==
  \A id \in DOMAIN rows :
    (Live(id) /\ Present(rows[id].loc) /\ ~Twinned(id)) => disk[rows[id].loc] = rows[id].content

\* Until the files without linking information are removed, no content that
\* came with the transfer or out of a package leaves the disk, but for the
\* unneeded ones, and packages the user wanted deleted: these not before their
\* files are there.
NothingLost ==
  LET kept(c) == c \in Contents(disk) \/ (delete /\ c \in DOMAIN Members)
      needed(n) == n.base \notin Removable
  IN script \notin {"linking"} \cup Ended =>
       \A id \in DOMAIN rows :
         LET c == rows[id].content
         IN needed(Last(rows[id].first)) =>
              /\ kept(c)
              /\ c \notin Contents(disk) =>
                   \A n \in DOMAIN Members[c] : needed(n) => kept(Members[c][n])

\* When nothing went wrong and no two names are equal in NFC, each file has one
\* live row with its location by the time the SIP is created and afterwards:
\* none is then removed for want of a row, and the SIP has all the rows.
RowsMatchDisk ==
  (faults = 0 /\ script \in {"sip", "linking", "done"} /\ ~\E id \in DOMAIN rows : Twinned(id)) =>
    /\ \A p \in DOMAIN disk :
         Cardinality({id \in DOMAIN rows : Live(id) /\ rows[id].loc = p}) = 1
    /\ \A id \in DOMAIN rows : Live(id) =>
         Present(rows[id].loc) /\ (script \in {"linking", "done"} => rows[id].sip)

\* "Deleting ... because it is not in the database": the removal of files
\* without linking information deletes no file that has a live row.
DeletesOnlyUnregistered ==
  [][script = "linking" =>
       \A p \in DOMAIN disk \ DOMAIN disk' :
         ~\E id \in DOMAIN rows : Live(id) /\ rows[id].loc = p]_vars

=============================================================================
