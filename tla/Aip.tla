-------------------------------- MODULE Aip --------------------------------
(***************************************************************************)
(* How a SIP becomes an AIP: the scripts declarePIDs, bindPID, bindPIDs,   *)
(* createMETS, bagit, compressAIP, removeDirectories, verifyAIP, storeAIP  *)
(* and failedSIPCleanup, in the order the workflow runs them.              *)
(*                                                                         *)
(* The content of a file is what its row's checksum was taken of ("ok"),   *)
(* something else of the same size ("bad"), or nothing ("none").  A worker *)
(* that dies before its answer makes the task run again; what it did to    *)
(* the disk and to the handle server stays.                                *)
(***************************************************************************)
EXTENDS Integers, Sequences, FiniteSets, SequencesExt

CONSTANTS
  Files,         \* files of objects/, each with a row
  Unverified,    \* those whose rows verify_checksums passes over
  Loose,         \* files that may be in objects/ without a row
  Former,        \* those that are the METS of an earlier ingest
  Known,         \* which files the METS of an earlier ingest may describe
  Sources,       \* Derivation rows there may be: the source of each file
  Dirs,          \* directories with a row
  Sip,           \* the SIP, as the bearer of identifiers
  Declarations,  \* what identifiers.json may declare: sequences of identifiers
  Programs,      \* compression programs that may be chosen
  Faults,        \* how a worker may die: subset of {"early", "late"}
  MaxOdd         \* bound: how many things may go wrong, deaths included

ASSUME AipAssumption ==
  /\ IsFiniteSet(Files) /\ IsFiniteSet(Loose) /\ IsFiniteSet(Dirs)
  /\ Unverified \subseteq Files /\ Former \subseteq Loose /\ Known \subseteq SUBSET Files
  /\ Files \cap Loose = {} /\ Files \cap Dirs = {}
  /\ Sip \notin Files \cup Dirs /\ "write" \notin Files \cup Loose
  /\ Sources \subseteq [Files -> Files \cup {"lost"}]
  /\ Programs \subseteq {"None", "7z", "gzip"}
  /\ Faults \subseteq {"early", "late"}
  /\ MaxOdd \in Nat

VARIABLES
  link,      \* the link of the workflow, or how the SIP ended
  todo,      \* what the task still has to do, in order
  code,      \* the exit code of the task so far
  done,      \* the task is committed, its answer not sent
  declared,  \* the content of identifiers.json
  program,   \* the compression program that was chosen
  reingest,  \* the SIP is an AIP that was ingested before
  known,     \* the files the METS of the earlier ingest describes
  source,    \* the source of each file: itself, that of its Derivation, or "lost"
  doc, mets, \* the METS document: in memory, and as written: <<file, group>>
  sip,       \* the content of objects/ of the SIP
  bag,       \* the bag: how far it is, data/ and the manifest
  archive,   \* the compressed AIP
  tmp,       \* the directory verify_aip extracts to exists
  db, tx,    \* the database, and the same with the open transaction
  handles,   \* what is bound at the handle server
  hurt,      \* files missing from the start or altered on disk
  missed,    \* files the archive lacks although the compression counts as done
  unwritten, \* a fixity check event could not be written
  odd        \* how many things went wrong

input == <<declared, program, reingest, known, source>>
disk == <<sip, bag, archive, tmp>>
vars == <<link, todo, code, done, input, doc, mets, disk, db, tx, handles, hurt, missed, unwritten, odd>>

Bearers == Files \cup Dirs \cup {Sip}
Ended   == {"stored", "rejected", "failed"}
Content == {"ok", "bad", "none"}
All     == Files \cup Loose
Nothing == [f \in All |-> "none"]
NoBag   == [is |-> "none", data |-> Nothing, manifest |-> Nothing]

\* The group of a file: its own, or that of the file it was derived from.
Group(f) == IF f \in Files /\ source[f] # "lost" THEN source[f] ELSE f

\* What createMETS starts from.
OldMets == {<<f, Group(f)>> : f \in known}

-----------------------------------------------------------------------------
(* The workflow: what a task does, step by step, and the link after it.    *)

AnyOrder(S) == SetToSeq(S)

Tasks(l) ==
  CASE l = "declare"  -> declared
    [] l = "bindFile" -> AnyOrder(Files)
    [] l = "bindUnit" -> <<Sip>> \o AnyOrder(Dirs)
    [] l = "mets"     -> AnyOrder(All) \o <<"write">>
    [] l = "bag"      -> <<"mkdir", "copy", "make">>
    [] l = "remove"   -> IF archive.is = "none" THEN <<"objects">> ELSE <<"bag", "objects">>
    [] l = "verify"   -> <<"extract", "check">>
    [] OTHER          -> <<l>>

\* The links and where they lead by exit code.  "Bind PIDs?" and "Store AIP" are
\* choices; declaring and binding identifiers goes on after a failure, and so
\* does removing directories.
AfterDeclare     == {"bindFile", "mets"}
AfterBindFile    == {"bindUnit"}
AfterBindUnit    == {"mets"}
AfterMets(c)     == IF c = 0 THEN {"bag"} ELSE {"cleanup"}
AfterBag(c)      == IF c = 0 THEN {"compress"} ELSE {"cleanup"}

\* Fault: the bagged files are removed whatever the compression returned.
AfterCompressAny(c) == {"remove"}

AfterCompress(c) == IF c = 0 THEN {"remove"} ELSE {"cleanup"}
AfterRemove      == {"verify", "reject"}
AfterVerify(c)   == IF c = 0 THEN {"store"} ELSE {"cleanup"}
AfterStore       == {"stored"}
AfterReject      == {"rejected"}
AfterCleanup     == {"failed"}

After(l, c) ==
  CASE l = "declare"  -> AfterDeclare
    [] l = "bindFile" -> AfterBindFile
    [] l = "bindUnit" -> AfterBindUnit
    [] l = "mets"     -> AfterMets(c)
    [] l = "bag"      -> AfterBag(c)
    [] l = "compress" -> AfterCompress(c)
    [] l = "remove"   -> AfterRemove
    [] l = "verify"   -> AfterVerify(c)
    [] l = "store"    -> AfterStore
    [] l = "reject"   -> AfterReject
    [] l = "cleanup"  -> AfterCleanup

Init ==
  /\ link = "declare"
  /\ declared \in Declarations /\ todo = declared
  /\ program \in Programs /\ reingest \in BOOLEAN
  /\ known \in IF reingest THEN Known ELSE {{}}
  /\ source \in Sources
  /\ code = 0 /\ done = FALSE
  /\ doc = OldMets /\ mets = {}
  /\ sip \in [All -> {"ok", "none"}]
  /\ \A f \in Files : reingest \/ sip[f] = "ok"
  /\ \A f \in Former : reingest \/ sip[f] = "none"
  /\ bag = NoBag /\ archive = NoBag /\ tmp = FALSE
  /\ db = [pids     |-> [b \in Bearers |-> 0],   \* hdl identifiers of its row
           given    |-> [b \in Bearers |-> 0],   \* declared identifiers of its row
           aipRow   |-> FALSE,                   \* a File row for the AIP itself
           events   |-> <<>>,                    \* its fixity check events
           arranged |-> TRUE]                    \* SIPArrange rows
  /\ tx = db
  /\ handles = {} /\ hurt = {f \in All : sip[f] = "none"} /\ missed = {}
  /\ unwritten = FALSE /\ odd = 0

\* The next step of the task is s.
At(l, s) == link = l /\ ~done /\ todo # <<>> /\ Head(todo) = s

Spend(n) == odd + n <= MaxOdd /\ odd' = odd + n

\* The step went well, or it failed, which ends the task.
GoesOn == todo' = Tail(todo) /\ UNCHANGED <<link, code, done, input, hurt, missed, unwritten>>
Fails  == todo' = <<>> /\ code' = 1 /\ UNCHANGED <<link, done, input, hurt, missed, unwritten>>

-----------------------------------------------------------------------------
(* Identifiers.                                                            *)

\* DeclarePIDs: an identifier is written at once, there is no transaction.
\* One that lacks its type or its value makes the rest be passed over, one for
\* a path without a row only itself.
DeclareOne ==
  /\ link = "declare" /\ ~done /\ todo # <<>>
  /\ LET id == Head(todo) IN
       IF ~id.complete
       THEN Fails /\ UNCHANGED <<db, tx>>
       ELSE /\ GoesOn
            /\ db' = IF id.of \in Bearers THEN [db EXCEPT !.given[id.of] = @ + 1] ELSE db
            /\ tx' = db'
  /\ UNCHANGED <<disk, handles, odd, doc, mets>>

\* _update_file_mdl.
AddFilePid(d, f) == IF d.pids[f] = 0 THEN [d EXCEPT !.pids[f] = @ + 1] ELSE d

\* Fault: the identifier is recorded before the handle server was asked.
BindFileFirst(f) ==
  /\ At("bindFile", f)
  /\ tx' = AddFilePid(tx, f)
  /\ \/ handles' = handles \cup {f} /\ UNCHANGED <<code, odd>>
     \/ code' = 1 /\ UNCHANGED handles /\ Spend(1)
  /\ todo' = Tail(todo)
  /\ UNCHANGED <<link, done, input, disk, db, hurt, missed, unwritten, doc, mets>>

\* bind_pid: one job of the batch per file; one that the handle server refuses
\* does not keep the others from being bound.
BindFile(f) ==
  /\ At("bindFile", f)
  /\ \/ /\ handles' = handles \cup {f}
        /\ tx' = AddFilePid(tx, f)
        /\ UNCHANGED <<code, odd>>
     \/ /\ code' = 1
        /\ UNCHANGED <<handles, tx>>
        /\ Spend(1)
  /\ todo' = Tail(todo)
  /\ UNCHANGED <<link, done, input, disk, db, hurt, missed, unwritten, doc, mets>>

\* bind_pids: the SIP, then its directories; the first refusal ends the task.
BindUnit(b) ==
  /\ At("bindUnit", b)
  /\ \/ /\ handles' = handles \cup {b}
        /\ tx' = [tx EXCEPT !.pids[b] = @ + 1]
        /\ GoesOn
        /\ UNCHANGED odd
     \/ /\ Fails
        /\ Spend(1)
        /\ UNCHANGED <<handles, tx>>
  /\ UNCHANGED <<disk, db, doc, mets>>

-----------------------------------------------------------------------------
(* createMETS: the files on disk, in the order of their names.             *)

\* Fault: a file without a row is passed over.
MetsEntryQuiet(f) ==
  CASE f \in Loose        -> "skip"
    [] source[f] = "lost" -> "raise"
    [] OTHER              -> "add"

\* createFileSec: a file without a row is counted as an error and the walk goes
\* on; a derived file without its Derivation raises.
MetsEntry(f) ==
  CASE f \in Loose        -> "error"
    [] source[f] = "lost" -> "raise"
    [] OTHER              -> "add"

\* add_new_files, when an AIP is ingested again: the old METS is the start, and
\* a file it does not describe needs a row, unless it is the old METS itself.
MetsNewEntry(f) ==
  CASE \E g \in Files : <<f, g>> \in doc -> "skip"
    [] f \in Former                     -> "skip"
    [] f \in Loose                      -> "raise"
    [] OTHER                            -> "add"

\* There, a file is put in the group of its source only if the document already
\* has the source.
NewGroup(f) == IF \E g \in Files : <<Group(f), g>> \in doc THEN Group(f) ELSE f

MetsItem(f) ==
  /\ At("mets", f)
  /\ LET e == IF sip[f] = "none" THEN "skip" ELSE IF reingest THEN MetsNewEntry(f) ELSE MetsEntry(f)
         g == IF reingest THEN NewGroup(f) ELSE Group(f) IN
       /\ todo' = IF e = "raise" THEN <<>> ELSE Tail(todo)
       /\ code' = IF e \in {"raise", "error"} THEN 1 ELSE code
       /\ doc' = IF e = "add" THEN doc \cup {<<f, g>>} ELSE doc
  /\ UNCHANGED <<link, done, input, mets, disk, db, tx, handles, hurt, missed, unwritten, odd>>

\* The document is written before main raises because of the errors.
MetsWrite ==
  /\ At("mets", "write")
  /\ mets' = doc
  /\ GoesOn
  /\ UNCHANGED <<doc, disk, db, tx, handles, odd>>

-----------------------------------------------------------------------------
(* bag_with_empty_directories.                                             *)

\* os.mkdir raises when an earlier run left the directory.
BagMkdir ==
  /\ At("bag", "mkdir")
  /\ IF bag.is = "none"
     THEN GoesOn /\ bag' = [bag EXCEPT !.is = "dir"]
     ELSE Fails /\ UNCHANGED bag
  /\ UNCHANGED <<sip, archive, tmp, db, tx, handles, odd, doc, mets>>

\* shutil.copytree copies what it can and raises when it could not copy all.
BagCopy ==
  /\ At("bag", "copy")
  /\ \/ GoesOn /\ bag' = [bag EXCEPT !.data = sip] /\ UNCHANGED odd
     \/ /\ Fails
        /\ Spend(1)
        /\ \E S \in SUBSET All :
             bag' = [bag EXCEPT !.data = [f \in All |-> IF f \in S THEN sip[f] ELSE "none"]]
  /\ UNCHANGED <<sip, archive, tmp, db, tx, handles, doc, mets>>

\* make_bag: the checksums are taken of the files that were copied.
MakeBag ==
  /\ At("bag", "make")
  /\ \/ /\ GoesOn
        /\ bag' = [bag EXCEPT !.is = "bag", !.manifest = bag.data]
        /\ UNCHANGED odd
     \/ Fails /\ Spend(1) /\ UNCHANGED bag
  /\ UNCHANGED <<sip, archive, tmp, db, tx, handles, doc, mets>>

-----------------------------------------------------------------------------
(* compress_aip, and the removal of what was bagged.                       *)

\* What the archiver left: all of the bag, or the part of it tar or 7z could
\* read.  An archive left by a worker that died is written over.
Archived(S) ==
  [is       |-> "whole",
   data     |-> [f \in All |-> IF f \in S THEN bag.data[f] ELSE "none"],
   manifest |-> bag.manifest]

\* 7z tells by its exit code that it could not read all.  Of "tar | gzip" and
\* "tar | pbzip2" bash returns the exit code of the compressor, which may itself
\* have failed, and not that of tar.
ArchiverCodes(S) ==
  IF S = All THEN {0} ELSE IF program = "7z" THEN {1} ELSE {0, 1}

Compress ==
  /\ At("compress", "compress")
  /\ IF program = "None"
     THEN GoesOn /\ UNCHANGED <<archive, odd>>
     ELSE \E S \in SUBSET All :
            /\ archive' = Archived(S)
            /\ Spend(IF S = All THEN 0 ELSE 1)
            /\ code' \in ArchiverCodes(S)
            /\ missed' = IF code' = 0 THEN All \ S ELSE {}
            /\ todo' = Tail(todo)
            /\ UNCHANGED <<link, done, input, hurt, unwritten>>
  /\ UNCHANGED <<sip, bag, tmp, db, tx, handles, doc, mets>>

\* The directories are removed one by one.
RemoveBag ==
  /\ At("remove", "bag")
  /\ bag' = NoBag
  /\ GoesOn
  /\ UNCHANGED <<sip, archive, tmp, db, tx, handles, odd, doc, mets>>

RemoveObjects ==
  /\ At("remove", "objects")
  /\ sip' = Nothing
  /\ GoesOn
  /\ UNCHANGED <<bag, archive, tmp, db, tx, handles, odd, doc, mets>>

-----------------------------------------------------------------------------
(* verify_aip and store_aip.                                               *)

TheAip == IF archive.is = "none" THEN bag ELSE archive

\* os.makedirs raises when an earlier run left the directory; an AIP that is a
\* directory is not extracted.
VerifyExtract ==
  /\ At("verify", "extract")
  /\ \/ archive.is = "none" /\ GoesOn /\ UNCHANGED <<tmp, odd>>
     \/ archive.is # "none" /\ ~tmp /\ GoesOn /\ tmp' = TRUE /\ UNCHANGED odd
     \/ archive.is # "none" /\ tmp /\ Fails /\ UNCHANGED <<tmp, odd>>
     \/ archive.is # "none" /\ ~tmp /\ Fails /\ tmp' = TRUE /\ Spend(1)
  /\ UNCHANGED <<sip, bag, archive, db, tx, handles, doc, mets>>

\* bag.validate(completeness_only=True): the files are those of the manifest.
Complete(b) == \A f \in All : (b.data[f] = "none") = (b.manifest[f] = "none")

\* Fault: a row whose file is not in the manifest is skipped.
VerifyChecksumsSkips(b) == \A f \in Files \ Unverified : b.manifest[f] \in {"ok", "none"}

\* verify_checksums: the checksum of every row is that of the manifest.  Rows of
\* removable files and of manual normalizations are passed over.
VerifyChecksums(b) ==
  \A f \in Files \ Unverified : b.manifest[f] = "ok" \/ (reingest /\ b.manifest[f] = "none")

\* write_premis_event: an AIP that is a directory has no row of its own, the
\* foreign key is violated, the error is swallowed and nothing is committed.
WritePremisEvent(outcome) ==
  IF tx.aipRow THEN [tx EXCEPT !.events = Append(@, outcome)] ELSE tx

\* Fault: a Pass is written before the checksums were compared.
VerifyCheckOptimist ==
  /\ At("verify", "check")
  /\ todo' = Tail(todo)
  /\ \E typesMatch, written \in BOOLEAN :
       LET passes == typesMatch /\ VerifyChecksums(TheAip) IN
       /\ Spend(IF typesMatch /\ written THEN 0 ELSE 1)
       /\ IF ~Complete(TheAip)
          THEN code' = 1 /\ UNCHANGED <<tx, unwritten>>
          ELSE /\ code' = IF passes THEN 0 ELSE 1
               /\ tx' = IF written THEN WritePremisEvent("Pass") ELSE tx
               /\ unwritten' = (unwritten \/ ~written)
  /\ tmp' \in {FALSE, tmp}
  /\ UNCHANGED <<link, done, input, hurt, missed, sip, bag, archive, db, handles, doc, mets>>

\* The checksum algorithm of the settings may no longer be that of the rows, any
\* error of the insertion of the event is swallowed, and the directory may stay.
VerifyCheck ==
  /\ At("verify", "check")
  /\ todo' = Tail(todo)
  /\ \E typesMatch, written \in BOOLEAN :
       LET passes == typesMatch /\ VerifyChecksums(TheAip) IN
       /\ Spend(IF typesMatch /\ written THEN 0 ELSE 1)
       /\ IF ~Complete(TheAip)
          THEN code' = 1 /\ UNCHANGED <<tx, unwritten>>
          ELSE /\ code' = IF passes THEN 0 ELSE 1
               /\ tx' = IF written THEN WritePremisEvent(IF passes THEN "Pass" ELSE "Fail") ELSE tx
               /\ unwritten' = (unwritten \/ ~written)
  /\ tmp' \in {FALSE, tmp}
  /\ UNCHANGED <<link, done, input, hurt, missed, sip, bag, archive, db, handles, doc, mets>>

\* store_aip measures the AIP; failedSIPCleanup forgets how it was arranged.
StoreAip ==
  /\ At("store", "store")
  /\ GoesOn
  /\ UNCHANGED <<disk, db, tx, handles, odd, doc, mets>>

FailedSipCleanup ==
  /\ At("cleanup", "cleanup") \/ At("reject", "reject")
  /\ GoesOn
  /\ tx' = [tx EXCEPT !.arranged = FALSE]
  /\ UNCHANGED <<disk, db, handles, odd, doc, mets>>

-----------------------------------------------------------------------------
(* The end of a task, and what may happen around it.                       *)

Running == link \notin Ended

\* Commit.  compress_aip writes to the database here, whatever the exit code.  A
\* row of the AIP that an earlier run left makes the insertion raise outside of
\* the JobContext: the worker fails the whole batch, the server drops it, and the
\* job counts as done with exit code 0, whatever the archiver returned.
Commit ==
  /\ Running /\ todo = <<>> /\ ~done
  /\ done' = TRUE
  /\ IF link = "compress" /\ program # "None"
     THEN IF db.aipRow
          THEN /\ code' = 0 /\ db' = db
               /\ missed' = {f \in All : archive.data[f] # bag.data[f]}
          ELSE /\ db' = [db EXCEPT !.aipRow = TRUE]
               /\ UNCHANGED <<code, missed>>
     ELSE db' = tx /\ UNCHANGED <<code, missed>>
  /\ tx' = db'
  /\ UNCHANGED <<link, todo, input, disk, handles, hurt, unwritten, odd, doc, mets>>

Answer ==
  /\ done
  /\ \E l \in After(link, code) : link' = l /\ todo' = IF l \in Ended THEN <<>> ELSE Tasks(l)
  /\ code' = 0 /\ done' = FALSE /\ doc' = OldMets
  /\ UNCHANGED <<input, disk, db, tx, handles, hurt, missed, unwritten, odd, mets>>

\* The worker dies; the task runs again from its first step.
Die ==
  /\ Running
  /\ (IF done THEN "late" ELSE "early") \in Faults
  /\ Spend(1)
  /\ todo' = Tasks(link) /\ code' = 0 /\ done' = FALSE
  /\ tx' = db /\ doc' = OldMets
  /\ UNCHANGED <<link, input, disk, db, handles, hurt, missed, unwritten, mets>>

\* A file is altered on disk, or lost.
Alter(f) ==
  /\ Running
  /\ Spend(1)
  /\ hurt' = hurt \cup {f}
  /\ \E v \in {"bad", "none"} :
       \/ sip[f] = "ok" /\ sip' = [sip EXCEPT ![f] = v] /\ UNCHANGED bag
       \/ bag.data[f] = "ok" /\ bag' = [bag EXCEPT !.data[f] = v] /\ UNCHANGED sip
  /\ UNCHANGED <<link, todo, code, done, input, archive, tmp, db, tx, handles, missed, unwritten, doc, mets>>

Works ==
  \/ DeclareOne
  \/ \E f \in Files : BindFile(f)
  \/ \E b \in Bearers : BindUnit(b)
  \/ (\E f \in All : MetsItem(f)) \/ MetsWrite
  \/ BagMkdir \/ BagCopy \/ MakeBag
  \/ Compress \/ RemoveBag \/ RemoveObjects
  \/ VerifyExtract \/ VerifyCheck \/ StoreAip \/ FailedSipCleanup
  \/ Commit \/ Answer

Over == link \in Ended /\ UNCHANGED vars

Next == Works \/ Die \/ (\E f \in All : Alter(f)) \/ Over

\* A worker takes what is queued; users decide; deaths are bounded.
Spec == Init /\ [][Next]_vars /\ WF_vars(Works)

-----------------------------------------------------------------------------
(* Properties.                                                             *)

TypeOK ==
  /\ doc \cup mets \subseteq Files \X Files
  /\ link \in {"declare", "bindFile", "bindUnit", "mets", "bag", "compress", "remove",
               "verify", "store", "reject", "cleanup"} \cup Ended
  /\ code \in {0, 1} /\ done \in BOOLEAN /\ tmp \in BOOLEAN
  /\ sip \in [All -> Content]
  /\ \A b \in {bag, archive} :
       b.is \in {"none", "dir", "bag", "whole"} /\ {b.data, b.manifest} \subseteq [All -> Content]
  /\ {db, tx} \subseteq [pids : [Bearers -> Nat], given : [Bearers -> Nat], aipRow : BOOLEAN,
                         events : Seq({"Pass", "Fail"}), arranged : BOOLEAN]
  /\ handles \subseteq Bearers /\ hurt \cup missed \subseteq All
  /\ unwritten \in BOOLEAN /\ odd \in 0..MaxOdd

\* No file is lost: whatever fails and whenever a worker dies, a file nothing
\* altered is in the SIP, in the bag or in the archive.  The scripts remove the
\* bag and the objects long before verify_aip looks at the archive, so a file the
\* archiver left out is the exception when its failure was not told: bash returns
\* the exit code of the compressor and not that of tar, and the exit code of a
\* repeated compression is dropped, because the AIP has a row already.
NothingLost ==
  \A f \in All \ (hurt \cup missed) :
    sip[f] = "ok" \/ bag.data[f] = "ok" \/ archive.data[f] = "ok"

\* A stored AIP holds the true content of every file that nothing altered, and
\* its manifest the checksums that were taken when the transfer began: a file
\* altered or lost before it was bagged never gets as far.  (A reingested AIP
\* may lack files; rows that verify_checksums passes over are not vouched for.)
StoredIsTrue ==
  link \in {"store", "stored"} =>
    \A f \in Files \ Unverified :
      \/ TheAip.manifest[f] = "ok" /\ (f \notin hurt => TheAip.data[f] = "ok")
      \/ reingest /\ TheAip.manifest[f] = "none"

\* The groups a file may be in.
Groups(f) == {Group(f)} \cup IF f \in known \/ ~reingest THEN {} ELSE {f}

\* The METS document of a stored AIP describes every file that was bagged but the
\* METS of the earlier ingest, once and in the group of the file it was derived
\* from, and none that was not, although it is written long before the bag and a
\* worker may have died in between.  (On a reingest a new file may be in a group
\* of its own, when its source was not in the document yet, and the document also
\* lists files the payload lacks.)
StoredIsDescribed ==
  link \in {"store", "stored"} =>
    LET bagged == {f \in All : TheAip.manifest[f] # "none"} IN
      /\ \A f \in bagged \ Former :
           \E g \in Groups(f) : {h \in Files : <<f, h>> \in mets} = {g}
      /\ reingest \/ \A e \in mets : e[1] \in bagged \cup Unverified

\* The fixity check events of the AIP tell the truth: there is a Pass only if
\* the manifest has the checksums of the rows, however often the task was run,
\* and an AIP that has a row of its own is stored only with one, unless it could
\* not be written.
FixityIsTrue ==
  /\ Contains(db.events, "Pass") => VerifyChecksums(TheAip)
  /\ link \in {"store", "stored"} /\ db.aipRow => Contains(db.events, "Pass") \/ unwritten

\* An identifier is recorded only when the handle server has it, also when the
\* transaction of a dead worker was rolled back, and a file never has it twice.
PidIsBound ==
  /\ \A b \in Bearers : db.pids[b] > 0 => b \in handles
  /\ \A f \in Files : db.pids[f] <= 1

=============================================================================
