----------------------------- MODULE FileChecks -----------------------------
(***************************************************************************)
(* The scripts that look at the files of a transfer and record what they   *)
(* found: updateSizeAndChecksum, verifychecksum, archivematicaClamscan,    *)
(* identifyFileFormat, characterizeFile, validateFile, policyCheck and     *)
(* transcribeFile, in the order the workflow runs them, with the files     *)
(* that extraction adds in between.                                        *)
(*                                                                         *)
(* A script gets the files in a batch.  What it records is committed once, *)
(* after the last file; only then does the worker answer.  A worker that   *)
(* dies before its answer makes the batch run again, from the start.       *)
(***************************************************************************)
EXTENDS Integers, FiniteSets, FiniteSetsExt

CONSTANTS
  Originals,  \* files of objects/ with a row from the start
  Reingested, \* those that come out of an AIP that was ingested before
  Extracted,  \* files that extraction adds to them
  Loose,      \* files on disk without a row, outside of objects/
  Oversized,  \* files larger than the scanner's limits
  HashFiles,  \* the checksum files in metadata/
  NRules,     \* number of rules of the registry for a format and a purpose
  Faults,     \* how a worker may die: subset of {"early", "late"}
  MaxOdd      \* bound: how many results may be other than usual, deaths included

ASSUME FileChecksAssumption ==
  /\ IsFiniteSet(Originals) /\ IsFiniteSet(Extracted) /\ IsFiniteSet(Loose)
  /\ Originals # {} /\ Reingested \subseteq Originals
  /\ NRules \in Nat /\ MaxOdd \in Nat
  /\ Faults \subseteq {"early", "late"}

VARIABLES
  link,   \* the link of the workflow, or how the transfer ended
  files,  \* the files that have a row
  todo,   \* tasks of the batch that have not run
  codes,  \* exit codes of those that have
  db,     \* what the database holds
  tx,     \* the same, with what the open transaction or the queue adds
  done,   \* the batch is over, its answer not sent
  unsaid, \* files the scanner could not say its version for
  died,   \* how workers died
  odd     \* how many results were not the usual ones

vars == <<link, files, todo, codes, db, tx, done, unsaid, died, odd>>

Rules == 1..NRules
Ended == {"failed", "sip"}
Scans == {"scan", "scan2"}

\* The events that these scripts record: type and outcome ("partial" stands for
\* the outcome "partial pass").
EventKinds ==
  {<<"message digest calculation", "">>, <<"fixity check", "pass">>,
   <<"virus check", "Pass">>, <<"virus check", "Fail">>,
   <<"format identification", "Positive">>, <<"format identification", "Not identified">>,
   <<"validation", "pass">>, <<"validation", "partial">>, <<"validation", "fail">>,
   <<"transcription", "transcribed">>, <<"transcription", "not transcribed">>}

\* Rows of a table have no order: what matters of them is how many there are.
Empty ==
  LET Per(x) == [f \in Originals \cup Extracted |-> x]
  IN [sized   |-> {},                              \* File.size is not null
      events  |-> Per([e \in EventKinds |-> 0]),
      format  |-> Per(0),                          \* FileFormatVersion rows
      derived |-> Per(0),                          \* Derivation rows it is the source of
      ids     |-> Per(0),                          \* FileID rows
      outputs |-> Per([i \in Rules |-> 0]),        \* FPCommandOutput, for each rule
      texts   |-> Per(0)]                          \* text/ocr files derived of it

Count(d, f, e) == d.events[f][e]
Has(d, f, type) == \E e \in EventKinds : e[1] = type /\ Count(d, f, e) > 0
Plus(counts, e) == [counts EXCEPT ![e] = @ + 1]
Add(d, f, type, outcome) == [d EXCEPT !.events[f] = Plus(@, <<type, outcome>>)]

-----------------------------------------------------------------------------
(* The workflow: the tasks of a link, and the link after an exit code.     *)

\* verifychecksum is one task that takes the checksum files in turn,
\* updateSizeAndChecksum one that takes the rows.  The scan of the whole
\* transfer also gets the files that have no row.
Tasks(l, F) ==
  CASE l = "fixity" -> HashFiles
    [] l = "scan"   -> F \cup Loose
    [] l \in Ended \cup {"extract"} -> {}
    [] OTHER        -> F

\* Where the links lead by exit code.  "Do you want to scan for viruses", "Perform
\* policy checks" and "Transcribe" are choices: their links may be passed over.
AfterSizes(c)     == IF c = 0 THEN {"fixity"} ELSE {"failed"}
AfterFixity(c)    == IF c = 0 THEN {"scan", "identify"} ELSE {"failed"}
AfterScan(c)      == IF c = 0 THEN {"identify"} ELSE {"failed"}
AfterIdentify     == {"extract", "characterize"}
AfterExtract      == {"scan2", "identify2"}
AfterScan2(c)     == IF c = 0 THEN {"identify2"} ELSE {"failed"}
AfterIdentify2    == {"characterize"}
AfterCharacterize == {"validate"}
AfterValidate     == {"policy", "transcribe", "sip"}
AfterPolicy       == {"transcribe", "sip"}
AfterTranscribe   == {"sip"}

After(l, c) ==
  CASE l = "sizes"        -> AfterSizes(c)
    [] l = "fixity"       -> AfterFixity(c)
    [] l = "scan"         -> AfterScan(c)
    [] l = "identify"     -> AfterIdentify
    [] l = "extract"      -> AfterExtract
    [] l = "scan2"        -> AfterScan2(c)
    [] l = "identify2"    -> AfterIdentify2
    [] l = "characterize" -> AfterCharacterize
    [] l = "validate"     -> AfterValidate
    [] l = "policy"       -> AfterPolicy
    [] l = "transcribe"   -> AfterTranscribe

Go(l, F) ==
  /\ link' = l
  /\ todo' = Tasks(l, F)
  /\ codes' = <<>>
  /\ done' = FALSE

Init ==
  /\ link = "sizes" /\ files = Originals
  /\ todo = Tasks("sizes", Originals) /\ codes = <<>>
  /\ db = Empty /\ tx = Empty
  /\ done = FALSE /\ unsaid = {} /\ died = {}
  /\ odd = 0

\* One task of the batch ends with exit code c and d is what is recorded
\* then; n of its results were not the usual ones.
EndsSaying(t, c, d, n, u) ==
  /\ todo' = todo \ {t}
  /\ codes' = [v \in DOMAIN codes \cup {t} |-> IF v = t THEN c ELSE codes[v]]
  /\ tx' = d
  /\ unsaid' = u
  /\ odd + n <= MaxOdd /\ odd' = odd + n
  /\ UNCHANGED <<link, files, done, died>>

Ends(t, c, d, n) == EndsSaying(t, c, d, n, unsaid)

\* A file with two formats makes the scripts raise when they ask for the one.
Ambiguous(f) == tx.format[f] > 1

Unusual(r, usual) == Cardinality({i \in DOMAIN r : r[i] # usual})

-----------------------------------------------------------------------------
(* updateSizeAndChecksum: the sizes are collected row by row and written   *)
(* after the loop.  A file that is not on disk is passed over.  A row of a *)
(* reingested AIP that is not in the METS raises, which ends the loop; the *)
(* rows before it are written all the same.                                *)

SizeOf(d, f) == [Add(d, f, "message digest calculation", "") EXCEPT !.sized = @ \cup {f}]

\* The METS of the earlier ingest has the size, perhaps a format and a
\* derivative; no event tells of it.
SizeFromMets(d, f, format, derivative) ==
  [d EXCEPT !.sized = @ \cup {f}, !.format[f] = @ + format, !.derived[f] = @ + derivative]

SizeAndChecksum ==
  /\ link = "sizes"
  /\ \E f \in todo :
       \/ f \notin Reingested /\ Ends(f, 0, SizeOf(tx, f), 0)
       \/ f \in Reingested /\ \E m, n \in {0, 1} : Ends(f, 0, SizeFromMets(tx, f, m, n), 0)
       \/ Ends(f, 0, tx, 1)
  /\ UNCHANGED db

SizeRaises ==
  /\ link = "sizes" /\ todo # {}
  /\ odd < MaxOdd /\ odd' = odd + 1
  /\ \E f \in todo : codes' = [u \in DOMAIN codes \cup {f} |-> IF u = f THEN 1 ELSE codes[u]]
  /\ todo' = {}
  /\ UNCHANGED <<link, files, db, tx, done, unsaid, died>>

-----------------------------------------------------------------------------
(* verifychecksum: each checksum file that agrees with the objects gives   *)
(* every row an event, in a transaction of its own.                        *)

WritePremisEvents(d) ==
  [d EXCEPT !.events = [f \in DOMAIN @ |->
      IF f \in files THEN Plus(@[f], <<"fixity check", "pass">>) ELSE @[f]]]

CompareHashes ==
  /\ link = "fixity"
  /\ \E h \in todo, ok \in BOOLEAN :
       /\ Ends(h, IF ok THEN 0 ELSE 1, IF ok THEN WritePremisEvents(tx) ELSE tx, IF ok THEN 0 ELSE 1)
       /\ db' = tx'

-----------------------------------------------------------------------------
(* archivematicaClamscan.                                                  *)

\* get_size: File.size of a row, which may be null; else the size at a path.
GetSizeIsNone(f, path) == IF f \in files THEN f \notin db.sized ELSE path = "none"

\* Fault: only a scan that passed counts as one.
AlreadyPassed(f) == f \in files /\ Count(db, f, <<"virus check", "Pass">>) > 0

FileAlreadyScanned(f) == f \in files /\ Has(db, f, "virus check")

\* ClamdScanner.scan, ClamScanner.scan and clamd_exception_handler: whether
\* the file passed, or "none" when it was not scanned.
Scanner == {"OK", "FOUND", "refused", "error", "no version"}
Passed(r) == CASE r = "OK" -> "yes" [] r = "refused" -> "none" [] OTHER -> "no"

\* Fault: nothing is recorded of a scan that failed.
QueuePasses(d, f, passed, versioned) ==
  IF passed # "yes" \/ f \notin files THEN d ELSE Add(d, f, "virus check", "Pass")

\* The event names the scanner and its version: if that cannot be had, the
\* exception takes the place of the event.
QueueEvent(d, f, passed, versioned) ==
  IF passed = "none" \/ f \notin files \/ ~versioned THEN d
  ELSE Add(d, f, "virus check", IF passed = "yes" THEN "Pass" ELSE "Fail")

\* Fault: a scan that fails is recorded, not reported.
ScanCodeSilent(passed) == 0

ScanCode(passed) == IF passed = "no" THEN 1 ELSE 0

\* The task of a file without a row names the path of the last row, or one
\* where nothing is (Package.Files sets "%relativeLocation", without its %).
ScanPaths(f) == IF f \in files THEN {f} ELSE {"none"} \cup files

ScanFile ==
  /\ link \in Scans
  /\ \E f \in todo : \E path \in ScanPaths(f) :
       IF FileAlreadyScanned(f) THEN Ends(f, 0, tx, 0)
       ELSE \E r \in Scanner :
              LET scanned == ~GetSizeIsNone(f, path) /\ path \notin Oversized
                  passed == IF GetSizeIsNone(f, path) THEN "no"
                            ELSE IF path \in Oversized THEN "none" ELSE Passed(r)
                  versioned == ~scanned \/ r # "no version"
              IN EndsSaying(f, ScanCode(passed), QueueEvent(tx, f, passed, versioned),
                            IF r = "OK" THEN 0 ELSE 1,
                            IF versioned THEN unsaid ELSE unsaid \cup {f})
  /\ UNCHANGED db

-----------------------------------------------------------------------------
(* identifyFileFormat, with --disable-reidentify.                          *)

\* FileFormatVersion.objects.get_or_create: a format that is there is replaced.
Identified(d, f) ==
  [Add(d, f, "format identification", "Positive") EXCEPT
     !.format[f] = IF @ = 0 THEN 1 ELSE @, !.ids[f] = @ + 1]

Identify ==
  /\ link \in {"identify", "identify2"}
  /\ \E f \in todo :
       IF Has(tx, f, "format identification") THEN Ends(f, 0, tx, 0)
       ELSE \/ ~Ambiguous(f) /\ Ends(f, 0, Identified(tx, f), 0)
            \/ Ambiguous(f) /\ Ends(f, 1, tx, 0)
            \/ Ends(f, 255, Add(tx, f, "format identification", "Not identified"), 1)
            \/ Ends(f, 255, tx, 1)      \* the command failed
  /\ UNCHANGED db

-----------------------------------------------------------------------------
(* characterizeFile: every rule runs; the outputs of those that worked are *)
(* kept whatever the others did.                                           *)

SaveOutputs(d, f, r) ==
  [d EXCEPT !.outputs[f] = [i \in Rules |-> @[i] + (IF r[i] = "xml" THEN 1 ELSE 0)]]

Characterize ==
  /\ link = "characterize"
  /\ \E f \in todo :
       IF \E i \in Rules : tx.outputs[f][i] > 0 THEN Ends(f, 0, tx, 0)
       ELSE IF Ambiguous(f) THEN Ends(f, 1, tx, 0)
       ELSE \E r \in [Rules -> {"xml", "not xml", "failed"}] :
              Ends(f, IF \E i \in Rules : r[i] = "failed" THEN 255 ELSE 0,
                   SaveOutputs(tx, f, r), Unusual(r, "xml"))
  /\ UNCHANGED db

-----------------------------------------------------------------------------
(* validateFile: the rules run up to the first that fails.  "error" is a   *)
(* command that failed or whose output is no literal, which leaves no      *)
(* event.                                                                  *)

FirstOf(r, S) == Min({i \in Rules : r[i] \in S} \cup {NRules + 1})

\* The outcomes of the rules that left an event.
ValidationOutcomes(r) ==
  LET k == FirstOf(r, {"fail", "error"})
  IN [i \in {j \in Rules : j <= k /\ r[j] # "error"} |-> r[i]]

ValidationCode(r) == IF \E i \in Rules : r[i] \in {"fail", "error"} THEN 1 ELSE 0

AddAll(d, f, type, s) ==
  [d EXCEPT !.events[f] = [e \in EventKinds |->
     @[e] + (IF e[1] = type THEN Cardinality({i \in DOMAIN s : s[i] = e[2]}) ELSE 0)]]

Validate ==
  /\ link = "validate"
  /\ \E f \in todo :
       IF Ambiguous(f) THEN Ends(f, 1, tx, 0)
       ELSE \E r \in [Rules -> {"pass", "partial", "fail", "error"}] :
              Ends(f, ValidationCode(r), AddAll(tx, f, "validation", ValidationOutcomes(r)),
                   Unusual(r, "pass"))
  /\ UNCHANGED db

-----------------------------------------------------------------------------
(* policyCheck: a rule that fails does not keep the others from running;   *)
(* output that is no JSON does.                                            *)

PolicyOutcomes(r) ==
  LET k == FirstOf(r, {"malformed"})
  IN [i \in {j \in Rules : j < k /\ r[j] # "error"} |-> r[i]]

PolicyCode(r) == IF \E i \in Rules : r[i] # "pass" THEN 1 ELSE 0

PolicyCheck ==
  /\ link = "policy"
  /\ \E f \in todo :
       IF Ambiguous(f) THEN Ends(f, 1, tx, 0)
       ELSE \E r \in [Rules -> {"pass", "fail", "error", "malformed"}] :
              Ends(f, PolicyCode(r), AddAll(tx, f, "validation", PolicyOutcomes(r)),
                   Unusual(r, "pass"))
  /\ UNCHANGED db

-----------------------------------------------------------------------------
(* transcribeFile: every rule leaves an event; a file is registered when   *)
(* the command left one, whatever its exit code.                           *)

TranscriptionOutcomes(r) ==
  [i \in Rules |-> IF r[i] \in {"text", "no text"} THEN "transcribed" ELSE "not transcribed"]

Texts(r) == Cardinality({i \in Rules : r[i] \in {"text", "failed, text"}})

Transcribe ==
  /\ link = "transcribe"
  /\ \E f \in todo :
       IF Ambiguous(f) THEN Ends(f, 1, tx, 0)
       ELSE \E r \in [Rules -> {"text", "no text", "failed", "failed, text"}] :
              Ends(f, IF \E i \in Rules : r[i] \in {"failed", "failed, text"} THEN 1 ELSE 0,
                   [AddAll(tx, f, "transcription", TranscriptionOutcomes(r)) EXCEPT !.texts[f] = @ + Texts(r)],
                   Unusual(r, "text"))
  /\ UNCHANGED db

-----------------------------------------------------------------------------
(* Extraction, as far as these scripts see it: new rows, with their sizes. *)

Extract ==
  /\ link = "extract"
  /\ files' = files \cup Extracted
  /\ tx' = [db EXCEPT !.sized = @ \cup Extracted]
  /\ db' = tx'
  /\ \E l \in After(link, 0) : Go(l, files')
  /\ UNCHANGED <<unsaid, died, odd>>

-----------------------------------------------------------------------------
(* The end of a batch, and a worker that dies before or after the commit.  *)

Running == link \notin Ended \cup {"extract"}

Commit ==
  /\ Running /\ todo = {} /\ ~done
  /\ db' = tx
  /\ done' = TRUE
  /\ UNCHANGED <<link, files, todo, codes, tx, unsaid, died, odd>>

\* call raises after its loop: what the batch recorded is rolled back, the worker
\* fails the batch, and the server drops its exit codes (handleJobUpdate): the
\* job counts as done with exit code 0.
CommitRaises ==
  /\ Running /\ todo = {} /\ ~done
  /\ odd < MaxOdd /\ odd' = odd + 1
  /\ tx' = db
  /\ codes' = <<>>
  /\ done' = TRUE
  /\ UNCHANGED <<link, files, todo, db, unsaid, died>>

Answer ==
  /\ done
  /\ \E l \in After(link, Max({codes[t] : t \in DOMAIN codes} \cup {0})) : Go(l, files)
  /\ UNCHANGED <<files, db, tx, unsaid, died, odd>>

Die ==
  /\ Running
  /\ odd < MaxOdd /\ odd' = odd + 1
  /\ LET when == IF done THEN "late" ELSE "early"
     IN when \in Faults /\ died' = died \cup {when}
  /\ tx' = db
  /\ Go(link, files)
  /\ UNCHANGED <<files, db, unsaid>>

Job ==
  \/ SizeAndChecksum \/ CompareHashes \/ ScanFile \/ Identify
  \/ Characterize \/ Validate \/ PolicyCheck \/ Transcribe

Works == Job \/ SizeRaises \/ Extract \/ Commit \/ CommitRaises \/ Answer

Over == link \in Ended /\ UNCHANGED vars

Next == Works \/ Die \/ Over

\* A worker goes on with a batch it has, and the server with the next link.
Spec == Init /\ [][Next]_vars /\ WF_vars(Works)

-----------------------------------------------------------------------------
TypeOK ==
  /\ link \in Ended \cup Scans \cup {"sizes", "fixity", "identify", "extract", "identify2",
                                     "characterize", "validate", "policy", "transcribe"}
  /\ files \subseteq Originals \cup Extracted
  /\ todo \subseteq files \cup Loose \cup HashFiles
  /\ DOMAIN codes \cap todo = {} /\ \A t \in DOMAIN codes : codes[t] \in {0, 1, 255}
  /\ done \in BOOLEAN /\ (done => todo = {})
  /\ unsaid \subseteq files \cup Loose /\ died \subseteq Faults
  /\ odd \in 0..MaxOdd

\* A transfer does not go on past a scan with a file for which the scan
\* recorded Fail ("If True or None, then we have no error, the file can move
\* through the process as expected").
FailedScanStops ==
  link \notin Scans \cup {"failed"} =>
    \A f \in files : Count(db, f, <<"virus check", "Fail">>) = 0

\* So it is unless a worker died after the commit: the batch then runs again
\* and finds the file scanned.
FailedScanStopsOnce == "late" \notin died => FailedScanStops

\* No Pass is recorded for a file with a row whose scan ends with exit code 1, and
\* Fail is, unless the scanner could not say its version.
FailureIsRecorded ==
  link \in Scans /\ done =>
    \A f \in files \cap DOMAIN codes : codes[f] = 1 =>
      /\ Count(db, f, <<"virus check", "Pass">>) = 0
      /\ Count(db, f, <<"virus check", "Fail">>) = 1 \/ f \in unsaid

\* A file has at most one event of a scan and of an identification, and each
\* rule's output once, however often the links run and batches are delivered.
RecordedOnce ==
  \A f \in files :
    /\ Count(db, f, <<"virus check", "Pass">>) + Count(db, f, <<"virus check", "Fail">>) <= 1
    /\ Count(db, f, <<"format identification", "Positive">>)
         + Count(db, f, <<"format identification", "Not identified">>) <= 1
    /\ \A i \in Rules : db.outputs[f][i] <= 1

\* A file has a FileID for each event that names its format, and a format if it
\* has such an event.  Otherwise it has one only if the METS of an earlier ingest
\* named it, and two only if the batch that took it from there ran twice.
FormatIsIdentified ==
  \A f \in files :
    LET events == Count(db, f, <<"format identification", "Positive">>) IN
    /\ db.ids[f] = events
    /\ events > 0 => db.format[f] > 0
    /\ f \notin Reingested => db.format[f] = events
    /\ db.format[f] <= 1 \/ "late" \in died

\* A checksum file vouches for all files of the transfer or for none.
FixityAllOrNone ==
  \A f, g \in Originals :
    Count(db, f, <<"fixity check", "pass">>) = Count(db, g, <<"fixity check", "pass">>)

\* Exit code 0 of a validation means that every rule passed, or passed in part,
\* and left its event.
ValidatedMeansPassed ==
  link = "validate" /\ done =>
    \A f \in files \cap DOMAIN codes : codes[f] = 0 =>
      Count(db, f, <<"validation", "pass">>) + Count(db, f, <<"validation", "partial">>) >= NRules

\* What the database says of a file is what the tools said: a failed scan, an
\* identified format, the verdict of a checksum file and a validation are
\* recorded as they came out, although they are committed after the loop over
\* the batch, which may raise and run again.
RecordsAreTrue ==
  FailureIsRecorded /\ FormatIsIdentified /\ FixityAllOrNone /\ ValidatedMeansPassed

=============================================================================
