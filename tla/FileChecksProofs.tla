-------------------------- MODULE FileChecksProofs --------------------------
(***************************************************************************)
(* Proofs about FileChecks, for any files, checksum files, number of rules *)
(* and of unusual results, deaths of workers included.                     *)
(*                                                                         *)
(* The part of the invariant that is about one state of the database,      *)
(* Sound, holds of the committed state and of the one within the           *)
(* transaction.  The rest says what the exit codes of the batch that runs  *)
(* have to do with what it recorded.                                       *)
(***************************************************************************)
EXTENDS FileChecks, FiniteSetTheorems, TLAPS

All == Originals \cup Extracted
Counts == [EventKinds -> Nat]
Records == [sized : SUBSET All, events : [All -> Counts], format : [All -> Nat],
            derived : [All -> Nat], ids : [All -> Nat],
            outputs : [All -> [Rules -> Nat]], texts : [All -> Nat]]

ScanPass == <<"virus check", "Pass">>
ScanFail == <<"virus check", "Fail">>
Positive == <<"format identification", "Positive">>
NotIdentified == <<"format identification", "Not identified">>
FixityPass == <<"fixity check", "pass">>
Valid == <<"validation", "pass">>
PartValid == <<"validation", "partial">>

Batches == Scans \cup {"sizes", "fixity", "identify", "identify2", "characterize", "validate",
                       "policy", "transcribe"}

\* What RecordedOnce, FormatIsIdentified and FixityAllOrNone say, of one state
\* of the database.
Sound(d) ==
  /\ \A f \in All :
       /\ Count(d, f, ScanPass) + Count(d, f, ScanFail) <= 1
       /\ Count(d, f, Positive) + Count(d, f, NotIdentified) <= 1
       /\ d.ids[f] = Count(d, f, Positive)
       /\ Count(d, f, Positive) > 0 => d.format[f] > 0
       /\ f \notin Reingested => d.format[f] = Count(d, f, Positive)
       /\ \A i \in Rules : d.outputs[f][i] <= 1
  /\ \A f, g \in Originals : Count(d, f, FixityPass) = Count(d, g, FixityPass)

Types ==
  /\ link \in Batches \cup Ended \cup {"extract"}
  /\ Originals \subseteq files /\ files \subseteq All
  /\ todo \subseteq Tasks(link, files)
  /\ DOMAIN codes \cap todo = {} /\ \A t \in DOMAIN codes : codes[t] \in {0, 1, 255}
  /\ done \in BOOLEAN
  /\ unsaid \subseteq files \cup Loose /\ died \subseteq Faults
  /\ odd \in 0..MaxOdd
  /\ db \in Records /\ tx \in Records

Control ==
  /\ link \notin Batches => todo = {} /\ done = FALSE /\ tx = db
  /\ done => todo = {} /\ tx = db
  /\ link = "fixity" => tx = db

Recorded == Sound(db) /\ Sound(tx)

\* Exit code c of a scan of f agrees with what x has of it.
ScanAgrees(x, f, c, u) ==
  c = 1 => Count(x, f, ScanPass) = 0 /\ (Count(x, f, ScanFail) = 1 \/ f \in u)

\* A scan has recorded nothing of a file whose task has not run, and the exit
\* codes of the others agree with what it has recorded.
Scanned ==
  link \in Scans =>
    /\ \A f \in todo \cap files : tx.events[f] = db.events[f]
    /\ \A f \in DOMAIN codes \cap files : ScanAgrees(tx, f, codes[f], unsaid)

\* Exit code 0 of a validation means that every rule passed, at least in part.
Passes(d, f) == Count(d, f, Valid) + Count(d, f, PartValid)
Validated ==
  link = "validate" =>
    \A f \in DOMAIN codes \cap files : codes[f] = 0 => Passes(tx, f) >= NRules

ChecksInv == Types /\ Control /\ Recorded /\ Scanned /\ Validated

\* Where Fail may be recorded: during a scan, with exit code 1.
NoFail ==
  /\ link \notin Scans \cup {"failed"} =>
       \A f \in All : Count(db, f, ScanFail) = 0 /\ Count(tx, f, ScanFail) = 0
  /\ link \in Scans =>
       /\ ~done => \A f \in All : Count(db, f, ScanFail) = 0
       /\ \A f \in All : Count(tx, f, ScanFail) > 0 => f \in DOMAIN codes /\ codes[f] = 1

\* The sizes run once: until they are committed no file has a format, and the
\* files still to do have none in the transaction either.
OneFormat ==
  /\ \A f \in All : db.format[f] <= 1 /\ tx.format[f] <= 1
  /\ link = "sizes" =>
       /\ ~done => \A f \in All : db.format[f] = 0
       /\ \A f \in todo \cap All : tx.format[f] = 0

StopInv == "late" \notin died => NoFail /\ OneFormat

-----------------------------------------------------------------------------
(* The operators on records.                                               *)

\* The kinds of events that the properties are about.
LEMMA KindFacts ==
  /\ ScanPass \in EventKinds /\ ScanFail \in EventKinds /\ Positive \in EventKinds
  /\ NotIdentified \in EventKinds /\ FixityPass \in EventKinds /\ Valid \in EventKinds
  /\ PartValid \in EventKinds /\ PartValid[1] = "validation" /\ PartValid[2] = "partial"
  /\ ScanPass[1] = "virus check" /\ ScanFail[1] = "virus check"
  /\ Positive[1] = "format identification" /\ NotIdentified[1] = "format identification"
  /\ FixityPass[1] = "fixity check" /\ Valid[1] = "validation" /\ Valid[2] = "pass"
  /\ ScanPass # ScanFail /\ Positive # NotIdentified
PROOF BY DEF ScanPass, ScanFail, Positive, NotIdentified, FixityPass, Valid, PartValid, EventKinds

\* d but for its events.
SameButEvents(x, d) ==
  /\ x.sized = d.sized /\ x.format = d.format /\ x.derived = d.derived /\ x.ids = d.ids
  /\ x.outputs = d.outputs /\ x.texts = d.texts

\* Replacing the events of a record.
LEMMA WithEvents ==
  ASSUME NEW d \in Records, NEW E \in [All -> Counts], NEW x, x = [d EXCEPT !.events = E]
  PROVE  x \in Records /\ x.events = E /\ SameButEvents(x, d)
PROOF BY DEF Records, SameButEvents

\* The counts of a record are numbers.
LEMMA CountIsNat ==
  ASSUME NEW d \in Records, NEW f \in All, NEW k \in EventKinds
  PROVE  Count(d, f, k) \in Nat
PROOF BY DEF Records, Counts, Count

\* One more event of one kind.
LEMMA PlusEffect ==
  ASSUME NEW c \in Counts, NEW e \in EventKinds
  PROVE  /\ Plus(c, e) \in Counts /\ Plus(c, e)[e] = c[e] + 1
         /\ \A k \in EventKinds : k # e => Plus(c, e)[k] = c[k]
PROOF BY DEF Counts, Plus

\* x is d with one more event e of f.
OneMore(x, d, f, e) ==
  /\ x \in Records /\ SameButEvents(x, d)
  /\ \A g \in All : g # f => x.events[g] = d.events[g]
  /\ \A k \in EventKinds : k # e => Count(x, f, k) = Count(d, f, k)
  /\ Count(x, f, e) = Count(d, f, e) + 1

\* Add adds one event.
LEMMA AddEffect ==
  ASSUME NEW d \in Records, NEW f \in All, NEW type, NEW outcome, <<type, outcome>> \in EventKinds
  PROVE  OneMore(Add(d, f, type, outcome), d, f, <<type, outcome>>)
PROOF
  <1> DEFINE e == <<type, outcome>>
             F == Plus(d.events[f], e)
             E == [d.events EXCEPT ![f] = F]
             x == Add(d, f, type, outcome)
  <1>1. x = [d EXCEPT !.events = E]
    BY DEF Add
  <1>2. e \in EventKinds
    OBVIOUS
  <1> HIDE DEF e
  <1>3. d.events \in [All -> Counts] /\ d.events[f] \in Counts
    BY DEF Records
  <1>4. F \in Counts /\ F[e] = d.events[f][e] + 1 /\ \A k \in EventKinds : k # e => F[k] = d.events[f][k]
    BY <1>2, <1>3, PlusEffect
  <1> HIDE DEF F
  <1>5. E \in [All -> Counts] /\ E[f] = F /\ \A g \in All : g # f => E[g] = d.events[g]
    BY <1>3, <1>4
  <1> HIDE DEF E, x
  <1>6. x \in Records /\ x.events = E /\ SameButEvents(x, d)
    BY <1>1, <1>5, WithEvents
  <1>7. OneMore(x, d, f, e)
    BY <1>4, <1>5, <1>6 DEF OneMore, Count
  <1> QED BY <1>7 DEF x, e

\* The rules are finitely many.
LEMMA RulesFinite == IsFiniteSet(Rules)
PROOF BY FS_Interval, FileChecksAssumption DEF Rules

\* The number of rules with an outcome.
LEMMA OutcomesCount ==
  ASSUME NEW S \in SUBSET Rules, NEW s, NEW o
  PROVE  Cardinality({i \in S : s[i] = o}) \in Nat
PROOF
  <1>1. IsFiniteSet(Rules)
    BY RulesFinite
  <1>2. IsFiniteSet({i \in S : s[i] = o})
    BY <1>1, FS_Subset
  <1> QED BY <1>2, FS_CardinalityType

\* The number of texts is a number.
LEMMA TextsIsNat ==
  ASSUME NEW r
  PROVE  Texts(r) \in Nat
PROOF
  <1>1. IsFiniteSet({i \in Rules : r[i] \in {"text", "failed, text"}})
    BY RulesFinite, FS_Subset
  <1> QED BY <1>1, FS_CardinalityType DEF Texts

\* Adding to one count.
LEMMA CountMore ==
  ASSUME NEW y \in [All -> Nat], NEW f \in All, NEW n \in Nat
  PROVE  [y EXCEPT ![f] = @ + n] \in [All -> Nat]
PROOF OBVIOUS

\* The number of unusual results is a number.
LEMMA UnusualIsNat ==
  ASSUME NEW S, NEW r \in [Rules -> S], NEW usual
  PROVE  Unusual(r, usual) \in Nat
PROOF
  <1>1. IsFiniteSet(Rules)
    BY RulesFinite
  <1>2. IsFiniteSet({i \in DOMAIN r : r[i] # usual})
    BY <1>1, FS_Subset
  <1> QED BY <1>2, FS_CardinalityType DEF Unusual

\* x is d with more events of f, all of the given type.
More(x, d, f, type) ==
  /\ x \in Records /\ SameButEvents(x, d)
  /\ \A g \in All : g # f => x.events[g] = d.events[g]
  /\ \A k \in EventKinds : k[1] # type => Count(x, f, k) = Count(d, f, k)

\* AddAll adds events of one type.
LEMMA AddAllEffect ==
  ASSUME NEW d \in Records, NEW f \in All, NEW type, NEW s, DOMAIN s \subseteq Rules
  PROVE  /\ More(AddAll(d, f, type, s), d, f, type)
         /\ \A k \in EventKinds : k[1] = type =>
              Count(AddAll(d, f, type, s), f, k) = Count(d, f, k) + Cardinality({i \in DOMAIN s : s[i] = k[2]})
PROOF
  <1> DEFINE N(k) == Cardinality({i \in DOMAIN s : s[i] = k[2]})
             F == [k \in EventKinds |-> d.events[f][k] + (IF k[1] = type THEN N(k) ELSE 0)]
             E == [d.events EXCEPT ![f] = F]
             x == AddAll(d, f, type, s)
  <1>1. x = [d EXCEPT !.events = E]
    BY DEF AddAll
  <1>2. \A k \in EventKinds : N(k) \in Nat
    BY OutcomesCount
  <1> HIDE DEF N
  <1>3. d.events \in [All -> Counts] /\ d.events[f] \in Counts
    BY DEF Records
  <1>4. /\ F \in Counts
        /\ \A k \in EventKinds : /\ k[1] # type => F[k] = d.events[f][k]
                                 /\ k[1] = type => F[k] = d.events[f][k] + N(k)
    BY <1>2, <1>3 DEF Counts
  <1> HIDE DEF F
  <1>5. E \in [All -> Counts] /\ E[f] = F /\ \A g \in All : g # f => E[g] = d.events[g]
    BY <1>3, <1>4
  <1> HIDE DEF E, x
  <1>6. x \in Records /\ x.events = E /\ SameButEvents(x, d)
    BY <1>1, <1>5, WithEvents
  <1>7. More(x, d, f, type)
    BY <1>4, <1>5, <1>6 DEF More, Count
  <1>8. \A k \in EventKinds : k[1] = type => Count(x, f, k) = Count(d, f, k) + N(k)
    BY <1>4, <1>5, <1>6 DEF Count
  <1> QED BY <1>7, <1>8 DEF x, N

\* The same scans failed.
SameFails(x, d) == \A f \in All : Count(x, f, ScanFail) = Count(d, f, ScanFail)

\* More events of another type keep the database sound.
LEMMA MoreSound ==
  ASSUME NEW d \in Records, Sound(d), NEW f \in All, NEW type, NEW x, More(x, d, f, type),
         type \notin {"virus check", "format identification", "fixity check"}
  PROVE  Sound(x) /\ SameFails(x, d)
PROOF
  <1>1. \A g \in All : \A k \in {ScanPass, ScanFail, Positive, NotIdentified, FixityPass} :
          Count(x, g, k) = Count(d, g, k)
    BY KindFacts DEF More, Count
  <1>2. x.format = d.format /\ x.ids = d.ids /\ x.outputs = d.outputs
    BY DEF More, SameButEvents
  <1>3. Originals \subseteq All
    BY DEF All
  <1>4. Sound(x)
    BY <1>1, <1>2, <1>3, ZenonT(60) DEF Sound
  <1> QED BY <1>1, <1>4 DEF SameFails

\* Sound is about events, formats, FileID rows and outputs only.
LEMMA SoundParts ==
  ASSUME NEW d, NEW x, Sound(d),
         x.events = d.events /\ x.format = d.format /\ x.ids = d.ids /\ x.outputs = d.outputs
  PROVE  Sound(x)
PROOF BY DEF Sound, Count

-----------------------------------------------------------------------------
(* One task of a batch.                                                    *)

\* A task gives a file a first format; only the sizes may add to one.
FormatGrows(x, t) ==
  /\ \A g \in All : g # t => x.format[g] = tx.format[g]
  /\ t \in All => \/ x.format[t] <= 1 \/ x.format[t] <= tx.format[t]
                  \/ link = "sizes" /\ x.format[t] <= tx.format[t] + 1

\* What a task with exit code c makes, x, of the transaction.
TaskDoes(t, c, x) ==
  /\ x \in Records /\ Sound(x) /\ c \in {0, 1, 255} /\ FormatGrows(x, t)
  /\ link # "fixity" => \A g \in All : g # t => x.events[g] = tx.events[g]
  /\ link \notin Scans => SameFails(x, tx)
  /\ link \in Scans /\ t \in files =>
       /\ ScanAgrees(x, t, c, unsaid')
       /\ Count(x, t, ScanFail) > 0 => c = 1 \/ Count(db, t, ScanFail) > 0
  /\ link \in Scans /\ t \notin files => x = tx
  /\ link = "validate" /\ c = 0 => Passes(x, t) >= NRules

\* The task t ends with exit code c and leaves x.
EndsWith(t, c, x) ==
  \E n \in Nat, u \in {unsaid, unsaid \cup {t}} :
    EndsSaying(t, c, x, n, u) /\ (u = unsaid \/ link \in Scans)

LEMMA EndsQuietly ==
  ASSUME NEW t, NEW c, NEW x, NEW n \in Nat, Ends(t, c, x, n)
  PROVE  EndsWith(t, c, x)
PROOF BY DEF Ends, EndsWith

TaskEnds ==
  \E t \in todo : \E c, x :
    /\ link \in Batches /\ EndsWith(t, c, x) /\ TaskDoes(t, c, x)
    /\ db' = IF link = "fixity" THEN x ELSE db

\* A task that ended.
LEMMA TaskEnded ==
  ASSUME NEW t \in todo, NEW c, NEW x, link \in Batches,
         EndsWith(t, c, x), TaskDoes(t, c, x), link # "fixity", db' = db
  PROVE  TaskEnds
PROOF
  <1>1. db' = IF link = "fixity" THEN x ELSE db
    OBVIOUS
  <1> QED BY <1>1 DEF TaskEnds

\* A task that adds no format.
LEMMA FormatKept ==
  ASSUME NEW t, NEW x, x.format = tx.format, tx \in Records
  PROVE  FormatGrows(x, t)
PROOF BY DEF FormatGrows, Records

\* Which tasks a link has.
LEMMA TasksOf ==
  ASSUME NEW l \in Batches \cup Ended \cup {"extract"}, NEW F
  PROVE  /\ Tasks(l, F) \subseteq F \cup Loose \cup HashFiles
         /\ l \notin Batches => Tasks(l, F) = {}
         /\ l \in Scans \cup {"validate"} => F \subseteq Tasks(l, F)
         /\ l \in Batches \ {"fixity", "scan"} => Tasks(l, F) = F
PROOF
  <1>1. CASE l = "fixity"
    BY <1>1 DEF Tasks, Batches, Scans, Ended
  <1>2. CASE l = "scan"
    BY <1>2 DEF Tasks, Batches, Scans, Ended
  <1>3. CASE l \in Ended \cup {"extract"}
    BY <1>3 DEF Tasks, Batches, Scans, Ended
  <1>4. CASE l \in Batches \ {"fixity", "scan"}
    <2>1. Tasks(l, F) = F
      BY <1>4 DEF Tasks, Batches, Scans, Ended
    <2> QED BY <1>4, <2>1 DEF Batches, Scans
  <1> QED BY <1>1, <1>2, <1>3, <1>4

\* In most links the tasks are files.
LEMMA TaskIsFile ==
  ASSUME ChecksInv, NEW f \in todo, link \in Batches \ {"fixity", "scan"}
  PROVE  f \in files /\ f \in All
PROOF
  <1>1. Tasks(link, files) = files
    BY TasksOf
  <1> QED BY <1>1 DEF ChecksInv, Types

\* A task that records nothing, outside of scans.
LEMMA NothingDoes ==
  ASSUME ChecksInv, link \notin Scans, NEW f, NEW c \in {0, 1, 255}, c = 0 => link # "validate"
  PROVE  TaskDoes(f, c, tx)
PROOF
  <1>1. tx \in Records /\ Sound(tx)
    BY DEF ChecksInv, Types, Recorded
  <1>2. FormatGrows(tx, f)
    BY <1>1, FormatKept
  <1> QED BY <1>1, <1>2 DEF TaskDoes, SameFails

\* updateSizeAndChecksum, for a file that it reads.
LEMMA SizeDoes ==
  ASSUME ChecksInv, link = "sizes", NEW f \in All
  PROVE  TaskDoes(f, 0, SizeOf(tx, f))
PROOF
  <1>1. tx \in Records /\ Sound(tx)
    BY DEF ChecksInv, Types, Recorded
  <1> DEFINE e == <<"message digest calculation", "">>
             ty == "message digest calculation"
             a == Add(tx, f, "message digest calculation", "")
             x == SizeOf(tx, f)
  <1>4. /\ e \in EventKinds /\ e[1] = ty
        /\ ty \notin {"virus check", "format identification", "fixity check"}
    BY DEF EventKinds
  <1>5. OneMore(a, tx, f, e)
    BY <1>1, <1>4, AddEffect
  <1>s. x = [a EXCEPT !.sized = @ \cup {f}]
    BY DEF SizeOf
  <1> HIDE DEF a, x, e, ty
  <1>6. More(a, tx, f, ty)
    BY <1>4, <1>5 DEF OneMore, More
  <1>7. Sound(a) /\ SameFails(a, tx)
    BY <1>1, <1>4, <1>6, MoreSound
  <1>8. a \in Records /\ a.format = tx.format /\ \A g \in All : g # f => a.events[g] = tx.events[g]
    BY <1>5 DEF OneMore, SameButEvents
  <1>9. /\ x \in Records /\ x.events = a.events /\ x.format = a.format
        /\ x.ids = a.ids /\ x.outputs = a.outputs
    BY <1>8, <1>s DEF Records
  <1>10. Sound(x)
    BY <1>7, <1>9, SoundParts
  <1>11. FormatGrows(x, f)
    BY <1>1, <1>8, <1>9, FormatKept
  <1>12. TaskDoes(f, 0, x)
    BY <1>7, <1>8, <1>9, <1>10, <1>11 DEF TaskDoes, SameFails, Count, Scans
  <1> QED BY <1>12 DEF x

\* updateSizeAndChecksum, for a file it finds in the METS of an earlier ingest.
LEMMA MetsDoes ==
  ASSUME ChecksInv, link = "sizes", NEW f \in All, f \in Reingested, NEW m \in {0, 1}, NEW n \in {0, 1}
  PROVE  TaskDoes(f, 0, SizeFromMets(tx, f, m, n))
PROOF
  <1>1. tx \in Records /\ Sound(tx)
    BY DEF ChecksInv, Types, Recorded
  <1> DEFINE x == SizeFromMets(tx, f, m, n)
             F == [tx.format EXCEPT ![f] = @ + m]
             D == [tx.derived EXCEPT ![f] = @ + n]
  <1>2. x = [tx EXCEPT !.sized = @ \cup {f}, !.format = F, !.derived = D]
    BY DEF SizeFromMets
  <1>3. tx.format \in [All -> Nat] /\ tx.derived \in [All -> Nat] /\ tx.sized \subseteq All
    BY <1>1 DEF Records
  <1>4. F \in [All -> Nat] /\ F[f] = tx.format[f] + m /\ \A g \in All : g # f => F[g] = tx.format[g]
    BY <1>3
  <1>5. D \in [All -> Nat]
    BY <1>3
  <1> HIDE DEF F, D, x
  <1>6. x \in Records /\ x.events = tx.events /\ x.format = F /\ x.ids = tx.ids /\ x.outputs = tx.outputs
    BY <1>1, <1>2, <1>3, <1>4, <1>5 DEF Records
  <1>7. \A g, k : Count(x, g, k) = Count(tx, g, k)
    BY <1>6 DEF Count
  <1>8. \A g \in All : tx.format[g] \in Nat /\ (tx.format[g] > 0 => F[g] > 0)
    BY <1>3, <1>4
  <1>9. Sound(x)
    BY <1>1, <1>4, <1>6, <1>7, <1>8 DEF Sound
  <1>10. FormatGrows(x, f)
    BY <1>3, <1>4, <1>6 DEF FormatGrows
  <1>11. TaskDoes(f, 0, x)
    BY <1>6, <1>7, <1>9, <1>10 DEF TaskDoes, SameFails, Scans
  <1> QED BY <1>11 DEF x

\* updateSizeAndChecksum.
LEMMA SizeEnds ==
  ASSUME ChecksInv, SizeAndChecksum
  PROVE  TaskEnds
PROOF
  <1>1. link = "sizes" /\ db' = db /\ link \in Batches /\ link # "fixity" /\ link \notin Scans
    BY DEF SizeAndChecksum, Batches, Scans
  <1>2. PICK f \in todo :
          \/ f \notin Reingested /\ Ends(f, 0, SizeOf(tx, f), 0)
          \/ f \in Reingested /\ \E m, n \in {0, 1} : Ends(f, 0, SizeFromMets(tx, f, m, n), 0)
          \/ Ends(f, 0, tx, 1)
    BY DEF SizeAndChecksum
  <1>3. f \in All
    BY <1>1, TaskIsFile DEF Scans
  <1>4. CASE Ends(f, 0, SizeOf(tx, f), 0)
    <2>1. EndsWith(f, 0, SizeOf(tx, f))
      BY <1>4, EndsQuietly
    <2> QED BY <1>1, <1>3, <2>1, SizeDoes, TaskEnded
  <1>5. CASE f \in Reingested /\ \E m, n \in {0, 1} : Ends(f, 0, SizeFromMets(tx, f, m, n), 0)
    <2>1. PICK m \in {0, 1}, n \in {0, 1} : Ends(f, 0, SizeFromMets(tx, f, m, n), 0)
      BY <1>5
    <2>2. EndsWith(f, 0, SizeFromMets(tx, f, m, n))
      BY <2>1, EndsQuietly
    <2> QED BY <1>1, <1>3, <1>5, <2>2, MetsDoes, TaskEnded
  <1>6. CASE Ends(f, 0, tx, 1)
    <2>1. EndsWith(f, 0, tx)
      BY <1>6, EndsQuietly
    <2>2. TaskDoes(f, 0, tx)
      BY <1>1, NothingDoes
    <2> QED BY <1>1, <2>1, <2>2, TaskEnded
  <1> QED BY <1>2, <1>4, <1>5, <1>6

\* verifychecksum: every original gets the event, or none.
LEMMA FixityEnds ==
  ASSUME ChecksInv, CompareHashes
  PROVE  TaskEnds
PROOF
  <1>1. link = "fixity" /\ tx \in Records /\ Sound(tx) /\ Originals \subseteq files /\ files \subseteq All
    BY DEF CompareHashes, ChecksInv, Types, Recorded
  <1> DEFINE C(ok) == IF ok THEN 0 ELSE 1
             W == WritePremisEvents(tx)
             X(ok) == IF ok THEN W ELSE tx
  <1>2. PICK h \in todo, ok \in BOOLEAN : Ends(h, C(ok), X(ok), C(ok)) /\ db' = tx'
    BY DEF CompareHashes
  <1>3. db' = X(ok)
    BY <1>2 DEF Ends, EndsSaying
  <1> DEFINE G(f) == IF f \in files THEN Plus(tx.events[f], FixityPass) ELSE tx.events[f]
             E == [f \in All |-> G(f)]
  <1>4. W = [tx EXCEPT !.events = E]
    <2>1. DOMAIN tx.events = All
      BY <1>1 DEF Records
    <2>2. W = [tx EXCEPT !.events = [f \in DOMAIN tx.events |-> G(f)]]
      BY DEF WritePremisEvents, FixityPass
    <2> QED BY <2>1, <2>2, Zenon
  <1>5. ASSUME NEW f \in All
        PROVE  /\ G(f) \in Counts
               /\ f \in files => G(f)[FixityPass] = Count(tx, f, FixityPass) + 1
               /\ \A k \in EventKinds : k # FixityPass => G(f)[k] = Count(tx, f, k)
    <2>1. tx.events[f] \in Counts
      BY <1>1 DEF Records
    <2> DEFINE y == tx.events[f]
               z == Plus(y, FixityPass)
    <2>2. FixityPass \in EventKinds
      BY KindFacts
    <2> HIDE DEF y
    <2>3. /\ z \in Counts /\ z[FixityPass] = y[FixityPass] + 1
          /\ \A k \in EventKinds : k # FixityPass => z[k] = y[k]
      BY <2>1, <2>2, PlusEffect DEF y
    <2>4. G(f) = IF f \in files THEN z ELSE y
      BY DEF y
    <2> HIDE DEF z, G
    <2>5. \A k : Count(tx, f, k) = y[k]
      BY DEF Count, y
    <2> QED BY <2>1, <2>3, <2>4, <2>5 DEF y
  <1> HIDE DEF G, W
  <1>6. E \in [All -> Counts] /\ \A f \in All : E[f] = G(f)
    BY <1>5
  <1> HIDE DEF E
  <1>7. W \in Records /\ W.events = E /\ SameButEvents(W, tx)
    BY <1>1, <1>4, <1>6, WithEvents
  <1>8. \A f \in All : \A k \in {ScanPass, ScanFail, Positive, NotIdentified} : Count(W, f, k) = Count(tx, f, k)
    BY <1>5, <1>6, <1>7, KindFacts DEF Count
  <1>9. \A f \in Originals : Count(W, f, FixityPass) = Count(tx, f, FixityPass) + 1
    BY <1>1, <1>5, <1>6, <1>7 DEF Count, All
  <1>10. Sound(W)
    BY <1>1, <1>7, <1>8, <1>9 DEF Sound, SameButEvents
  <1>g. FormatGrows(X(ok), h)
    BY <1>1, <1>7, FormatKept DEF SameButEvents
  <1>11. TaskDoes(h, C(ok), X(ok))
    BY <1>1, <1>7, <1>8, <1>10, <1>g DEF TaskDoes, SameFails, Scans
  <1>12. C(ok) \in {0, 1, 255} /\ C(ok) \in Nat
    OBVIOUS
  <1> HIDE DEF C, X
  <1>13. EndsWith(h, C(ok), X(ok))
    BY <1>2, <1>12, EndsQuietly
  <1> QED BY <1>1, <1>3, <1>11, <1>13 DEF TaskEnds, Batches

\* archivematicaClamscan: a file is scanned if the database has no scan of it,
\* and then neither has the queue.
LEMMA ScanEnds ==
  ASSUME ChecksInv, ScanFile
  PROVE  TaskEnds
PROOF
  <1>1. /\ link \in Scans /\ db' = db /\ tx \in Records /\ db \in Records /\ Sound(tx)
        /\ files \subseteq All
        /\ \A f \in todo \cap files : tx.events[f] = db.events[f]
    BY DEF ScanFile, ChecksInv, Types, Recorded, Scanned
  <1>2. PICK f \in todo : \E path \in ScanPaths(f) :
          IF FileAlreadyScanned(f) THEN Ends(f, 0, tx, 0)
          ELSE \E r \in Scanner :
                 LET scanned == ~GetSizeIsNone(f, path) /\ path \notin Oversized
                     passed == IF GetSizeIsNone(f, path) THEN "no"
                               ELSE IF path \in Oversized THEN "none" ELSE Passed(r)
                     versioned == ~scanned \/ r # "no version"
                 IN EndsSaying(f, ScanCode(passed), QueueEvent(tx, f, passed, versioned),
                               IF r = "OK" THEN 0 ELSE 1,
                               IF versioned THEN unsaid ELSE unsaid \cup {f})
    BY DEF ScanFile
  <1>b. link \in Batches /\ link # "fixity" /\ db' = db
    BY <1>1 DEF Batches, Scans
  <1>g. FormatGrows(tx, f)
    BY <1>1, FormatKept
  <1>n. ASSUME f \in files, ~FileAlreadyScanned(f)
        PROVE  /\ Count(db, f, ScanPass) = 0 /\ Count(db, f, ScanFail) = 0
               /\ Count(tx, f, ScanPass) = 0 /\ Count(tx, f, ScanFail) = 0
    <2>1. \A k \in EventKinds : k[1] = "virus check" => ~(Count(db, f, k) > 0)
      BY <1>n, Zenon DEF FileAlreadyScanned, Has
    <2>2. Count(db, f, ScanPass) \in Nat /\ Count(db, f, ScanFail) \in Nat
      BY <1>1, <1>n, KindFacts, CountIsNat
    <2>3. ~(Count(db, f, ScanPass) > 0) /\ ~(Count(db, f, ScanFail) > 0)
      BY <2>1, KindFacts
    <2>4. Count(db, f, ScanPass) = 0 /\ Count(db, f, ScanFail) = 0
      BY <2>2, <2>3
    <2> QED BY <1>1, <1>n, <2>4 DEF Count
  <1>3. CASE FileAlreadyScanned(f)
    <2>1. Ends(f, 0, tx, 0)
      BY <1>2, <1>3
    <2>2. f \in files => Count(tx, f, ScanFail) = Count(db, f, ScanFail)
      BY <1>1 DEF Count
    <2>3. TaskDoes(f, 0, tx)
      BY <1>1, <1>g, <2>2 DEF TaskDoes, ScanAgrees, Scans
    <2> QED BY <1>b, <2>1, <2>3, EndsQuietly, TaskEnded
  <1>4. CASE ~FileAlreadyScanned(f)
    <2>1. \E p \in {"yes", "no", "none"}, v \in BOOLEAN, n \in {0, 1} :
            /\ EndsSaying(f, ScanCode(p), QueueEvent(tx, f, p, v), n, IF v THEN unsaid ELSE unsaid \cup {f})
            /\ ~v => p = "no"
      <3>1. PICK path \in ScanPaths(f), r \in Scanner :
              LET scanned == ~GetSizeIsNone(f, path) /\ path \notin Oversized
                  passed == IF GetSizeIsNone(f, path) THEN "no"
                            ELSE IF path \in Oversized THEN "none" ELSE Passed(r)
                  versioned == ~scanned \/ r # "no version"
              IN EndsSaying(f, ScanCode(passed), QueueEvent(tx, f, passed, versioned),
                            IF r = "OK" THEN 0 ELSE 1,
                            IF versioned THEN unsaid ELSE unsaid \cup {f})
        BY <1>2, <1>4
      <3> DEFINE scanned == ~GetSizeIsNone(f, path) /\ path \notin Oversized
                 p == IF GetSizeIsNone(f, path) THEN "no"
                      ELSE IF path \in Oversized THEN "none" ELSE Passed(r)
                 v == ~scanned \/ r # "no version"
                 n == IF r = "OK" THEN 0 ELSE 1
      <3>2. Passed(r) \in {"yes", "no", "none"} /\ (r = "no version" => Passed(r) = "no")
        BY DEF Passed
      <3>3. p \in {"yes", "no", "none"} /\ n \in {0, 1} /\ v \in BOOLEAN /\ (~v => p = "no")
        BY <3>2
      <3>4. EndsSaying(f, ScanCode(p), QueueEvent(tx, f, p, v), n, IF v THEN unsaid ELSE unsaid \cup {f})
        BY <3>1
      <3> HIDE DEF p, v, n
      <3> QED BY <3>3, <3>4
    <2>2. PICK p \in {"yes", "no", "none"}, v \in BOOLEAN, n \in {0, 1} :
            /\ EndsSaying(f, ScanCode(p), QueueEvent(tx, f, p, v), n, IF v THEN unsaid ELSE unsaid \cup {f})
            /\ ~v => p = "no"
      BY <2>1
    <2> DEFINE x == QueueEvent(tx, f, p, v)
               u == IF v THEN unsaid ELSE unsaid \cup {f}
    <2>c. ScanCode(p) = (IF p = "no" THEN 1 ELSE 0)
      BY DEF ScanCode
    <2>u. unsaid' = u
      BY <2>2 DEF EndsSaying
    <2>e. EndsWith(f, ScanCode(p), x)
      <3>1. u \in {unsaid, unsaid \cup {f}} /\ n \in Nat
        OBVIOUS
      <3>2. EndsSaying(f, ScanCode(p), x, n, u)
        BY <2>2
      <3> HIDE DEF x, u
      <3> QED BY <1>1, <3>1, <3>2 DEF EndsWith
    <2>3. CASE p = "none" \/ f \notin files \/ ~v
      <3>1. x = tx
        BY <2>3 DEF QueueEvent
      <3>2. f \in files => Count(tx, f, ScanFail) = Count(db, f, ScanFail)
        BY <1>1, <2>3 DEF Count
      <3>3. ScanCode(p) \in {0, 1, 255}
        BY DEF ScanCode
      <3>5. f \in files => ScanAgrees(tx, f, ScanCode(p), unsaid')
        <4> SUFFICES ASSUME f \in files, ScanCode(p) = 1
                     PROVE  Count(tx, f, ScanPass) = 0 /\ f \in unsaid'
          BY DEF ScanAgrees
        <4>1. ~v
          BY <2>3, <2>c
        <4> QED BY <1>4, <1>n, <2>u, <4>1
      <3> HIDE DEF x
      <3>4. TaskDoes(f, ScanCode(p), x)
        BY <1>1, <1>g, <3>1, <3>2, <3>3, <3>5 DEF TaskDoes, Scans
      <3> QED BY <1>b, <2>e, <3>4, TaskEnded
    <2>4. CASE p # "none" /\ f \in files /\ v
      <3>1. f \in All
        BY <1>1, <2>4
      <3>3. /\ Count(db, f, ScanPass) = 0 /\ Count(db, f, ScanFail) = 0
            /\ Count(tx, f, ScanPass) = 0 /\ Count(tx, f, ScanFail) = 0
        BY <1>4, <1>n, <2>4
      <3> DEFINE o == IF p = "yes" THEN "Pass" ELSE "Fail"
                 e == <<"virus check", o>>
      <3>4. x = Add(tx, f, "virus check", o)
        BY <2>4 DEF QueueEvent
      <3>5. e \in {ScanPass, ScanFail} /\ e \in EventKinds /\ e[1] = "virus check"
            /\ (e = ScanFail <=> p = "no")
        <4>1. CASE p = "yes"
          BY <4>1, KindFacts DEF ScanPass
        <4>2. CASE p = "no"
          BY <4>2, KindFacts DEF ScanFail
        <4> QED BY <2>4, <4>1, <4>2
      <3>6. OneMore(x, tx, f, e)
        BY <1>1, <3>1, <3>4, <3>5, AddEffect
      <3> HIDE DEF x, e, o
      <3>7. /\ x \in Records /\ SameButEvents(x, tx)
            /\ \A g \in All : g # f => x.events[g] = tx.events[g]
            /\ \A k \in EventKinds : k # e => Count(x, f, k) = Count(tx, f, k)
            /\ Count(x, f, e) = Count(tx, f, e) + 1
        BY <3>6 DEF OneMore
      <3>8. /\ Count(x, f, ScanPass) = (IF p = "no" THEN 0 ELSE 1)
            /\ Count(x, f, ScanFail) = (IF p = "no" THEN 1 ELSE 0)
        <4>1. ScanPass \in EventKinds /\ ScanFail \in EventKinds /\ ScanPass # ScanFail
          BY KindFacts
        <4>2. CASE e = ScanFail
          <5>1. Count(x, f, ScanPass) = 0 /\ Count(x, f, ScanFail) = 1
            BY <3>3, <3>7, <4>1, <4>2
          <5>2. p = "no"
            BY <3>5, <4>2
          <5> QED BY <5>1, <5>2
        <4>3. CASE e = ScanPass
          <5>1. Count(x, f, ScanFail) = 0 /\ Count(x, f, ScanPass) = 1
            BY <3>3, <3>7, <4>1, <4>3
          <5>2. p # "no"
            BY <3>5, <4>1, <4>3
          <5> QED BY <5>1, <5>2
        <4> QED BY <3>5, <4>2, <4>3
      <3>9. \A g \in All : \A k \in {Positive, NotIdentified, FixityPass} : Count(x, g, k) = Count(tx, g, k)
        BY <3>5, <3>7, KindFacts DEF Count
      <3>10. \A g \in All : g # f => \A k \in EventKinds : Count(x, g, k) = Count(tx, g, k)
        BY <3>7 DEF Count
      <3>11. Sound(x)
        <4>1. \A g \in All : Count(x, g, ScanPass) + Count(x, g, ScanFail) <= 1
          <5>1. ScanPass \in EventKinds /\ ScanFail \in EventKinds
            BY KindFacts
          <5>2. ASSUME NEW g \in All, g # f PROVE Count(x, g, ScanPass) + Count(x, g, ScanFail) <= 1
            BY <1>1, <3>10, <5>1, <5>2 DEF Sound
          <5> QED BY <3>8, <5>2
        <4>2. Originals \subseteq All
          BY DEF All
        <4> QED BY <1>1, <3>7, <3>9, <4>1, <4>2 DEF Sound, SameButEvents
      <3>12. FormatGrows(x, f)
        BY <1>1, <3>7, FormatKept DEF SameButEvents
      <3>13. ScanAgrees(x, f, ScanCode(p), unsaid')
        BY <2>c, <3>8 DEF ScanAgrees
      <3>14. TaskDoes(f, ScanCode(p), x)
        BY <1>1, <2>4, <2>c, <3>7, <3>8, <3>11, <3>12, <3>13 DEF TaskDoes, Scans
      <3> QED BY <1>b, <2>e, <3>14, TaskEnded
    <2> QED BY <2>3, <2>4
  <1> QED BY <1>3, <1>4

\* identifyFileFormat: one event, and one FileID if the format was found.
LEMMA IdentifyEnds ==
  ASSUME ChecksInv, Identify
  PROVE  TaskEnds
PROOF
  <1>1. /\ link \in {"identify", "identify2"} /\ db' = db /\ tx \in Records /\ Sound(tx)
        /\ link \notin Scans \cup {"validate", "fixity"} /\ link \in Batches
    BY DEF Identify, ChecksInv, Types, Recorded, Scans, Batches
  <1> DEFINE N(f) == Add(tx, f, "format identification", "Not identified")
  <1>2. PICK f \in todo :
          \/ Ends(f, 0, tx, 0) \/ Ends(f, 1, tx, 0)
          \/ ~Has(tx, f, "format identification") /\ Ends(f, 0, Identified(tx, f), 0)
          \/ ~Has(tx, f, "format identification") /\ Ends(f, 255, N(f), 1)
          \/ Ends(f, 255, tx, 1)
    BY DEF Identify
  <1>3. f \in All
    BY <1>1, TaskIsFile DEF Scans
  <1>b. link \in Batches /\ link # "fixity" /\ db' = db
    BY <1>1
  <1>4. TaskDoes(f, 0, tx) /\ TaskDoes(f, 1, tx) /\ TaskDoes(f, 255, tx)
    BY <1>1, NothingDoes
  <1>5. Originals \subseteq All
    BY DEF All
  <1>6. ASSUME ~Has(tx, f, "format identification")
        PROVE  Count(tx, f, Positive) = 0 /\ Count(tx, f, NotIdentified) = 0
    <2>1. \A k \in EventKinds : k[1] = "format identification" => ~(Count(tx, f, k) > 0)
      BY <1>6, Zenon DEF Has
    <2>2. Count(tx, f, Positive) \in Nat /\ Count(tx, f, NotIdentified) \in Nat
      BY <1>1, <1>3, KindFacts, CountIsNat
    <2>3. ~(Count(tx, f, Positive) > 0) /\ ~(Count(tx, f, NotIdentified) > 0)
      BY <2>1, KindFacts
    <2> QED BY <2>2, <2>3
  <1>7. ASSUME NEW e \in {Positive, NotIdentified}, NEW x, OneMore(x, tx, f, e)
        PROVE  /\ SameFails(x, tx) /\ x.outputs = tx.outputs /\ x.ids = tx.ids /\ x.format = tx.format
               /\ x \in Records
               /\ \A g \in All : g # f => x.events[g] = tx.events[g]
               /\ \A g \in All : \A k \in EventKinds \ {e} : Count(x, g, k) = Count(tx, g, k)
               /\ \A g \in All : g # f => Count(x, g, e) = Count(tx, g, e)
               /\ Count(x, f, e) = Count(tx, f, e) + 1
    <2>1. \A g \in All : \A k \in EventKinds \ {e} : Count(x, g, k) = Count(tx, g, k)
      BY <1>7 DEF OneMore, Count
    <2>2. ScanFail \in EventKinds \ {e}
      BY KindFacts
    <2>3. SameFails(x, tx)
      BY <2>1, <2>2 DEF SameFails
    <2>4. \A g \in All : g # f => Count(x, g, e) = Count(tx, g, e)
      BY <1>7 DEF OneMore, Count
    <2> QED BY <1>7, <2>1, <2>3, <2>4 DEF OneMore, SameButEvents
  <1>8. CASE ~Has(tx, f, "format identification") /\ Ends(f, 255, N(f), 1)
    <2> DEFINE x == N(f)
    <2>1. OneMore(x, tx, f, NotIdentified)
      BY <1>1, <1>3, KindFacts, AddEffect DEF NotIdentified
    <2> HIDE DEF x
    <2>2. /\ SameFails(x, tx) /\ x.outputs = tx.outputs /\ x.ids = tx.ids /\ x.format = tx.format
          /\ x \in Records
          /\ \A g \in All : g # f => x.events[g] = tx.events[g]
          /\ \A g \in All : \A k \in EventKinds \ {NotIdentified} : Count(x, g, k) = Count(tx, g, k)
          /\ \A g \in All : g # f => Count(x, g, NotIdentified) = Count(tx, g, NotIdentified)
          /\ Count(x, f, NotIdentified) = Count(tx, f, NotIdentified) + 1
      BY <1>7, <2>1
    <2>3. {ScanPass, ScanFail, Positive, FixityPass} \subseteq EventKinds \ {NotIdentified}
      BY KindFacts
    <2>4. \A g \in All : Count(x, g, Positive) + Count(x, g, NotIdentified) <= 1
      <3>1. Count(x, f, Positive) = 0 /\ Count(x, f, NotIdentified) = 1
        <4>1. Count(tx, f, Positive) = 0 /\ Count(tx, f, NotIdentified) = 0
          BY <1>6, <1>8, Zenon
        <4> QED BY <1>3, <2>2, <2>3, <4>1
      <3>2. ASSUME NEW g \in All, g # f PROVE Count(x, g, Positive) + Count(x, g, NotIdentified) <= 1
        BY <1>1, <2>2, <2>3, <3>2 DEF Sound
      <3> QED BY <3>1, <3>2
    <2>5. Sound(x)
      BY <1>1, <1>5, <2>2, <2>3, <2>4 DEF Sound
    <2>g. FormatGrows(x, f)
      BY <1>1, <2>2, FormatKept
    <2>6. TaskDoes(f, 255, x)
      BY <1>1, <2>2, <2>5, <2>g DEF TaskDoes
    <2>7. Ends(f, 255, x, 1)
      BY <1>8 DEF x
    <2>8. EndsWith(f, 255, x)
      BY <2>7, EndsQuietly
    <2> QED BY <1>b, <2>6, <2>8, TaskEnded
  <1>9. CASE ~Has(tx, f, "format identification") /\ Ends(f, 0, Identified(tx, f), 0)
    <2> DEFINE a == Add(tx, f, "format identification", "Positive")
               x == Identified(tx, f)
    <2>0. Count(tx, f, Positive) = 0 /\ Count(tx, f, NotIdentified) = 0
      BY <1>6, <1>9, Zenon
    <2>1. OneMore(a, tx, f, Positive)
      BY <1>1, <1>3, KindFacts, AddEffect DEF Positive
    <2>x. x = [a EXCEPT !.format[f] = IF @ = 0 THEN 1 ELSE @, !.ids[f] = @ + 1]
      BY DEF Identified
    <2> HIDE DEF a
    <2>2. /\ SameFails(a, tx) /\ a.outputs = tx.outputs /\ a.ids = tx.ids /\ a.format = tx.format
          /\ a \in Records
          /\ \A g \in All : g # f => a.events[g] = tx.events[g]
          /\ \A g \in All : \A k \in EventKinds \ {Positive} : Count(a, g, k) = Count(tx, g, k)
          /\ \A g \in All : g # f => Count(a, g, Positive) = Count(tx, g, Positive)
          /\ Count(a, f, Positive) = Count(tx, f, Positive) + 1
      BY <1>7, <2>1
    <2> DEFINE I == [a.ids EXCEPT ![f] = @ + 1]
               T == [a.format EXCEPT ![f] = IF @ = 0 THEN 1 ELSE @]
    <2>3. x = [a EXCEPT !.format = T, !.ids = I]
      BY <2>x
    <2>4. a.ids \in [All -> Nat] /\ a.format \in [All -> Nat]
      BY <2>2 DEF Records
    <2>5. I \in [All -> Nat] /\ I[f] = a.ids[f] + 1 /\ \A g \in All : g # f => I[g] = a.ids[g]
      BY <1>3, <2>4
    <2>6. /\ T \in [All -> Nat] /\ T[f] = (IF a.format[f] = 0 THEN 1 ELSE a.format[f])
          /\ \A g \in All : g # f => T[g] = a.format[g]
      BY <1>3, <2>4
    <2> HIDE DEF x, I, T
    <2>7. x \in Records /\ x.events = a.events /\ x.outputs = a.outputs /\ x.ids = I /\ x.format = T
      BY <2>2, <2>3, <2>5, <2>6 DEF Records
    <2>8. \A g \in All, k \in EventKinds : Count(x, g, k) = Count(a, g, k)
      BY <2>7 DEF Count
    <2>9. {ScanPass, ScanFail, NotIdentified, FixityPass} \subseteq EventKinds \ {Positive}
          /\ Positive \in EventKinds
      BY KindFacts
    <2>10. \A g \in All : \A k \in {ScanPass, ScanFail, NotIdentified, FixityPass} :
             Count(x, g, k) = Count(tx, g, k)
      BY <2>2, <2>8, <2>9
    <2>11. Count(x, f, Positive) = 1 /\ Count(x, f, NotIdentified) = 0
      <3>1. Count(x, f, Positive) = Count(tx, f, Positive) + 1
        BY <1>3, <2>2, <2>8, <2>9
      <3> QED BY <1>3, <2>0, <2>10, <3>1
    <2>12. x.ids[f] = 1 /\ x.format[f] > 0 /\ (f \notin Reingested => x.format[f] = 1)
      <3>1. (f \notin Reingested => tx.format[f] = 0) /\ tx.format[f] \in Nat
        BY <1>1, <1>3, <2>0 DEF Sound, Records
      <3>2. tx.ids[f] = 0
        BY <1>1, <1>3, <2>0 DEF Sound
      <3> QED BY <2>2, <2>5, <2>6, <2>7, <3>1, <3>2
    <2>13. ASSUME NEW g \in All, g # f
           PROVE  Count(x, g, Positive) = Count(tx, g, Positive) /\ x.ids[g] = tx.ids[g]
                  /\ x.format[g] = tx.format[g]
      BY <2>2, <2>5, <2>6, <2>7, <2>8, <2>9, <2>13
    <2>14. Sound(x)
      <3>1. ASSUME NEW g \in All
            PROVE  /\ Count(x, g, ScanPass) + Count(x, g, ScanFail) <= 1
                   /\ Count(x, g, Positive) + Count(x, g, NotIdentified) <= 1
                   /\ x.ids[g] = Count(x, g, Positive)
                   /\ Count(x, g, Positive) > 0 => x.format[g] > 0
                   /\ g \notin Reingested => x.format[g] = Count(x, g, Positive)
                   /\ \A i \in Rules : x.outputs[g][i] <= 1
        <4>1. Count(x, g, ScanPass) + Count(x, g, ScanFail) <= 1 /\ \A i \in Rules : x.outputs[g][i] <= 1
          BY <1>1, <2>2, <2>7, <2>10 DEF Sound
        <4>2. CASE g = f
          BY <2>11, <2>12, <4>1, <4>2
        <4>3. CASE g # f
          BY <1>1, <2>10, <2>13, <4>1, <4>3 DEF Sound
        <4> QED BY <4>2, <4>3
      <3>2. \A g, h \in Originals : Count(x, g, FixityPass) = Count(x, h, FixityPass)
        BY <1>1, <1>5, <2>10 DEF Sound
      <3> QED BY <3>1, <3>2 DEF Sound
    <2>15. TaskDoes(f, 0, x)
      <3>1. SameFails(x, tx)
        BY <2>10 DEF SameFails
      <3>2. FormatGrows(x, f)
        <4>1. x.format[f] <= 1 \/ x.format[f] <= tx.format[f]
          BY <1>3, <2>2, <2>4, <2>6, <2>7
        <4> QED BY <2>13, <4>1 DEF FormatGrows
      <3> QED BY <1>1, <2>2, <2>7, <2>14, <3>1, <3>2 DEF TaskDoes
    <2>16. Ends(f, 0, x, 0)
      BY <1>9 DEF x
    <2>17. EndsWith(f, 0, x)
      BY <2>16, EndsQuietly
    <2> QED BY <1>b, <2>15, <2>17, TaskEnded
  <1>10. CASE Ends(f, 0, tx, 0) \/ Ends(f, 1, tx, 0) \/ Ends(f, 255, tx, 1)
    <2>1. EndsWith(f, 0, tx) \/ EndsWith(f, 1, tx) \/ EndsWith(f, 255, tx)
      BY <1>10, EndsQuietly
    <2> QED BY <1>b, <1>4, <2>1, TaskEnded
  <1> QED BY <1>2, <1>8, <1>9, <1>10

\* The outputs of rules that had none.
LEMMA FirstOutputs ==
  ASSUME NEW y \in [Rules -> Nat], \A i \in Rules : ~(y[i] > 0), NEW r
  PROVE  /\ [i \in Rules |-> y[i] + (IF r[i] = "xml" THEN 1 ELSE 0)] \in [Rules -> Nat]
         /\ \A j \in Rules : [i \in Rules |-> y[i] + (IF r[i] = "xml" THEN 1 ELSE 0)][j] <= 1
PROOF
  <1>1. \A i \in Rules : y[i] = 0
    OBVIOUS
  <1> QED BY <1>1

\* characterizeFile: outputs are saved where there are none.
LEMMA CharacterizeEnds ==
  ASSUME ChecksInv, Characterize
  PROVE  TaskEnds
PROOF
  <1>1. /\ link = "characterize" /\ db' = db /\ tx \in Records /\ Sound(tx)
        /\ link \notin Scans \cup {"validate", "fixity"} /\ link \in Batches
    BY DEF Characterize, ChecksInv, Types, Recorded, Scans, Batches
  <1> DEFINE C(r) == IF \E i \in Rules : r[i] = "failed" THEN 255 ELSE 0
  <1>2. PICK f \in todo :
          IF \E i \in Rules : tx.outputs[f][i] > 0 THEN Ends(f, 0, tx, 0)
          ELSE IF Ambiguous(f) THEN Ends(f, 1, tx, 0)
          ELSE \E r \in [Rules -> {"xml", "not xml", "failed"}] :
                 Ends(f, C(r), SaveOutputs(tx, f, r), Unusual(r, "xml"))
    BY DEF Characterize
  <1>3. f \in All
    BY <1>1, TaskIsFile DEF Scans
  <1>b. link \in Batches /\ link # "fixity" /\ db' = db
    BY <1>1
  <1>4. CASE \E i \in Rules : tx.outputs[f][i] > 0
    <2>1. TaskDoes(f, 0, tx)
      BY <1>1, NothingDoes
    <2>2. EndsWith(f, 0, tx)
      BY <1>2, <1>4, EndsQuietly
    <2> QED BY <1>b, <2>1, <2>2, TaskEnded
  <1>6. CASE Ends(f, 1, tx, 0)
    <2>1. TaskDoes(f, 1, tx)
      BY <1>1, NothingDoes
    <2>2. EndsWith(f, 1, tx)
      BY <1>6, EndsQuietly
    <2> QED BY <1>b, <2>1, <2>2, TaskEnded
  <1>5. CASE ~ (\E i \in Rules : tx.outputs[f][i] > 0) /\ ~Ends(f, 1, tx, 0)
    <2>1. PICK r \in [Rules -> {"xml", "not xml", "failed"}] :
            Ends(f, C(r), SaveOutputs(tx, f, r), Unusual(r, "xml"))
      BY <1>2, <1>5
    <2>2. C(r) \in {0, 1, 255} /\ Unusual(r, "xml") \in Nat
      <3>1. Unusual(r, "xml") \in Nat
        BY UnusualIsNat
      <3> QED BY <3>1
    <2> DEFINE x == SaveOutputs(tx, f, r)
               F == [i \in Rules |-> tx.outputs[f][i] + (IF r[i] = "xml" THEN 1 ELSE 0)]
               O == [tx.outputs EXCEPT ![f] = F]
    <2>3. x = [tx EXCEPT !.outputs = O]
      BY DEF SaveOutputs
    <2>4. tx.outputs \in [All -> [Rules -> Nat]]
      BY <1>1 DEF Records
    <2>6. F \in [Rules -> Nat] /\ \A i \in Rules : F[i] <= 1
      <3>1. tx.outputs[f] \in [Rules -> Nat]
        BY <1>3, <2>4
      <3>2. \A i \in Rules : ~(tx.outputs[f][i] > 0)
        BY <1>5, Zenon
      <3> QED BY <3>1, <3>2, FirstOutputs
    <2> HIDE DEF F
    <2>7. O \in [All -> [Rules -> Nat]] /\ O[f] = F /\ \A g \in All : g # f => O[g] = tx.outputs[g]
      BY <1>3, <2>4, <2>6
    <2> HIDE DEF O, x, C
    <2>8. /\ x \in Records /\ x.events = tx.events /\ x.format = tx.format /\ x.ids = tx.ids
          /\ x.outputs = O
      BY <1>1, <2>3, <2>7 DEF Records
    <2>9. \A g \in All : \A i \in Rules : x.outputs[g][i] <= 1
      BY <1>1, <2>6, <2>7, <2>8 DEF Sound
    <2>10. Sound(x)
      BY <1>1, <2>8, <2>9 DEF Sound, Count
    <2>g. FormatGrows(x, f)
      BY <1>1, <2>8, FormatKept
    <2>11. TaskDoes(f, C(r), x)
      BY <1>1, <2>2, <2>8, <2>10, <2>g DEF TaskDoes, SameFails, Count
    <2>12. EndsWith(f, C(r), x)
      BY <2>1, <2>2, EndsQuietly DEF x
    <2> QED BY <1>b, <2>11, <2>12, TaskEnded
  <1> QED BY <1>4, <1>5, <1>6

\* The number of rules that passed, at least in part.
NPasses(s) ==
  Cardinality({i \in DOMAIN s : s[i] = "pass"}) + Cardinality({i \in DOMAIN s : s[i] = "partial"})

\* Every rule passed: as many events of it are added.
LEMMA AllPass ==
  ASSUME NEW r \in [Rules -> {"pass", "partial", "fail", "error"}], ValidationCode(r) = 0
  PROVE  NPasses(ValidationOutcomes(r)) = NRules
PROOF
  <1>1. \A i \in Rules : r[i] \in {"pass", "partial"}
    BY DEF ValidationCode
  <1>2. FirstOf(r, {"fail", "error"}) = NRules + 1
    <2>1. {i \in Rules : r[i] \in {"fail", "error"}} \cup {NRules + 1} = {NRules + 1}
      BY <1>1
    <2>2. Min({NRules + 1}) = NRules + 1
      BY FileChecksAssumption DEF Min
    <2> QED BY <2>1, <2>2 DEF FirstOf
  <1>3. \A i \in Rules : i <= NRules + 1 /\ r[i] # "error"
    BY <1>1, FileChecksAssumption DEF Rules
  <1>4. ValidationOutcomes(r) = [i \in Rules |-> r[i]]
    BY <1>2, <1>3 DEF ValidationOutcomes
  <1> DEFINE A == {i \in DOMAIN ValidationOutcomes(r) : ValidationOutcomes(r)[i] = "pass"}
             B == {i \in DOMAIN ValidationOutcomes(r) : ValidationOutcomes(r)[i] = "partial"}
  <1>5. A \cup B = Rules /\ A \cap B = {}
    BY <1>1, <1>4
  <1>6. Cardinality(Rules) = NRules
    BY FS_Interval, FileChecksAssumption DEF Rules
  <1>s. NPasses(ValidationOutcomes(r)) = Cardinality(A) + Cardinality(B)
    BY DEF NPasses
  <1> HIDE DEF A, B
  <1>7. IsFiniteSet(A) /\ IsFiniteSet(B)
    BY <1>5, RulesFinite, FS_Subset
  <1>8. Cardinality(A \cup B) = Cardinality(A) + Cardinality(B) - Cardinality(A \cap B)
    BY <1>7, FS_Union
  <1>9. Cardinality(A \cap B) = 0
    BY <1>5, FS_EmptySet
  <1>10. Cardinality(A) \in Nat /\ Cardinality(B) \in Nat
    BY <1>7, FS_CardinalityType
  <1>11. Cardinality(A \cup B) = NRules
    BY <1>5, <1>6
  <1> QED BY <1>8, <1>9, <1>10, <1>11, <1>s

\* The types of events that the properties are not about, and the exit codes.
OtherType(type) == type \notin {"virus check", "format identification", "fixity check"}
ExitCode(c) == c \in {0, 1, 255}

AlikeButTexts(x, a) ==
  x.events = a.events /\ x.format = a.format /\ x.ids = a.ids /\ x.outputs = a.outputs

Vouches(c, type, s) ==
  link = "validate" /\ c = 0 =>
    type = "validation" /\ NPasses(s) = NRules

\* validateFile, policyCheck and transcribeFile add events of one type, and
\* perhaps texts.
LEMMA EventsEnd ==
  ASSUME ChecksInv, db' = db, link \in {"validate", "policy", "transcribe"},
         NEW type, OtherType(type),
         NEW f \in todo, NEW c, ExitCode(c), NEW s, DOMAIN s \subseteq Rules,
         NEW x, x \in Records, AlikeButTexts(x, AddAll(tx, f, type, s)),
         EndsWith(f, c, x), Vouches(c, type, s)
  PROVE  TaskEnds
PROOF
  <1> DEFINE a == AddAll(tx, f, type, s)
  <1>1. link \in Batches \ {"fixity", "scan"} /\ link \notin Scans /\ tx \in Records
    BY DEF Batches, Scans, ChecksInv, Types
  <1>2. f \in All
    BY <1>1, TaskIsFile
  <1>3. /\ More(a, tx, f, type)
        /\ \A k \in EventKinds : k[1] = type =>
             Count(a, f, k) = Count(tx, f, k) + Cardinality({i \in DOMAIN s : s[i] = k[2]})
    BY <1>1, <1>2, AddAllEffect
  <1>4. x.events = a.events
    BY DEF AlikeButTexts
  <1>6. x.format = a.format /\ x.ids = a.ids /\ x.outputs = a.outputs
    BY DEF AlikeButTexts
  <1> HIDE DEF a
  <1>7. \A g, k : Count(x, g, k) = Count(a, g, k)
    BY <1>4 DEF Count
  <1>8. link = "validate" /\ c = 0 => Passes(a, f) >= NRules
    <2> SUFFICES ASSUME link = "validate", c = 0 PROVE Passes(a, f) >= NRules
      OBVIOUS
    <2>1. /\ Valid \in EventKinds /\ Valid[1] = type /\ Valid[2] = "pass"
          /\ PartValid \in EventKinds /\ PartValid[1] = type /\ PartValid[2] = "partial"
      BY KindFacts DEF Vouches
    <2> DEFINE m == Cardinality({i \in DOMAIN s : s[i] = "pass"})
               n == Cardinality({i \in DOMAIN s : s[i] = "partial"})
    <2>2. Count(a, f, Valid) = Count(tx, f, Valid) + m /\ Count(a, f, PartValid) = Count(tx, f, PartValid) + n
      BY <1>3, <2>1
    <2>3. Count(tx, f, Valid) \in Nat /\ Count(tx, f, PartValid) \in Nat
      BY <1>1, <1>2, <2>1, CountIsNat
    <2>4. m \in Nat /\ n \in Nat
      BY OutcomesCount
    <2>5. m + n = NRules
      BY DEF Vouches, NPasses
    <2> HIDE DEF m, n
    <2> QED BY <2>2, <2>3, <2>4, <2>5, FileChecksAssumption DEF Passes
  <1>9. type \notin {"virus check", "format identification", "fixity check"}
    BY DEF OtherType
  <1>0. Sound(tx)
    BY DEF ChecksInv, Recorded
  <1>m. More(a, tx, f, type)
    BY <1>3
  <1>10. Sound(a) /\ SameFails(a, tx)
    BY ONLY <1>0, <1>1, <1>2, <1>9, <1>m, MoreSound
  <1>11. Sound(x)
    BY <1>4, <1>6, <1>10, SoundParts
  <1>12. TaskDoes(f, c, x)
    <2>1. c \in {0, 1, 255}
      BY DEF ExitCode
    <2>2. FormatGrows(x, f)
      BY <1>1, <1>6, <1>m, FormatKept DEF More, SameButEvents
    <2>3. Passes(x, f) = Passes(a, f)
      BY <1>7 DEF Passes
    <2> QED BY <2>1, <2>2, <2>3, <1>1, <1>4, <1>7, <1>8, <1>10, <1>11, <1>m DEF TaskDoes, SameFails, More
  <1>13. link \in Batches /\ link # "fixity"
    BY <1>1
  <1> QED BY <1>12, <1>13, TaskEnded

\* A file with two formats.
LEMMA AmbiguousEnds ==
  ASSUME ChecksInv, db' = db, link \in {"validate", "policy", "transcribe"}, NEW f \in todo,
         Ends(f, 1, tx, 0)
  PROVE  TaskEnds
PROOF
  <1>1. link \in Batches /\ link # "fixity" /\ link \notin Scans
    BY DEF Batches, Scans
  <1>2. TaskDoes(f, 1, tx)
    BY <1>1, NothingDoes
  <1>3. EndsWith(f, 1, tx)
    BY EndsQuietly
  <1> QED BY <1>1, <1>2, <1>3, TaskEnded

\* validateFile.
LEMMA ValidateEnds ==
  ASSUME ChecksInv, Validate
  PROVE  TaskEnds
PROOF
  <1>1. link = "validate" /\ db' = db /\ tx \in Records
    BY DEF Validate, ChecksInv, Types
  <1>p. PICK f \in todo :
          \/ Ends(f, 1, tx, 0)
          \/ \E r \in [Rules -> {"pass", "partial", "fail", "error"}] :
               Ends(f, ValidationCode(r), AddAll(tx, f, "validation", ValidationOutcomes(r)), Unusual(r, "pass"))
    BY DEF Validate
  <1>a. CASE Ends(f, 1, tx, 0)
    BY <1>1, <1>a, AmbiguousEnds
  <1> SUFFICES ASSUME ~Ends(f, 1, tx, 0) PROVE TaskEnds
    BY <1>a
  <1>2. PICK r \in [Rules -> {"pass", "partial", "fail", "error"}] :
          Ends(f, ValidationCode(r), AddAll(tx, f, "validation", ValidationOutcomes(r)), Unusual(r, "pass"))
    BY <1>p
  <1> DEFINE s == ValidationOutcomes(r)
             c == ValidationCode(r)
             n == Unusual(r, "pass")
             type == "validation"
             x == AddAll(tx, f, type, s)
  <1>3. DOMAIN s \subseteq Rules
    BY DEF ValidationOutcomes
  <1>4. ExitCode(c) /\ (c = 0 => NPasses(s) = NRules)
    BY AllPass DEF ValidationCode, ExitCode
  <1>5. n \in Nat
    BY UnusualIsNat
  <1>6. f \in All
    BY <1>1, TaskIsFile DEF Batches, Scans
  <1>7. EndsWith(f, c, x)
    BY <1>2, <1>5, EndsQuietly
  <1>8. type = "validation" /\ OtherType(type)
    BY DEF OtherType
  <1> HIDE DEF s, c, n, type
  <1>9. x \in Records /\ AlikeButTexts(x, x)
    BY <1>1, <1>3, <1>6, AddAllEffect DEF More, AlikeButTexts
  <1>10. Vouches(c, type, s)
    BY <1>4, <1>8, <1>1 DEF Vouches
  <1> QED BY <1>1, <1>3, <1>4, <1>7, <1>8, <1>9, <1>10, EventsEnd

\* policyCheck.
LEMMA PolicyEnds ==
  ASSUME ChecksInv, PolicyCheck
  PROVE  TaskEnds
PROOF
  <1>1. link = "policy" /\ db' = db /\ tx \in Records
    BY DEF PolicyCheck, ChecksInv, Types
  <1>p. PICK f \in todo :
          \/ Ends(f, 1, tx, 0)
          \/ \E r \in [Rules -> {"pass", "fail", "error", "malformed"}] :
               Ends(f, PolicyCode(r), AddAll(tx, f, "validation", PolicyOutcomes(r)), Unusual(r, "pass"))
    BY DEF PolicyCheck
  <1>a. CASE Ends(f, 1, tx, 0)
    BY <1>1, <1>a, AmbiguousEnds
  <1> SUFFICES ASSUME ~Ends(f, 1, tx, 0) PROVE TaskEnds
    BY <1>a
  <1>2. PICK r \in [Rules -> {"pass", "fail", "error", "malformed"}] :
          Ends(f, PolicyCode(r), AddAll(tx, f, "validation", PolicyOutcomes(r)), Unusual(r, "pass"))
    BY <1>p
  <1> DEFINE s == PolicyOutcomes(r)
             c == PolicyCode(r)
             n == Unusual(r, "pass")
             type == "validation"
             x == AddAll(tx, f, type, s)
  <1>3. DOMAIN s \subseteq Rules
    BY DEF PolicyOutcomes
  <1>4. ExitCode(c)
    BY DEF PolicyCode, ExitCode
  <1>5. n \in Nat
    BY UnusualIsNat
  <1>6. f \in All
    BY <1>1, TaskIsFile DEF Batches, Scans
  <1>7. EndsWith(f, c, x)
    BY <1>2, <1>5, EndsQuietly
  <1>8. OtherType(type)
    BY DEF OtherType
  <1> HIDE DEF s, c, n, type
  <1>9. x \in Records /\ AlikeButTexts(x, x)
    BY <1>1, <1>3, <1>6, AddAllEffect DEF More, AlikeButTexts
  <1>10. Vouches(c, type, s)
    BY <1>4, <1>8, <1>1 DEF Vouches
  <1> QED BY <1>1, <1>3, <1>4, <1>7, <1>8, <1>9, <1>10, EventsEnd

\* transcribeFile.
LEMMA TranscribeEnds ==
  ASSUME ChecksInv, Transcribe
  PROVE  TaskEnds
PROOF
  <1>1. link = "transcribe" /\ db' = db /\ tx \in Records
    BY DEF Transcribe, ChecksInv, Types
  <1> DEFINE C(r) == IF \E i \in Rules : r[i] \in {"failed", "failed, text"} THEN 1 ELSE 0
  <1>p. PICK f \in todo :
          \/ Ends(f, 1, tx, 0)
          \/ \E r \in [Rules -> {"text", "no text", "failed", "failed, text"}] :
               Ends(f, C(r),
                    [AddAll(tx, f, "transcription", TranscriptionOutcomes(r)) EXCEPT !.texts[f] = @ + Texts(r)],
                    Unusual(r, "text"))
    BY DEF Transcribe
  <1>a. CASE Ends(f, 1, tx, 0)
    BY <1>1, <1>a, AmbiguousEnds
  <1> SUFFICES ASSUME ~Ends(f, 1, tx, 0) PROVE TaskEnds
    BY <1>a
  <1>2. PICK r \in [Rules -> {"text", "no text", "failed", "failed, text"}] :
          Ends(f, C(r),
               [AddAll(tx, f, "transcription", TranscriptionOutcomes(r)) EXCEPT !.texts[f] = @ + Texts(r)],
               Unusual(r, "text"))
    BY <1>p
  <1> DEFINE s == TranscriptionOutcomes(r)
             c == C(r)
             n == Unusual(r, "text")
             type == "transcription"
             a == AddAll(tx, f, type, s)
             x == [a EXCEPT !.texts[f] = @ + Texts(r)]
  <1>3. DOMAIN s \subseteq Rules
    BY DEF TranscriptionOutcomes
  <1>4. ExitCode(c)
    BY DEF ExitCode
  <1>5. n \in Nat
    BY UnusualIsNat
  <1>6. f \in All
    BY <1>1, TaskIsFile DEF Batches, Scans
  <1>7. EndsWith(f, c, x)
    BY <1>2, <1>5, EndsQuietly
  <1>8. OtherType(type)
    BY DEF OtherType
  <1>9. Texts(r) \in Nat
    BY TextsIsNat
  <1> DEFINE y == a.texts
             T == [y EXCEPT ![f] = @ + Texts(r)]
  <1>10. x = [a EXCEPT !.texts = T]
    OBVIOUS
  <1>e. a = AddAll(tx, f, type, s)
    OBVIOUS
  <1> HIDE DEF s, c, n, type, x, a
  <1>11. a \in Records
    BY <1>1, <1>3, <1>6, <1>e, AddAllEffect DEF More
  <1>12. T \in [All -> Nat]
    <2>1. y \in [All -> Nat]
      BY <1>11 DEF Records
    <2> HIDE DEF y
    <2> QED BY ONLY <1>6, <1>9, <2>1, CountMore
  <1> HIDE DEF T, y
  <1>13. x \in Records /\ AlikeButTexts(x, a)
    BY <1>10, <1>11, <1>12 DEF Records, AlikeButTexts
  <1>14. Vouches(c, type, s)
    BY <1>1 DEF Vouches
  <1>15. AlikeButTexts(x, AddAll(tx, f, type, s))
    BY <1>13, <1>e
  <1>16. link \in {"validate", "policy", "transcribe"} /\ db' = db
    BY <1>1
  <1>17. ChecksInv /\ f \in todo /\ x \in Records
    BY <1>13
  <1> QED BY ONLY <1>3, <1>4, <1>7, <1>8, <1>14, <1>15, <1>16, <1>17, EventsEnd

\* Every task ends in one of these ways.
LEMMA JobEnds ==
  ASSUME ChecksInv, Job
  PROVE  TaskEnds
PROOF BY SizeEnds, FixityEnds, ScanEnds, IdentifyEnds, CharacterizeEnds, ValidateEnds, PolicyEnds,
         TranscribeEnds DEF Job

-----------------------------------------------------------------------------
(* The steps.                                                              *)

\* The state after a task.
Stepped(t, c, x) ==
  /\ t \in todo /\ link \in Batches /\ TaskDoes(t, c, x) /\ c \in {0, 1, 255}
  /\ todo' = todo \ {t}
  /\ DOMAIN codes' = DOMAIN codes \cup {t} /\ codes'[t] = c
  /\ \A u \in DOMAIN codes : u # t => codes'[u] = codes[u]
  /\ tx' = x /\ db' = IF link = "fixity" THEN x ELSE db
  /\ odd' \in 0..MaxOdd
  /\ link' = link /\ files' = files /\ done' = done /\ died' = died
  /\ unsaid' = unsaid \/ (link \in Scans /\ unsaid' = unsaid \cup {t})

\* A job leaves such a state.
LEMMA JobStep ==
  ASSUME ChecksInv, Job
  PROVE  \E t, c, x : Stepped(t, c, x)
PROOF
  <1>1. TaskEnds
    BY JobEnds
  <1>2. PICK t \in todo : \E c, x :
          /\ link \in Batches /\ EndsWith(t, c, x) /\ TaskDoes(t, c, x)
          /\ db' = IF link = "fixity" THEN x ELSE db
    BY <1>1 DEF TaskEnds
  <1>3. PICK c, x :
          /\ link \in Batches /\ EndsWith(t, c, x) /\ TaskDoes(t, c, x)
          /\ db' = IF link = "fixity" THEN x ELSE db
    BY <1>2
  <1>4. PICK n \in Nat, w \in {unsaid, unsaid \cup {t}} :
          EndsSaying(t, c, x, n, w) /\ (w = unsaid \/ link \in Scans)
    BY <1>3 DEF EndsWith
  <1>5. odd \in 0..MaxOdd
    BY DEF ChecksInv, Types
  <1>6. odd' \in 0..MaxOdd
    BY <1>4, <1>5, FileChecksAssumption DEF EndsSaying
  <1>7. c \in {0, 1, 255}
    BY <1>3 DEF TaskDoes
  <1>8. /\ todo' = todo \ {t} /\ tx' = x
        /\ link' = link /\ files' = files /\ done' = done /\ died' = died
    BY <1>4 DEF EndsSaying
  <1>9. /\ DOMAIN codes' = DOMAIN codes \cup {t} /\ codes'[t] = c
        /\ \A u \in DOMAIN codes : u # t => codes'[u] = codes[u]
    BY <1>4 DEF EndsSaying
  <1>s. unsaid' = unsaid \/ (link \in Scans /\ unsaid' = unsaid \cup {t})
    BY <1>4 DEF EndsSaying
  <1>10. Stepped(t, c, x)
    BY <1>3, <1>6, <1>7, <1>8, <1>9, <1>s DEF Stepped
  <1> QED BY <1>10

\* Which link comes next; a scan is followed by another link only if all its
\* exit codes were 0.
LEMMA AfterLinks ==
  ASSUME NEW l \in Batches \cup {"extract"}, NEW c, NEW m, m \in After(l, c)
  PROVE  /\ m \in Batches \cup Ended \cup {"extract"}
         /\ l \in Scans => m = "failed" \/ (c = 0 /\ m \notin Scans)
         /\ m # "sizes"
PROOF
  <1>1. CASE l \in Scans
    BY <1>1 DEF After, AfterSizes, AfterFixity, AfterScan, AfterIdentify, AfterExtract, AfterScan2,
       AfterIdentify2, AfterCharacterize, AfterValidate, AfterPolicy, AfterTranscribe, Batches, Scans, Ended
  <1>2. CASE l \in {"sizes", "fixity", "identify", "extract"}
    BY <1>2 DEF After, AfterSizes, AfterFixity, AfterScan, AfterIdentify, AfterExtract, AfterScan2,
       AfterIdentify2, AfterCharacterize, AfterValidate, AfterPolicy, AfterTranscribe, Batches, Scans, Ended
  <1>3. CASE l \in {"identify2", "characterize", "validate", "policy", "transcribe"}
    BY <1>3 DEF After, AfterSizes, AfterFixity, AfterScan, AfterIdentify, AfterExtract, AfterScan2,
       AfterIdentify2, AfterCharacterize, AfterValidate, AfterPolicy, AfterTranscribe, Batches, Scans, Ended
  <1> QED BY <1>1, <1>2, <1>3 DEF Batches

\* The exit code of a batch is 0 only if all of them are.
LEMMA CodesMax ==
  ASSUME Types, Max({codes[t] : t \in DOMAIN codes} \cup {0}) = 0
  PROVE  \A t \in DOMAIN codes : codes[t] = 0
PROOF
  <1> DEFINE S == {codes[t] : t \in DOMAIN codes} \cup {0}
  <1>1. \A t \in DOMAIN codes : codes[t] \in {0, 1, 255}
    BY DEF Types
  <1>2. S \subseteq {0, 1, 255} /\ 0 \in S /\ \A t \in DOMAIN codes : codes[t] \in S
    BY <1>1
  <1>3. Max(S) = 0
    OBVIOUS
  <1> HIDE DEF S
  <1>4. \E x \in S : \A y \in S : x >= y
    <2>1. CASE 255 \in S
      BY <1>2, <2>1
    <2>2. CASE 255 \notin S /\ 1 \in S
      BY <1>2, <2>2
    <2>3. CASE 255 \notin S /\ 1 \notin S
      BY <1>2, <2>3
    <2> QED BY <2>1, <2>2, <2>3
  <1>5. Max(S) \in S /\ \A y \in S : Max(S) >= y
    BY <1>4 DEF Max
  <1>6. \A y \in S : y = 0
    BY <1>2, <1>3, <1>5
  <1> QED BY <1>2, <1>6

\* The state at the start of a link.
LEMMA GoStarts ==
  ASSUME NEW l \in Batches \cup Ended \cup {"extract"}, NEW F, Go(l, F)
  PROVE  /\ link' = l /\ todo' = Tasks(l, F) /\ DOMAIN codes' = {} /\ done' = FALSE
         /\ l \notin Batches => todo' = {}
PROOF
  <1>1. link' = l /\ todo' = Tasks(l, F) /\ codes' = <<>> /\ done' = FALSE
    BY DEF Go
  <1>2. DOMAIN codes' = {}
    BY <1>1
  <1> QED BY <1>1, <1>2, TasksOf

\* A link starts: its tasks are to do, and what was not committed is gone.
Started ==
  /\ link' \in Batches \cup Ended \cup {"extract"}
  /\ files \subseteq files' /\ files' \subseteq All
  /\ todo' = Tasks(link', files') /\ DOMAIN codes' = {} /\ done' = FALSE
  /\ link' \notin Batches => todo' = {}
  /\ tx' = db' /\ db' \in Records
  /\ db'.events = db.events /\ db'.format = db.format /\ db'.ids = db.ids /\ db'.outputs = db.outputs
  /\ unsaid' = unsaid /\ died' \subseteq Faults /\ odd' \in 0..MaxOdd

\* So it is after extraction, after an answer, and when a worker has died.
LEMMA LinkStarts ==
  ASSUME ChecksInv, Extract \/ Answer \/ Die
  PROVE  Started
PROOF
  <1>1. /\ link \in Batches \cup Ended \cup {"extract"} /\ files \subseteq All
        /\ db \in Records /\ died \subseteq Faults /\ odd \in 0..MaxOdd
        /\ done \in BOOLEAN
    BY DEF ChecksInv, Types
  <1>2. CASE Extract
    <2>1. PICK l \in After(link, 0) : Go(l, files')
      BY <1>2 DEF Extract
    <2>2. /\ link = "extract" /\ files' = files \cup Extracted /\ tx' = [db EXCEPT !.sized = @ \cup Extracted]
          /\ db' = tx' /\ unsaid' = unsaid /\ died' = died /\ odd' = odd
      BY <1>2 DEF Extract
    <2>3. l \in Batches \cup Ended \cup {"extract"}
      BY <2>2, AfterLinks
    <2>4. /\ link' = l /\ todo' = Tasks(l, files') /\ DOMAIN codes' = {} /\ done' = FALSE
          /\ l \notin Batches => todo' = {}
      BY <2>1, <2>3, GoStarts
    <2>5. Extracted \subseteq All
      BY DEF All
    <2>6. /\ db' \in Records /\ db'.events = db.events /\ db'.format = db.format
          /\ db'.ids = db.ids /\ db'.outputs = db.outputs
      BY <1>1, <2>2, <2>5 DEF Records
    <2>7. files \subseteq files' /\ files' \subseteq All
      BY <1>1, <2>2, <2>5
    <2> QED BY <1>1, <2>2, <2>3, <2>4, <2>6, <2>7 DEF Started
  <1>3. CASE Answer
    <2>1. PICK l \in After(link, Max({codes[t] : t \in DOMAIN codes} \cup {0})) : Go(l, files)
      BY <1>3 DEF Answer
    <2>2. done = TRUE /\ files' = files /\ db' = db /\ tx' = tx /\ died' = died /\ odd' = odd
          /\ unsaid' = unsaid
      BY <1>1, <1>3 DEF Answer
    <2>3. link \in Batches /\ tx = db
      BY <1>1, <2>2 DEF ChecksInv, Control
    <2>4. l \in Batches \cup Ended \cup {"extract"}
      BY <2>3, AfterLinks
    <2>5. /\ link' = l /\ todo' = Tasks(l, files) /\ DOMAIN codes' = {} /\ done' = FALSE
          /\ l \notin Batches => todo' = {}
      BY <2>1, <2>4, GoStarts
    <2> QED BY <1>1, <2>2, <2>3, <2>4, <2>5 DEF Started
  <1>4. CASE Die
    <2>1. Go(link, files) /\ tx' = db /\ files' = files /\ db' = db /\ odd < MaxOdd /\ odd' = odd + 1
      BY <1>4 DEF Die
    <2>2. died' \subseteq Faults /\ unsaid' = unsaid
      BY <1>1, <1>4 DEF Die
    <2>3. /\ link' = link /\ todo' = Tasks(link, files) /\ DOMAIN codes' = {} /\ done' = FALSE
          /\ link \notin Batches => todo' = {}
      BY <1>1, <2>1, GoStarts
    <2>4. odd' \in 0..MaxOdd
      BY <1>1, <2>1, FileChecksAssumption
    <2> QED BY <1>1, <2>1, <2>2, <2>3, <2>4 DEF Started
  <1> QED BY <1>2, <1>3, <1>4

\* The invariant at the start of a link.
LEMMA StartedInv ==
  ASSUME ChecksInv, Started
  PROVE  ChecksInv'
PROOF
  <1>1. Types'
    BY DEF ChecksInv, Types, Started
  <1>2. Control'
    BY DEF Started, Control
  <1>3. Sound(db')
    BY SoundParts DEF Started, ChecksInv, Recorded
  <1>4. Recorded'
    BY <1>3 DEF Started, Recorded
  <1>5. Scanned' /\ Validated'
    BY DEF Started, Scanned, Validated
  <1> QED BY <1>1, <1>2, <1>4, <1>5 DEF ChecksInv

\* A task keeps the invariant.
LEMMA SteppedInv ==
  ASSUME ChecksInv, NEW t, NEW c, NEW x, Stepped(t, c, x)
  PROVE  ChecksInv'
PROOF
  <1>1. /\ t \in todo /\ link \in Batches /\ todo' = todo \ {t} /\ c \in {0, 1, 255}
        /\ DOMAIN codes' = DOMAIN codes \cup {t} /\ codes'[t] = c
        /\ \A u \in DOMAIN codes : u # t => codes'[u] = codes[u]
        /\ tx' = x /\ db' = (IF link = "fixity" THEN x ELSE db) /\ odd' \in 0..MaxOdd
        /\ link' = link /\ files' = files /\ done' = done /\ died' = died
        /\ unsaid \subseteq unsaid'
    BY DEF Stepped
  <1>2. x \in Records /\ Sound(x)
    BY DEF Stepped, TaskDoes
  <1>3. Types /\ Control /\ Recorded /\ Scanned /\ Validated
    BY DEF ChecksInv
  <1>4. done = FALSE
    BY <1>1, <1>3 DEF Control, Types
  <1>5. t \notin DOMAIN codes
    BY <1>1, <1>3 DEF Types
  <1>6. \A u \in DOMAIN codes : codes'[u] = codes[u]
    BY <1>1, <1>5
  <1>u. unsaid' \subseteq files \cup Loose
    <2>1. t \in Tasks(link, files)
      BY <1>1, <1>3 DEF Types
    <2>2. link \in Scans => Tasks(link, files) \subseteq files \cup Loose
      BY DEF Tasks, Scans, Ended
    <2> QED BY <1>3, <2>1, <2>2 DEF Stepped, Types
  <1>7. Types'
    BY <1>1, <1>2, <1>3, <1>6, <1>u DEF Types
  <1>8. Control'
    <2>1. t \in Tasks(link, files)
      BY <1>1, <1>3 DEF Types
    <2> QED BY <1>1, <1>3, <1>4, <2>1 DEF Control
  <1>9. Recorded'
    BY <1>1, <1>2, <1>3 DEF Recorded
  <1>10. Scanned'
    <2> SUFFICES ASSUME link \in Scans
                 PROVE  /\ \A f \in todo' \cap files : x.events[f] = db.events[f]
                        /\ \A f \in (DOMAIN codes \cup {t}) \cap files :
                             ScanAgrees(x, f, codes'[f], unsaid')
      BY <1>1 DEF Scanned, Scans
    <2>1. /\ \A f \in todo \cap files : tx.events[f] = db.events[f]
          /\ \A f \in DOMAIN codes \cap files : ScanAgrees(tx, f, codes[f], unsaid)
      BY <1>3, <1>4 DEF Scanned
    <2>2. files \subseteq All /\ link # "fixity"
      BY <1>3 DEF Types, Scans
    <2>3. \A g \in All : g # t => x.events[g] = tx.events[g]
      BY <2>2 DEF Stepped, TaskDoes
    <2>4. t \in files => ScanAgrees(x, t, c, unsaid')
      BY DEF Stepped, TaskDoes
    <2> QED BY <1>1, <1>5, <1>6, <2>1, <2>2, <2>3, <2>4 DEF Count, ScanAgrees
  <1>11. Validated'
    <2> SUFFICES ASSUME link = "validate"
                 PROVE  \A f \in (DOMAIN codes \cup {t}) \cap files :
                          codes'[f] = 0 => Passes(x, f) >= NRules
      BY <1>1 DEF Validated
    <2>1. \A f \in DOMAIN codes \cap files : codes[f] = 0 => Passes(tx, f) >= NRules
      BY <1>3 DEF Validated
    <2>2. files \subseteq All
      BY <1>3 DEF Types
    <2>3. \A g \in All : g # t => x.events[g] = tx.events[g]
      BY DEF Stepped, TaskDoes
    <2>4. c = 0 => Passes(x, t) >= NRules
      BY DEF Stepped, TaskDoes
    <2> QED BY <1>1, <1>5, <1>6, <2>1, <2>2, <2>3, <2>4 DEF Count, Passes
  <1> QED BY <1>7, <1>8, <1>9, <1>10, <1>11 DEF ChecksInv

\* The invariant holds at first.
LEMMA InitInv == Init => ChecksInv /\ StopInv
PROOF
  <1> SUFFICES ASSUME Init PROVE ChecksInv /\ StopInv
    OBVIOUS
  <1>1. /\ link = "sizes" /\ files = Originals /\ todo = Tasks("sizes", Originals) /\ codes = <<>>
        /\ db = Empty /\ tx = Empty /\ done = FALSE /\ unsaid = {} /\ died = {} /\ odd = 0
    BY DEF Init
  <1> DEFINE Z == [e \in EventKinds |-> 0]
             R == [i \in Rules |-> 0]
             E == [f \in All |-> Z]
             O == [f \in All |-> R]
             N == [f \in All |-> 0]
  <1>2. Empty = [sized |-> {}, events |-> E, format |-> N, derived |-> N, ids |-> N,
               outputs |-> O, texts |-> N]
    BY DEF Empty, All
  <1>3. Z \in Counts /\ \A e \in EventKinds : Z[e] = 0
    BY DEF Counts
  <1>4. R \in [Rules -> Nat] /\ \A i \in Rules : R[i] = 0
    OBVIOUS
  <1> HIDE DEF Z, R
  <1>5. /\ E \in [All -> Counts] /\ \A f \in All : E[f] = Z
        /\ O \in [All -> [Rules -> Nat]] /\ \A f \in All : O[f] = R
        /\ N \in [All -> Nat] /\ \A f \in All : N[f] = 0
    BY <1>3, <1>4
  <1> HIDE DEF E, O, N
  <1>6. /\ Empty \in Records /\ Empty.events = E /\ Empty.format = N /\ Empty.ids = N
        /\ Empty.outputs = O
    BY <1>2, <1>5 DEF Records
  <1>7. \A f \in All, e \in EventKinds : Count(Empty, f, e) = 0
    BY <1>3, <1>5, <1>6 DEF Count
  <1>8. Sound(Empty)
    <2>1. Originals \subseteq All
      BY DEF All
    <2>2. \A f \in All : \A k \in {ScanPass, ScanFail, Positive, NotIdentified, FixityPass} :
            Count(Empty, f, k) = 0
      BY <1>7, KindFacts
    <2>3. \A f \in All : /\ Empty.format[f] = 0 /\ Empty.ids[f] = 0
                         /\ \A i \in Rules : Empty.outputs[f][i] = 0
      BY <1>4, <1>5, <1>6
    <2> QED BY <2>1, <2>2, <2>3 DEF Sound
  <1>9. DOMAIN codes = {}
    BY <1>1
  <1>10. Types
    <2>1. link \in Batches \cup Ended \cup {"extract"} /\ done \in BOOLEAN
      BY <1>1 DEF Batches
    <2>2. Originals \subseteq files /\ files \subseteq All /\ todo \subseteq Tasks(link, files)
      BY <1>1 DEF All
    <2>3. odd \in 0..MaxOdd
      BY <1>1, FileChecksAssumption
    <2>4. db \in Records /\ tx \in Records
      BY <1>1, <1>6
    <2> QED BY <1>1, <1>9, <2>1, <2>2, <2>3, <2>4 DEF Types
  <1>11. Control /\ Recorded /\ Scanned /\ Validated
    BY <1>1, <1>8 DEF Control, Recorded, Scanned, Validated, Batches, Scans
  <1>12. \A f \in All : Count(db, f, ScanFail) = 0 /\ Count(tx, f, ScanFail) = 0
    BY <1>1, <1>7, KindFacts
  <1>13. StopInv
    <2>1. \A f \in All : Empty.format[f] = 0
      BY <1>5, <1>6
    <2> QED BY <1>1, <1>12, <2>1 DEF StopInv, NoFail, OneFormat, Scans
  <1> QED BY <1>10, <1>11, <1>13 DEF ChecksInv

\* Every step keeps it.
LEMMA ChecksStep ==
  ASSUME ChecksInv, [Next]_vars
  PROVE  ChecksInv'
PROOF
  <1>1. Types /\ Control /\ Recorded /\ Scanned /\ Validated
    BY DEF ChecksInv
  <1>2. CASE Job
    <2>1. PICK t, c, x : Stepped(t, c, x)
      BY <1>2, JobStep
    <2> QED BY <2>1, SteppedInv
  <1>3. CASE SizeRaises
    <2>1. PICK f \in todo : codes' = [u \in DOMAIN codes \cup {f} |-> IF u = f THEN 1 ELSE codes[u]]
      BY <1>3 DEF SizeRaises
    <2>2. /\ link = "sizes" /\ todo # {} /\ odd < MaxOdd /\ odd' = odd + 1 /\ todo' = {}
          /\ link' = link /\ files' = files /\ db' = db /\ tx' = tx /\ done' = done /\ died' = died
          /\ unsaid' = unsaid
      BY <1>3 DEF SizeRaises
    <2>3. \A u \in DOMAIN codes' : codes'[u] \in {0, 1, 255}
      BY <1>1, <2>1 DEF Types
    <2>4. done = FALSE
      BY <1>1, <2>2 DEF Types, Control
    <2>5. odd' \in 0..MaxOdd
      BY <1>1, <2>2, FileChecksAssumption DEF Types
    <2>6. Types'
      BY <1>1, <2>2, <2>3, <2>5 DEF Types
    <2>7. Control' /\ Recorded' /\ Scanned' /\ Validated'
      BY <1>1, <2>2, <2>4 DEF Control, Recorded, Scanned, Validated, Batches, Scans
    <2> QED BY <2>6, <2>7 DEF ChecksInv
  <1>4. CASE Extract \/ Answer \/ Die
    BY <1>4, LinkStarts, StartedInv
  <1>5. CASE Commit
    <2>1. /\ link \notin Ended \cup {"extract"} /\ todo = {} /\ db' = tx /\ tx' = tx /\ done' = TRUE
          /\ link' = link /\ files' = files /\ todo' = todo /\ codes' = codes /\ died' = died /\ odd' = odd
          /\ unsaid' = unsaid
      BY <1>5 DEF Commit, Running
    <2>2. link \in Batches
      BY <1>1, <2>1 DEF Types
    <2>3. Types'
      BY <1>1, <2>1 DEF Types
    <2>4. Control' /\ Recorded'
      BY <1>1, <2>1, <2>2 DEF Control, Recorded
    <2>5. done \in BOOLEAN /\ ~done
      BY <1>1, <1>5 DEF Types, Commit
    <2>6. Scanned' /\ Validated'
      BY <1>1, <2>1, <2>5 DEF Scanned, Validated
    <2> QED BY <2>3, <2>4, <2>6 DEF ChecksInv
  <1>6. CASE CommitRaises
    <2>1. /\ link \notin Ended \cup {"extract"} /\ todo = {} /\ db' = db /\ tx' = db /\ done' = TRUE
          /\ link' = link /\ files' = files /\ todo' = todo /\ codes' = <<>>
          /\ unsaid' = unsaid /\ died' = died /\ odd < MaxOdd /\ odd' = odd + 1
      BY <1>6 DEF CommitRaises, Running
    <2>2. link \in Batches
      BY <1>1, <2>1 DEF Types
    <2>3. DOMAIN codes' = {}
      BY <2>1
    <2>4. odd' \in 0..MaxOdd
      BY <1>1, <2>1, FileChecksAssumption DEF Types
    <2>5. Types'
      BY <1>1, <2>1, <2>3, <2>4 DEF Types
    <2>6. Control' /\ Recorded'
      BY <1>1, <2>1, <2>2, <2>3 DEF Control, Recorded
    <2>7. Scanned' /\ Validated'
      BY <1>1, <2>1, <2>3 DEF Scanned, Validated
    <2> QED BY <2>5, <2>6, <2>7 DEF ChecksInv
  <1>7. CASE Over \/ UNCHANGED vars
    <2>1. UNCHANGED vars
      BY <1>7 DEF Over
    <2> QED BY <1>1, <2>1 DEF vars, ChecksInv, Types, Control, Recorded, Scanned, Validated
  <1> QED BY <1>2, <1>3, <1>4, <1>5, <1>6, <1>7 DEF Next, Works

-----------------------------------------------------------------------------
(* A failed scan stops the transfer.                                       *)

\* A task of a scan that fails says so with its exit code.
LEMMA SteppedStops ==
  ASSUME ChecksInv, NoFail, NEW t, NEW c, NEW x, Stepped(t, c, x)
  PROVE  NoFail'
PROOF
  <1>1. /\ t \in todo /\ link \in Batches /\ DOMAIN codes' = DOMAIN codes \cup {t} /\ codes'[t] = c
        /\ \A u \in DOMAIN codes : u # t => codes'[u] = codes[u]
        /\ tx' = x /\ db' = (IF link = "fixity" THEN x ELSE db) /\ link' = link /\ done' = done
    BY DEF Stepped
  <1>2. t \notin DOMAIN codes /\ done = FALSE /\ link # "failed"
    BY <1>1 DEF ChecksInv, Types, Control, Batches, Scans
  <1>3. CASE link \notin Scans
    <2>1. \A f \in All : Count(db, f, ScanFail) = 0 /\ Count(tx, f, ScanFail) = 0
      BY <1>2, <1>3 DEF NoFail
    <2>2. \A f \in All : Count(x, f, ScanFail) = 0
      BY <1>3, <2>1 DEF Stepped, TaskDoes, SameFails
    <2> QED BY <1>1, <1>3, <2>1, <2>2 DEF NoFail
  <1>4. CASE link \in Scans
    <2>1. /\ \A f \in All : Count(db, f, ScanFail) = 0
          /\ \A f \in All : Count(tx, f, ScanFail) > 0 => f \in DOMAIN codes /\ codes[f] = 1
      BY <1>2, <1>4 DEF NoFail
    <2>2. link # "fixity" /\ db' = db
      BY <1>1, <1>4 DEF Scans
    <2>3. /\ \A g \in All : g # t => x.events[g] = tx.events[g]
          /\ t \in files => (Count(x, t, ScanFail) > 0 => c = 1 \/ Count(db, t, ScanFail) > 0)
          /\ t \notin files => x = tx
      BY <1>4, <2>2 DEF Stepped, TaskDoes
    <2>4. ASSUME NEW f \in All, Count(x, f, ScanFail) > 0
          PROVE  f \in DOMAIN codes' /\ codes'[f] = 1
      <3>1. CASE f # t
        <4>1. Count(tx, f, ScanFail) > 0
          BY <2>3, <2>4, <3>1 DEF Count
        <4> QED BY <1>1, <2>1, <3>1, <4>1
      <3>2. CASE f = t /\ t \in files
        <4>1. c = 1
          BY <2>1, <2>3, <2>4, <3>2
        <4> QED BY <1>1, <3>2, <4>1
      <3>3. CASE f = t /\ t \notin files
        BY <1>2, <2>1, <2>3, <2>4, <3>3
      <3> QED BY <3>1, <3>2, <3>3
    <2> QED BY <1>1, <1>4, <2>1, <2>2, <2>4 DEF NoFail
  <1> QED BY <1>3, <1>4

\* A task gives no file a second format.
LEMMA SteppedFormat ==
  ASSUME ChecksInv, OneFormat, NEW t, NEW c, NEW x, Stepped(t, c, x)
  PROVE  OneFormat'
PROOF
  <1>1. /\ t \in todo /\ todo' = todo \ {t} /\ FormatGrows(x, t) /\ x \in Records
        /\ tx' = x /\ db' = (IF link = "fixity" THEN x ELSE db) /\ link' = link /\ done' = done
    BY DEF Stepped, TaskDoes
  <1>2. tx.format \in [All -> Nat] /\ x.format \in [All -> Nat]
    BY <1>1 DEF ChecksInv, Types, Records
  <1>3. \A f \in All : f # t => x.format[f] = tx.format[f]
    BY <1>1 DEF FormatGrows
  <1>4. t \in All => x.format[t] <= 1
    <2> SUFFICES ASSUME t \in All PROVE x.format[t] <= 1
      OBVIOUS
    <2>1. tx.format[t] <= 1 /\ (link = "sizes" => tx.format[t] = 0)
      BY <1>1 DEF OneFormat
    <2>2. \/ x.format[t] <= 1 \/ x.format[t] <= tx.format[t]
          \/ link = "sizes" /\ x.format[t] <= tx.format[t] + 1
      BY <1>1 DEF FormatGrows
    <2> QED BY <1>2, <2>1, <2>2
  <1>5. \A f \in All : x.format[f] <= 1
    BY <1>3, <1>4 DEF OneFormat
  <1>6. link = "sizes" => db' = db
    BY <1>1
  <1> QED BY <1>1, <1>3, <1>5, <1>6 DEF OneFormat

\* Every step of a worker that does not die after its commit keeps NoFail.
LEMMA StopStep ==
  ASSUME ChecksInv, StopInv, [Next]_vars
  PROVE  StopInv'
PROOF
  <1> SUFFICES ASSUME "late" \notin died' PROVE NoFail' /\ OneFormat'
    BY DEF StopInv
  <1>1. Types /\ Control
    BY DEF ChecksInv
  <1>2. CASE Job
    <2>1. PICK t, c, x : Stepped(t, c, x)
      BY <1>2, JobStep
    <2>2. NoFail /\ OneFormat
      BY <2>1 DEF StopInv, Stepped
    <2> QED BY <2>1, <2>2, SteppedStops, SteppedFormat
  <1>3. CASE SizeRaises
    <2>1. /\ link = "sizes" /\ link' = link /\ db' = db /\ tx' = tx /\ died' = died
          /\ done' = done /\ todo' = {}
      BY <1>3 DEF SizeRaises
    <2>2. NoFail /\ OneFormat
      BY <2>1 DEF StopInv
    <2> QED BY <2>1, <2>2 DEF NoFail, OneFormat, Scans
  <1>4. CASE Extract
    <2>1. link = "extract" /\ died' = died
      BY <1>4 DEF Extract
    <2>2. NoFail /\ OneFormat
      BY <2>1 DEF StopInv
    <2>3. \A f \in All : Count(db, f, ScanFail) = 0
      BY <2>1, <2>2 DEF NoFail, Scans
    <2>4. tx' = db' /\ db'.events = db.events /\ db'.format = db.format
      BY <1>4, LinkStarts DEF Started
    <2>5. \A f \in All : Count(db', f, ScanFail) = 0 /\ Count(tx', f, ScanFail) = 0
      BY <2>3, <2>4 DEF Count
    <2>6. link' # "sizes"
      BY <1>4, <2>1, AfterLinks DEF Extract, Go
    <2> QED BY <2>2, <2>4, <2>5, <2>6 DEF NoFail, OneFormat
  <1>5. CASE Answer
    <2>1. PICK l \in After(link, Max({codes[t] : t \in DOMAIN codes} \cup {0})) : Go(l, files)
      BY <1>5 DEF Answer
    <2>2. done = TRUE /\ db' = db /\ tx' = tx /\ died' = died
      BY <1>1, <1>5 DEF Answer, Types
    <2>3. link \in Batches /\ tx = db /\ link' = l
      BY <1>1, <2>1, <2>2 DEF Control, Types, Go
    <2>4. NoFail /\ OneFormat
      BY <2>2 DEF StopInv
    <2>f. OneFormat'
      <3>1. l # "sizes"
        BY <2>3, AfterLinks
      <3> QED BY <2>2, <2>3, <2>4, <3>1 DEF OneFormat
    <2>5. CASE link \notin Scans
      <3>1. \A f \in All : Count(db, f, ScanFail) = 0 /\ Count(tx, f, ScanFail) = 0
        BY <2>3, <2>4, <2>5 DEF NoFail, Batches, Scans
      <3> QED BY <2>2, <2>f, <3>1 DEF NoFail
    <2>6. CASE link \in Scans
      <3> DEFINE m == Max({codes[t] : t \in DOMAIN codes} \cup {0})
      <3>1. l \in After(link, m)
        OBVIOUS
      <3>m. m = 0 => \A t \in DOMAIN codes : codes[t] = 0
        BY <1>1, CodesMax
      <3> HIDE DEF m
      <3>2. l = "failed" \/ (m = 0 /\ l \notin Scans)
        BY <2>3, <2>6, <3>1, AfterLinks
      <3>3. CASE l = "failed"
        BY <2>3, <2>f, <3>3 DEF NoFail, Scans
      <3>4. CASE m = 0 /\ l \notin Scans
        <4>1. \A f \in All : ~(Count(tx, f, ScanFail) > 0)
          BY <2>4, <2>6, <3>m, <3>4 DEF NoFail
        <4>2. \A f \in All : Count(tx, f, ScanFail) \in Nat
          BY <1>1, CountIsNat, KindFacts DEF Types
        <4>3. \A f \in All : Count(tx, f, ScanFail) = 0
          BY <4>1, <4>2
        <4> QED BY <2>2, <2>3, <2>f, <3>4, <4>3 DEF NoFail
      <3> QED BY <3>2, <3>3, <3>4
    <2> QED BY <2>5, <2>6
  <1>6. CASE Die
    <2>1. died' = died \cup {IF done THEN "late" ELSE "early"} /\ link' = link /\ db' = db /\ tx' = db
      BY <1>6 DEF Die, Go
    <2>2. ~done /\ "late" \notin died
      BY <2>1
    <2>3. NoFail /\ OneFormat
      BY <2>2 DEF StopInv
    <2>4. link \notin {"failed"} => \A f \in All : Count(db, f, ScanFail) = 0
      BY <2>2, <2>3 DEF NoFail
    <2>5. NoFail'
      BY <2>1, <2>4 DEF NoFail, Scans
    <2>6. OneFormat'
      BY <2>1, <2>2, <2>3 DEF OneFormat
    <2> QED BY <2>5, <2>6
  <1>7. CASE Commit
    <2>1. /\ db' = tx /\ tx' = tx /\ done' = TRUE /\ link' = link /\ codes' = codes /\ died' = died
      BY <1>7 DEF Commit
    <2>2. NoFail /\ OneFormat
      BY <2>1 DEF StopInv
    <2>3. todo' = {}
      BY <1>7 DEF Commit
    <2> QED BY <2>1, <2>2, <2>3 DEF NoFail, OneFormat
  <1>8. CASE CommitRaises
    <2>1. /\ db' = db /\ tx' = db /\ done' = TRUE /\ link' = link /\ ~done /\ died' = died
          /\ todo' = {}
      BY <1>8 DEF CommitRaises
    <2>2. NoFail /\ OneFormat
      BY <2>1 DEF StopInv
    <2>3. link \notin {"failed"} => \A f \in All : Count(db, f, ScanFail) = 0
      BY <2>1, <2>2 DEF NoFail
    <2>4. NoFail'
      BY <2>1, <2>3 DEF NoFail, Scans
    <2> QED BY <2>1, <2>2, <2>4 DEF OneFormat
  <1>9. CASE Over \/ UNCHANGED vars
    <2>1. UNCHANGED vars
      BY <1>9 DEF Over
    <2>2. NoFail /\ OneFormat
      BY <2>1 DEF StopInv, vars
    <2> QED BY <2>1, <2>2 DEF vars, NoFail, OneFormat
  <1> QED BY <1>2, <1>3, <1>4, <1>5, <1>6, <1>7, <1>8, <1>9 DEF Next, Works

-----------------------------------------------------------------------------
(* The theorems.                                                           *)

\* The invariant holds always.
THEOREM Invariant == Spec => [](ChecksInv /\ StopInv)
PROOF
  <1>1. ChecksInv /\ StopInv /\ [Next]_vars => ChecksInv' /\ StopInv'
    BY ChecksStep, StopStep
  <1> QED BY <1>1, InitInv, PTL DEF Spec

\* Type correctness: whatever worker dies when, links, files, tasks and exit
\* codes are what the scripts and the workflow know.
THEOREM TypeCorrect == Spec => []TypeOK
PROOF
  <1>1. ChecksInv => TypeOK
    <2> SUFFICES ASSUME ChecksInv PROVE TypeOK
      OBVIOUS
    <2>1. link \in Batches \cup Ended \cup {"extract"} /\ todo \subseteq Tasks(link, files)
      BY DEF ChecksInv, Types
    <2>2. todo \subseteq files \cup Loose \cup HashFiles
      BY <2>1, TasksOf
    <2>3. files \subseteq Originals \cup Extracted
      BY DEF ChecksInv, Types, All
    <2>4. /\ DOMAIN codes \cap todo = {} /\ \A t \in DOMAIN codes : codes[t] \in {0, 1, 255}
          /\ done \in BOOLEAN /\ (done => todo = {})
          /\ unsaid \subseteq files \cup Loose /\ died \subseteq Faults /\ odd \in 0..MaxOdd
      BY DEF ChecksInv, Types, Control
    <2> QED BY <2>1, <2>2, <2>3, <2>4 DEF TypeOK, Batches
  <1> QED BY <1>1, Invariant, PTL

\* However often a batch is delivered, a file has at most one event of a scan
\* and of an identification and each rule's output once: the scripts look for
\* what an earlier run committed.
THEOREM RecordedOnceEach == Spec => []RecordedOnce
PROOF
  <1>1. ChecksInv => RecordedOnce
    <2> SUFFICES ASSUME ChecksInv PROVE RecordedOnce
      OBVIOUS
    <2>1. Sound(db) /\ files \subseteq All
      BY DEF ChecksInv, Types, Recorded
    <2> QED BY <2>1 DEF Sound, RecordedOnce, ScanPass, ScanFail, Positive, NotIdentified
  <1> QED BY <1>1, Invariant, PTL

\* What is recorded of a file is what the tools said, although it is
\* committed after the loop over the batch, which may raise and run again.
THEOREM RecordsTrue == Spec => []RecordsAreTrue
PROOF
  <1>1. ChecksInv /\ StopInv => RecordsAreTrue
    <2> SUFFICES ASSUME ChecksInv, StopInv PROVE RecordsAreTrue
      OBVIOUS
    <2>1. Sound(db) /\ files \subseteq All /\ db \in Records
      BY DEF ChecksInv, Types, Recorded
    <2>2. done => tx = db
      BY DEF ChecksInv, Control
    <2>3. FailureIsRecorded
      BY <2>2 DEF ChecksInv, Scanned, ScanAgrees, FailureIsRecorded, ScanFail, ScanPass
    <2>4. ValidatedMeansPassed
      BY <2>2 DEF ChecksInv, Validated, ValidatedMeansPassed, Passes, Valid, PartValid
    <2>5. \A f \in All : db.format[f] <= 1 \/ "late" \in died
      BY DEF StopInv, OneFormat
    <2>6. FormatIsIdentified
      BY <2>1, <2>5 DEF Sound, FormatIsIdentified, Positive
    <2>7. FixityAllOrNone
      BY <2>1 DEF Sound, FixityAllOrNone, FixityPass
    <2> QED BY <2>3, <2>4, <2>6, <2>7 DEF RecordsAreTrue
  <1> QED BY <1>1, Invariant, PTL

\* Unless a worker died between its commit and its answer, a transfer with a
\* file for which the scan recorded Fail goes to no link but the one for
\* failed transfers.
THEOREM FailedScanStopsTransfer == Spec => []FailedScanStopsOnce
PROOF
  <1>1. ChecksInv /\ StopInv => FailedScanStopsOnce
    <2> SUFFICES ASSUME ChecksInv, StopInv, "late" \notin died, link \notin Scans \cup {"failed"}
                 PROVE  \A f \in files : Count(db, f, ScanFail) = 0
      BY DEF FailedScanStopsOnce, FailedScanStops, ScanFail
    <2>1. files \subseteq All
      BY DEF ChecksInv, Types
    <2> QED BY <2>1 DEF StopInv, NoFail
  <1> QED BY <1>1, Invariant, PTL

=============================================================================
