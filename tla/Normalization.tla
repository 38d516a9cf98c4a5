--------------------------- MODULE Normalization ---------------------------
(***************************************************************************)
(* Normalization of the files of a SIP (normalize.py, transcoder.py), the  *)
(* choice that follows to approve it or to do it again                     *)
(* (retry_normalize_remove_normalized.py), and how files normalized by     *)
(* hand are related to their originals                                     *)
(* (manual_normalization_create_metadata_and_restructure.py).              *)
(*                                                                         *)
(* The tasks of a link share one transaction.  An error of the database in *)
(* one of them breaks it: the tasks that follow fail, and at the end all   *)
(* that the batch recorded is rolled back without an exception, while the  *)
(* tasks that came before keep their exit codes.  What a task did to the   *)
(* disk is there at once, whatever becomes of the transaction.             *)
(***************************************************************************)
EXTENDS Integers, Sequences, FiniteSets, FiniteSetsExt

CONSTANTS
  Originals,    \* files of use "original"
  Manual,       \* those with a file in manualNormalization/preservation
  ManualAccess, \* those with a file in manualNormalization/access
  Reingested,   \* those that come with a preservation derivative
  Outputs,      \* what a command that succeeds leaves: subset of OutputKinds
  Modes,        \* thumbnail modes to choose from: subset of ThumbnailModes
  Faults,       \* how a worker may die: subset of {"early", "late"}
  MaxRounds,    \* bound: how often the user may normalize
  MaxOdd        \* bound: how many results may be other than usual

\* A file where the command's output should be, nothing there, a directory
\* with one file, with several or with none, or a command that names no output.
OutputKinds == {"file", "nothing", "single", "several", "empty", "unnamed"}
ThumbnailModes == {"generate", "generate_non_default", "do_not_generate"}

ASSUME NormalizationAssumption ==
  /\ IsFiniteSet(Originals) /\ Manual \subseteq Originals /\ Reingested \subseteq Originals
  /\ ManualAccess \subseteq Originals
  /\ Outputs \subseteq OutputKinds /\ Modes \subseteq ThumbnailModes /\ Modes # {}
  /\ Faults \subseteq {"early", "late"}
  /\ MaxRounds \in Nat /\ MaxOdd \in Nat

VARIABLES
  stage,   \* a batch under way, a choice of the user, or how it ended
  plan,    \* the purposes still to normalize for, the current one first
  mode,    \* the thumbnail mode
  round,
  todo,    \* tasks of the batch that have not run; when removing, files
  codes,   \* exit codes of the tasks that have
  quiet,   \* those whose command succeeded or was skipped with nothing to record
  db,      \* the database: derived files, derivations, normalization events
  tx,      \* the same within the transaction
  broken,  \* the transaction can only be rolled back
  done,    \* the batch is over, its answer not sent
  disk,    \* preservation copies on disk; access copies and thumbnails, which
           \* lie outside of objects/, are left out
  moving,  \* the task that has moved its file and not recorded it
  moved,   \* files normalized by hand that were moved: on disk, in tx, in db
  died,    \* which workers died, and how
  raised,  \* the batches whose commit raised
  odd

relating == <<moving, moved>>
faults == <<died, raised>>
vars == <<stage, plan, mode, round, todo, codes, quiet, db, tx, broken, done, disk, relating, faults, odd>>

Batches == {"normalize", "remove", "relate"}

\* A derived file is known by the task that made it: its UUID is the task's.
File(f, purpose, n) == <<f, purpose, n>>
ManualFile(f) == File(f, "manual", 0)
EarlierFile(f) == File(f, "preservation", 0)

\* The row of a derived file: its use and whether removedtime is set.
Row(use) == [use |-> use, removed |-> FALSE]

Earlier == {EarlierFile(f) : f \in Reingested}
ManualFiles == {ManualFile(f) : f \in Manual}

Init ==
  /\ stage = "choose" /\ plan = <<>> /\ mode \in Modes /\ round = 0
  /\ todo = {} /\ codes = <<>> /\ quiet = {}
  /\ db = [rows  |-> [d \in Earlier \cup ManualFiles |->
                        Row(IF d \in Earlier THEN "preservation" ELSE "manualNormalization")],
           links |-> {[of |-> f, to |-> EarlierFile(f), event |-> 0] : f \in Reingested},
           events |-> [f \in Originals |-> 0]]
  /\ tx = db
  /\ broken = FALSE /\ done = FALSE
  /\ disk = Earlier
  /\ moving = {} /\ moved = [disk |-> {}, tx |-> {}, db |-> {}]
  /\ died = {} /\ raised = {} /\ odd = 0

\* "Normalize?": for preservation and access, for one of them, or not at all.
Plans == {<<"thumbnail", "access", "preservation">>, <<"thumbnail", "access">>,
          <<"thumbnail", "preservation">>, <<>>}

\* A batch starts, on what is committed.
Batch(s, T) ==
  /\ stage' = s /\ todo' = T
  /\ codes' = <<>> /\ quiet' = {}
  /\ broken' = FALSE /\ done' = FALSE
  /\ tx' = db /\ moving' = {} /\ moved' = [moved EXCEPT !.tx = moved.db]

Begin(p) ==
  /\ plan' = p
  /\ IF p = <<>> THEN Batch("report", {}) ELSE Batch("normalize", Originals)

Choose ==
  /\ stage = "choose" /\ round < MaxRounds
  /\ round' = round + 1
  /\ mode' \in Modes
  /\ \E p \in Plans : Begin(p)
  /\ UNCHANGED <<db, disk, faults, odd>>

-----------------------------------------------------------------------------
(* main of normalize.py, for one task.                                     *)

Links(d, f, purpose) == {l \in d.links : l.of = f /\ d.rows[l.to].use = purpose}

\* Fault: old derivations stay.
CleanUpNothing(d, f, purpose) == d

\* "For re-ingest: clean up old derivations".
CleanUp(d, f, purpose) ==
  LET old == Links(d, f, purpose)
  IN [d EXCEPT !.rows = [r \in DOMAIN @ |->
                           IF \E l \in old : l.to = r THEN [@[r] EXCEPT !.use = "deleted"] ELSE @[r]],
               !.links = @ \ old]

\* insert_derivation_event: an event of the original, and the derivation.
InsertDerivationEvent(d, f, to) ==
  [d EXCEPT !.events[f] = @ + 1,
            !.links = @ \cup {[of |-> f, to |-> to, event |-> d.events[f] + 1]}]

\* Fault: the file without the derivation.
OnceNormalizedUnlinked(d, f, purpose) ==
  LET to == File(f, purpose, round)
  IN [d EXCEPT !.rows = [r \in DOMAIN @ \cup {to} |-> IF r = to THEN Row(purpose) ELSE @[r]]]

\* once_normalized, for a file that the command left.  File.objects.create
\* with the UUID of a row that is there breaks the transaction.
OnceNormalized(d, f, purpose) ==
  LET to == File(f, purpose, round)
      e == [d EXCEPT !.rows = [r \in DOMAIN @ \cup {to} |-> IF r = to THEN Row(purpose) ELSE @[r]]]
  IN IF purpose = "preservation" THEN InsertDerivationEvent(e, f, to)
     ELSE [e EXCEPT !.links = @ \cup {[of |-> f, to |-> to, event |-> 0]}]

\* Each of the files of an output directory gets the UUID of the task.
Breaks(d, f, purpose, out) ==
  \/ out = "several"
  \/ out \in {"file", "single"} /\ File(f, purpose, round) \in DOMAIN d.rows

\* What once_normalized records does not depend on the exit code: a thumbnail
\* is then copied, which raises if there is no file of that name.
Records(out, breaks) == out \in {"file", "single"} /\ ~breaks

RunCode(purpose, out, breaks) ==
  IF out = "nothing" \/ breaks \/ (purpose = "thumbnail" /\ out # "file") THEN 1 ELSE 0

\* A task ends: its exit code, what it leaves in the database and on disk,
\* whether it broke the transaction and whether it had nothing to record.
Result(c, d) == [code |-> c, db |-> d, made |-> {}, breaks |-> FALSE, quiet |-> FALSE]

Ends(f, r, n) ==
  /\ todo' = todo \ {f}
  /\ codes' = [u \in DOMAIN codes \cup {f} |-> IF u = f THEN r.code ELSE codes[u]]
  /\ quiet' = IF r.quiet THEN quiet \cup {f} ELSE quiet
  /\ tx' = r.db
  /\ disk' = disk \cup r.made
  /\ broken' = (broken \/ r.breaks)
  /\ odd + n <= MaxOdd /\ odd' = odd + n
  /\ UNCHANGED <<stage, plan, mode, round, db, done, relating, faults>>

Running == stage = "normalize" /\ ~done
Made(f) == IF Head(plan) = "preservation" THEN {File(f, "preservation", round)} ELSE {}

\* "Thumbnail generation has been disabled".
NoThumbnails == Head(plan) = "thumbnail" /\ mode = "do_not_generate"

NormalizeSkips ==
  /\ Running /\ NoThumbnails
  /\ \E f \in todo : Ends(f, [Result(0, tx) EXCEPT !.quiet = TRUE], 0)

\* Every query of a task in a broken transaction raises.
NormalizeBroken ==
  /\ Running /\ broken /\ ~NoThumbnails
  /\ \E f \in todo : Ends(f, Result(1, tx), 0)

ByHand(purpose) ==
  CASE purpose = "preservation" -> Manual [] purpose = "access" -> ManualAccess [] OTHER -> {}

\* check_manual_normalization finds a file for this purpose: skip.
NormalizeManual ==
  /\ Running /\ ~broken
  /\ \E f \in todo \cap ByHand(Head(plan)) :
       LET d == CleanUp(tx, f, Head(plan))
       IN \/ /\ Head(plan) = "preservation"
             /\ Ends(f, Result(0, InsertDerivationEvent(d, f, ManualFile(f))), 0)
          \/ /\ Head(plan) = "access"
             /\ Ends(f, [Result(0, d) EXCEPT !.quiet = TRUE], 0)

\* What the format policy says is asked only then.
Asks(f) == f \in todo \ ByHand(Head(plan)) /\ ~NoThumbnails

\* Neither a rule for the format nor a default rule (NO_RULE_FOUND), or no rule
\* and a thumbnail only if there is one.
NormalizeNoRule ==
  /\ Running /\ ~broken
  /\ \E f \in todo :
       /\ Asks(f)
       /\ LET d == CleanUp(tx, f, Head(plan))
          IN \/ Ends(f, Result(2, d), 1)
             \/ /\ Head(plan) = "thumbnail" /\ mode = "generate_non_default"
                /\ Ends(f, [Result(0, d) EXCEPT !.quiet = TRUE], 0)

\* The command succeeds.  When it left nothing where its output should be,
\* once_normalized makes its exit code -2; access and thumbnails then fall
\* back to the default rule, whose failure is the same as the command's.
NormalizeRuns ==
  /\ Running /\ ~broken
  /\ \E f \in todo, out \in Outputs :
       LET d == CleanUp(tx, f, Head(plan))
           breaks == Breaks(d, f, Head(plan), out)
       IN /\ Asks(f)
          /\ Ends(f, [code   |-> RunCode(Head(plan), out, breaks),
                      db     |-> IF Records(out, breaks) THEN OnceNormalized(d, f, Head(plan)) ELSE d,
                      made   |-> IF out \in {"file", "single", "several"} THEN Made(f) ELSE {},
                      breaks |-> breaks,
                      quiet  |-> out \in {"empty", "unnamed"}],
                  IF out = "file" THEN 0 ELSE 1)

\* It fails, and may have left a file.  Without one, access and thumbnails
\* fall back to the default rule, which NormalizeRuns stands for if it works.
NormalizeFails ==
  /\ Running /\ ~broken
  /\ \E f \in todo, left \in BOOLEAN :
       /\ Asks(f)
       /\ Ends(f, [Result(1, CleanUp(tx, f, Head(plan))) EXCEPT !.made = IF left THEN Made(f) ELSE {}], 1)

-----------------------------------------------------------------------------
(* The choice after the report.                                            *)

\* Fault: events are deleted, their derivations are not.
RemoveKeepLinks(d) == [d EXCEPT !.events = [f \in Originals |-> 0]]

\* The derivations of files normalized by hand and the normalization events;
\* deleting an event deletes the derivations that refer to it (CASCADE).
RemoveLinks(d) ==
  [d EXCEPT !.links = {l \in @ : l.event = 0 /\ d.rows[l.to].use # "manualNormalization"},
            !.events = [f \in Originals |-> 0]]

Live(d) == {r \in DOMAIN d.rows : d.rows[r].use = "preservation" /\ ~d.rows[r].removed}

Redo ==
  /\ stage = "report" /\ round < MaxRounds
  /\ Batch("remove", Live(db))
  /\ UNCHANGED <<plan, mode, round, db, disk, faults, odd>>

\* Row by row: removedtime is set, the file is removed.  A file that cannot be
\* removed is only reported.
RemoveFile ==
  /\ stage = "remove" /\ ~done
  /\ \E r \in todo :
       /\ todo' = todo \ {r}
       /\ tx' = [tx EXCEPT !.rows[r].removed = TRUE]
       /\ \/ disk' = disk \ {r} /\ UNCHANGED odd
          \/ disk' = disk /\ odd < MaxOdd /\ odd' = odd + 1
  /\ UNCHANGED <<stage, plan, mode, round, codes, quiet, db, broken, done, relating, faults>>

\* The rest of the one task of this batch.
RemoveRest ==
  /\ stage = "remove" /\ ~done /\ todo = {} /\ DOMAIN codes = {}
  /\ tx' = RemoveLinks(tx)
  /\ codes' = [t \in {"remove"} |-> 0]
  /\ UNCHANGED <<stage, plan, mode, round, todo, quiet, db, broken, done, disk, relating, faults, odd>>

-----------------------------------------------------------------------------
(* One task per file normalized by hand.                                   *)

Approve ==
  /\ stage = "report"
  /\ Batch("relate", Manual)
  /\ UNCHANGED <<plan, mode, round, db, disk, faults, odd>>

RelateEnds(f, c) ==
  /\ todo' = todo \ {f}
  /\ codes' = [u \in DOMAIN codes \cup {f} |-> IF u = f THEN c ELSE codes[u]]

\* Its original is not found or there are several, or it is already where it
\* should be moved to.
RelateFails ==
  /\ stage = "relate" /\ moving = {}
  /\ \E f \in todo :
       /\ RelateEnds(f, 2)
       /\ \/ f \in moved.disk /\ UNCHANGED odd
          \/ odd < MaxOdd /\ odd' = odd + 1
  /\ UNCHANGED <<stage, plan, mode, round, quiet, db, tx, broken, done, disk, relating, faults>>

\* It is moved beside its original.
RelateMoves ==
  /\ stage = "relate" /\ moving = {}
  /\ \E f \in todo \ moved.disk :
       moving' = {f} /\ moved' = [moved EXCEPT !.disk = @ \cup {f}]
  /\ UNCHANGED <<stage, plan, mode, round, todo, codes, quiet, db, tx, broken, done, disk, faults, odd>>

\* A normalization event of the original that is there is taken for its own,
\* more than one is an error.
RelateRecords ==
  /\ stage = "relate"
  /\ \E f \in moving :
       /\ RelateEnds(f, IF tx.events[f] > 1 THEN 1 ELSE 0)
       /\ tx' = IF tx.events[f] = 0 THEN InsertDerivationEvent(tx, f, ManualFile(f)) ELSE tx
       /\ moved' = [moved EXCEPT !.tx = @ \cup {f}]
  /\ moving' = {}
  /\ UNCHANGED <<stage, plan, mode, round, quiet, db, broken, done, disk, faults, odd>>

-----------------------------------------------------------------------------
(* The end of a batch.                                                     *)

BatchOver ==
  /\ stage \in Batches /\ ~done
  /\ todo = {} /\ (stage = "remove" => DOMAIN codes # {})

Commit ==
  /\ BatchOver
  /\ done' = TRUE
  /\ db' = IF broken THEN db ELSE tx
  /\ moved' = IF broken THEN moved ELSE [moved EXCEPT !.db = moved.tx]
  /\ tx' = db'
  /\ UNCHANGED <<stage, plan, mode, round, todo, codes, quiet, broken, disk, moving, faults, odd>>

\* The batch is rolled back and fails; the server drops its exit codes
\* (handleJobUpdate), so that the job counts as done with exit code 0.
CommitRaises ==
  /\ BatchOver /\ ~broken
  /\ odd < MaxOdd /\ odd' = odd + 1
  /\ done' = TRUE
  /\ tx' = db /\ codes' = <<>>
  /\ raised' = raised \cup {stage}
  /\ moved' = [moved EXCEPT !.tx = moved.db]
  /\ UNCHANGED <<stage, plan, mode, round, todo, quiet, db, broken, disk, moving, died>>

\* The links of normalization and of the removal go on whatever the exit code.
Answer ==
  /\ stage \in {"normalize", "remove"} /\ done
  /\ IF stage = "normalize" THEN Begin(Tail(plan)) ELSE Batch("choose", {}) /\ UNCHANGED plan
  /\ UNCHANGED <<mode, round, db, disk, faults, odd>>

Related ==
  /\ stage = "relate" /\ done
  /\ Batch(IF \E f \in DOMAIN codes : codes[f] # 0 THEN "failed" ELSE "approved", {})
  /\ UNCHANGED <<plan, mode, round, db, disk, faults, odd>>

Die ==
  /\ stage \in Batches
  /\ LET when == IF done THEN "late" ELSE "early"
     IN when \in Faults /\ died' = died \cup {<<stage, when>>}
  /\ odd < MaxOdd /\ odd' = odd + 1
  /\ Batch(stage, CASE stage = "normalize" -> Originals
                    [] stage = "remove"    -> Live(db)
                    [] stage = "relate"    -> Manual)
  /\ UNCHANGED <<plan, mode, round, db, disk, raised>>

Works ==
  \/ NormalizeSkips \/ NormalizeBroken \/ NormalizeManual \/ NormalizeNoRule
  \/ NormalizeRuns \/ NormalizeFails
  \/ RemoveFile \/ RemoveRest \/ RelateFails \/ RelateMoves \/ RelateRecords
  \/ Commit \/ CommitRaises \/ Answer \/ Related

Over == stage \in {"approved", "failed"} /\ UNCHANGED vars

Next == Choose \/ Works \/ Die \/ Redo \/ Approve \/ Over

\* A worker goes on with its batch and the server with the next link; what
\* the user chooses, and whether, is not assumed.
Spec == Init /\ [][Next]_vars /\ WF_vars(Works)

-----------------------------------------------------------------------------
TypeOK ==
  /\ stage \in Batches \cup {"choose", "report", "approved", "failed"}
  /\ plan \in Plans \cup {<<"access", "preservation">>, <<"access">>, <<"preservation">>}
  /\ mode \in Modes /\ round \in 0..MaxRounds /\ odd \in 0..MaxOdd
  /\ stage # "remove" => todo \subseteq Originals /\ todo \cap DOMAIN codes = {}
  /\ \A l \in tx.links \cup db.links : l.of \in Originals /\ l.to \in DOMAIN tx.rows
  /\ \A f \in Originals : db.events[f] \in Nat
  /\ moving \subseteq todo /\ moved \in [disk : SUBSET Manual, tx : SUBSET Manual, db : SUBSET Manual]
  /\ broken \in BOOLEAN /\ done \in BOOLEAN

Derivations(f, use) == {l \in db.links : l.of = f /\ db.rows[l.to].use = use}

\* An original has at most one derivation for preservation by a command or from
\* an earlier AIP and at most one by hand, however often the user normalizes, and
\* both only if it came from an earlier AIP and was normalized by hand; unless a
\* batch ran again that had been committed, or the removal was rolled back.
OneDerivative ==
  <<"normalize", "late">> \notin died /\ "remove" \notin raised =>
    \A f \in Originals :
      LET made == Derivations(f, "preservation")
          hand == Derivations(f, "manualNormalization")
      IN /\ Cardinality(made) <= 1 /\ Cardinality(hand) <= 1
         /\ made # {} /\ hand # {} => f \in Manual \cap Reingested

\* A derivation that has an event leads to a file that is not removed or
\* deleted, and the original has that event.
LinksLead ==
  \A l \in db.links : l.event > 0 =>
    ~db.rows[l.to].removed /\ db.rows[l.to].use # "deleted" /\ db.events[l.of] > 0

\* A preservation file with a row that is not removed is on disk, but while
\* files are being removed, and if the rows of files that were removed were
\* rolled back for good.
LiveIsOnDisk ==
  "remove" \notin raised => \A r \in Live(db) : r \in disk \/ (stage = "remove" /\ ~done)

\* Once a batch has been committed, exit code 0 means that the derivative of
\* the file is recorded ("Updates the database if normalization completed
\* successfully"), unless there was none to record: no thumbnail was wanted,
\* the access copy was made by hand, the command names no output or an empty
\* directory.
SuccessIsRecorded ==
  stage = "normalize" /\ done =>
    \A f \in DOMAIN codes \ quiet : codes[f] = 0 =>
      \E l \in db.links : l.of = f /\ db.rows[l.to].use \in {Head(plan), "manualNormalization"}

\* So it is in a transaction that no task broke.
SuccessIsRecordedUnbroken == ~broken => SuccessIsRecorded

\* When the SIP goes on, each file normalized by hand is beside its original, as
\* its row says, and related to it, unless the original has another derivative;
\* or the batch that relates them was rolled back.
ManualIsRelated ==
  stage = "approved" /\ "relate" \notin raised =>
    \A f \in Manual : /\ f \in moved.disk \cap moved.db
                      /\ \E l \in db.links : l.of = f /\ l.event > 0

\* The derivations lead somewhere: however often the user normalizes again,
\* whatever is removed for it and whichever worker dies meanwhile, a recorded
\* derivative is on disk and its original has the event, and a file normalized
\* by hand ends up related.
DerivationsLead == LinksLead /\ LiveIsOnDisk /\ ManualIsRelated

=============================================================================
