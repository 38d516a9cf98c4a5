----------------------------- MODULE AipProofs -----------------------------
(***************************************************************************)
(* Proofs about Aip, for any files, directories and derivations, any       *)
(* number of faults and of deaths of workers.                              *)
(*                                                                         *)
(* The inductive invariant says, link by link, what is already true of the *)
(* steps a task has left, the copies of a file, the METS document, the     *)
(* fixity events and the identifiers.                                      *)
(***************************************************************************)
EXTENDS Aip, FiniteSetTheorems, SequenceTheorems, TLAPS

Records == [pids : [Bearers -> Nat], given : [Bearers -> Nat], aipRow : BOOLEAN,
            events : Seq({"Pass", "Fail"}), arranged : BOOLEAN]

Bags == [is : {"none", "dir", "bag", "whole"}, data : [All -> Content],
         manifest : [All -> Content]]

BeforeBag == {"declare", "bindFile", "bindUnit", "mets"}
BeforeRemove == BeforeBag \cup {"bag", "compress"}
BeforeVerify == BeforeRemove \cup {"remove"}

Types ==
  /\ link \in BeforeVerify \cup {"verify", "store", "reject", "cleanup"} \cup Ended
  /\ code \in {0, 1} /\ done \in BOOLEAN /\ tmp \in BOOLEAN
  /\ reingest \in BOOLEAN /\ known \subseteq Files /\ source \in Sources
  /\ sip \in [All -> Content] /\ bag \in Bags /\ archive \in Bags
  /\ db \in Records /\ tx \in Records
  /\ handles \subseteq Bearers /\ hurt \subseteq All /\ missed \subseteq All
  /\ unwritten \in BOOLEAN /\ odd \in 0..MaxOdd

\* createMETS: the files, then the document.
WalkThenWrite(t) ==
  /\ t \in Seq(All \cup {"write"})
  /\ \A i \in 1..Len(t) : t[i] = "write" <=> i = Len(t)

\* The steps a task may have left; it is committed after the last one.
Steps ==
  /\ done => todo = <<>> /\ tx = db /\ link \notin Ended
  /\ link = "bindUnit" => todo \in Seq({Sip} \cup Dirs)
  /\ link = "mets" => WalkThenWrite(todo)
  /\ link = "bag" => todo \in {<<"mkdir", "copy", "make">>, <<"copy", "make">>, <<"make">>, <<>>}
  /\ link = "compress" => todo \in {<<"compress">>, <<>>}
  /\ link = "remove" => \/ todo \in {<<"objects">>, <<>>}
                        \/ todo = <<"bag", "objects">> /\ archive.is # "none"
  /\ link = "verify" => todo \in {<<"extract", "check">>, <<"check">>, <<>>}

\* What identifiers are recorded, also in the open transaction.
Bound(d) ==
  /\ \A b \in Bearers : d.pids[b] > 0 => b \in handles
  /\ \A f \in Files : d.pids[f] <= 1

Pids == Bound(db) /\ Bound(tx)

\* The AIP is made of its parts in order.
Parts ==
  /\ link \in BeforeBag => bag = NoBag
  /\ link \in BeforeBag \cup {"bag"} => archive = NoBag
  /\ link = "compress" /\ program = "None" => archive = NoBag

\* Where a file is that nothing altered.
KeptOf(f) ==
  /\ link \in BeforeRemove => sip[f] = "ok"
  /\ link = "bag" /\ (todo = <<"make">> \/ (todo = <<>> /\ code = 0)) => bag.data[f] = "ok"
  /\ link = "compress" => bag.data[f] = "ok"
  /\ link = "compress" /\ todo = <<>> /\ code = 0 =>
       f \in missed \/ archive.is = "none" \/ archive.data[f] = "ok"
  /\ link \in {"remove", "verify", "store", "stored", "reject", "rejected"} =>
       f \in missed \/ TheAip.data[f] = "ok"
  /\ link \in {"cleanup", "failed"} => f \in missed \/ sip[f] = "ok" \/ TheAip.data[f] = "ok"

Kept == \A f \in All \ hurt : KeptOf(f)

\* verify_aip has passed.
Verified == (link = "verify" /\ todo = <<>> /\ code = 0) \/ link \in {"store", "stored"}

\* A copy is wrong only if somebody altered the file; verify_aip finds out.
Truth ==
  /\ \A f \in All \ hurt : sip[f] # "bad" /\ bag.data[f] # "bad" /\ archive.data[f] # "bad"
  /\ Verified => /\ VerifyChecksums(TheAip)
                 /\ \A f \in Files \ hurt : TheAip.manifest[f] = "ok" => TheAip.data[f] = "ok"

\* There are fixity events only once verify_aip has run.
Fixity ==
  /\ tx.aipRow = db.aipRow
  /\ link \in BeforeVerify => db.events = <<>> /\ tx.events = <<>>
  /\ \A d \in {db, tx} : Contains(d.events, "Pass") => VerifyChecksums(TheAip)
  /\ Verified /\ tx.aipRow => Contains(tx.events, "Pass") \/ unwritten
  /\ link \in {"store", "stored"} /\ db.aipRow => Contains(db.events, "Pass") \/ unwritten

\* The METS document describes files in their groups, each once, and all that may
\* be bagged.
Pairs == {e \in Files \X Files : e[2] \in Groups(e[1])}
Once(d) == \A f, g, h : <<f, g>> \in d /\ <<f, h>> \in d => g = h
InDoc(f) == \E g \in Files : <<f, g>> \in doc
InMets(f) == \E g \in Files : <<f, g>> \in mets

Absent(f) ==
  /\ sip[f] = "none" /\ bag.data[f] = "none"
  /\ bag.manifest[f] = "none" /\ archive.manifest[f] = "none"

Written ==
  \/ link = "mets" /\ todo = <<>> /\ code = 0
  \/ link \in {"bag", "compress", "remove", "verify", "store", "stored"}

Described ==
  /\ OldMets \subseteq doc /\ doc \subseteq Pairs /\ mets \subseteq Pairs /\ Once(doc) /\ Once(mets)
  /\ link = "mets" /\ todo # <<>> /\ code = 0 =>
       \A f \in All \ Former : f \in ToSet(todo) \/ sip[f] = "none" \/ InDoc(f)
  /\ Written => \A f \in All \ Former : Absent(f) \/ InMets(f)

AipInv == Types /\ Steps /\ Pids /\ Parts /\ Kept /\ Truth /\ Fixity /\ Described

-----------------------------------------------------------------------------
(* Sequences.                                                              *)

\* Short sequences and what is left of them.
LEMMA ShortSequences ==
  \A a, b, c :
    /\ Head(<<a, b, c>>) = a /\ Tail(<<a, b, c>>) = <<b, c>>
    /\ Head(<<a, b>>) = a /\ Tail(<<a, b>>) = <<b>>
    /\ Head(<<a>>) = a /\ Tail(<<a>>) = <<>>
    /\ <<a, b, c>> # <<>> /\ <<a, b>> # <<>> /\ <<a>> # <<>>
    /\ \A d : <<a, b>> # <<d>> /\ \A e : <<a, b, c>> # <<d>> /\ <<a, b, c>> # <<d, e>>
OBVIOUS

\* AnyOrder lists the elements of a finite set.
LEMMA AnyOrderLists ==
  ASSUME NEW S, IsFiniteSet(S)
  PROVE  AnyOrder(S) \in Seq(S) /\ ToSet(AnyOrder(S)) = S
<1> DEFINE c == Cardinality(S)
           P(f) == f \in [1..c -> S] /\ IsInjective(f)
<1>1. c \in Nat /\ ExistsBijection(1..c, S)
  BY FS_CardinalityType
<1>2. PICK g : g \in Bijection(1..c, S)
  BY <1>1 DEF ExistsBijection
<1>3. g \in [1..c -> S] /\ IsInjective(g)
  BY <1>2 DEF Bijection, Injection, IsInjective
<1> DEFINE s == AnyOrder(S)
<1>4. s = CHOOSE f \in [1..c -> S] : IsInjective(f)
  BY DEF AnyOrder, SetToSeq
<1>5. s \in [1..c -> S] /\ IsInjective(s)
  <2> HIDE DEF c
  <2> QED
    BY <1>3, <1>4
<1>6. s \in Injection(1..c, S)
  BY <1>5 DEF Injection, IsInjective
<1>7. Cardinality(1..c) = c
  <2> HIDE DEF c
  <2> QED
    BY <1>1, FS_Interval
<1>8. s \in Surjection(1..c, S)
  BY <1>6, <1>7, FS_Injection
<1> HIDE DEF s
<1>9. s \in Seq(S) /\ Len(s) = c
  BY <1>1, <1>5
<1>10. ToSet(s) = S
  BY <1>8, <1>9 DEF Surjection, ToSet
<1> QED
  BY <1>9, <1>10 DEF s

-----------------------------------------------------------------------------
(* Types.                                                                  *)

\* What each step of a task does to the control: where it happens, and the
\* steps that are left.
LEMMA Effects ==
  ASSUME Types, Steps
  PROVE  /\ BagMkdir => /\ link = "bag" /\ todo = <<"mkdir", "copy", "make">>
                        /\ todo' = <<"copy", "make">> \/ (todo' = <<>> /\ code' = 1)
         /\ BagCopy => /\ link = "bag" /\ todo = <<"copy", "make">>
                       /\ todo' = <<"make">> \/ (todo' = <<>> /\ code' = 1)
         /\ MakeBag => /\ link = "bag" /\ todo = <<"make">> /\ todo' = <<>>
         /\ Compress => link = "compress" /\ todo = <<"compress">> /\ todo' = <<>>
         /\ RemoveBag => /\ link = "remove" /\ todo = <<"bag", "objects">> /\ archive.is # "none"
                         /\ todo' = <<"objects">>
         /\ RemoveObjects => link = "remove" /\ todo = <<"objects">> /\ todo' = <<>>
         /\ VerifyExtract => /\ link = "verify" /\ todo = <<"extract", "check">>
                             /\ todo' = <<"check">> \/ (todo' = <<>> /\ code' = 1)
         /\ VerifyCheck => link = "verify" /\ todo = <<"check">> /\ todo' = <<>>
<1> DEFINE b3 == <<"mkdir", "copy", "make">>
           b2 == <<"copy", "make">>
           b1 == <<"make">>
           c1 == <<"compress">>
           r2 == <<"bag", "objects">>
           r1 == <<"objects">>
           v2 == <<"extract", "check">>
           v1 == <<"check">>
<1>0. /\ Head(b3) = "mkdir" /\ Tail(b3) = b2 /\ Head(b2) = "copy" /\ Tail(b2) = b1
      /\ Head(b1) = "make" /\ Tail(b1) = <<>> /\ Head(c1) = "compress" /\ Tail(c1) = <<>>
      /\ Head(r2) = "bag" /\ Tail(r2) = r1 /\ Head(r1) = "objects" /\ Tail(r1) = <<>>
      /\ Head(v2) = "extract" /\ Tail(v2) = v1 /\ Head(v1) = "check" /\ Tail(v1) = <<>>
  BY ShortSequences
<1>s. /\ link = "bag" => todo \in {b3, b2, b1, <<>>}
      /\ link = "compress" => todo \in {c1, <<>>}
      /\ link = "remove" => todo \in {r1, <<>>} \/ (todo = r2 /\ archive.is # "none")
      /\ link = "verify" => todo \in {v2, v1, <<>>}
  BY DEF Steps
<1> HIDE DEF b3, b2, b1, c1, r2, r1, v2, v1
<1>1. BagMkdir => /\ link = "bag" /\ todo = b3
                  /\ todo' = b2 \/ (todo' = <<>> /\ code' = 1)
  BY <1>0, <1>s DEF BagMkdir, GoesOn, Fails, At
<1>2. BagCopy => /\ link = "bag" /\ todo = b2
                 /\ todo' = b1 \/ (todo' = <<>> /\ code' = 1)
  BY <1>0, <1>s DEF BagCopy, GoesOn, Fails, At
<1>3. MakeBag => link = "bag" /\ todo = b1 /\ todo' = <<>>
  BY <1>0, <1>s DEF MakeBag, GoesOn, Fails, At
<1>4. Compress => link = "compress" /\ todo = c1 /\ todo' = <<>>
  BY <1>0, <1>s DEF Compress, GoesOn, At
<1>5. RemoveBag => link = "remove" /\ todo = r2 /\ archive.is # "none" /\ todo' = r1
  BY <1>0, <1>s DEF RemoveBag, GoesOn, At
<1>6. RemoveObjects => link = "remove" /\ todo = r1 /\ todo' = <<>>
  BY <1>0, <1>s DEF RemoveObjects, GoesOn, At
<1>7. VerifyExtract => /\ link = "verify" /\ todo = v2
                       /\ todo' = v1 \/ (todo' = <<>> /\ code' = 1)
  BY <1>0, <1>s DEF VerifyExtract, GoesOn, Fails, At
<1>8. VerifyCheck => link = "verify" /\ todo = v1 /\ todo' = <<>>
  BY <1>0, <1>s DEF VerifyCheck, At
<1> QED
  BY <1>1, <1>2, <1>3, <1>4, <1>5, <1>6, <1>7, <1>8 DEF b3, b2, b1, c1, r2, r1, v2, v1

\* The faults stay within their bound.
LEMMA Spent == ASSUME NEW n \in Nat, odd \in 0..MaxOdd, Spend(n) PROVE odd' \in 0..MaxOdd
BY AipAssumption DEF Spend

\* Identifiers added to a record of the database.
LEMMA RecordTypes ==
  ASSUME NEW d \in Records
  PROVE  /\ \A b \in Bearers : [d EXCEPT !.given[b] = @ + 1] \in Records
         /\ \A b \in Bearers : [d EXCEPT !.pids[b] = @ + 1] \in Records
         /\ [d EXCEPT !.aipRow = TRUE] \in Records
         /\ [d EXCEPT !.arranged = FALSE] \in Records
         /\ \A o \in {"Pass", "Fail"} : [d EXCEPT !.events = Append(@, o)] \in Records
<1> USE DEF Records
<1>1. ASSUME NEW b \in Bearers PROVE [d EXCEPT !.given[b] = @ + 1] \in Records
  <2>1. [d.given EXCEPT ![b] = @ + 1] \in [Bearers -> Nat]
    OBVIOUS
  <2> QED
    BY <2>1
<1>2. ASSUME NEW b \in Bearers PROVE [d EXCEPT !.pids[b] = @ + 1] \in Records
  <2>1. [d.pids EXCEPT ![b] = @ + 1] \in [Bearers -> Nat]
    OBVIOUS
  <2> QED
    BY <2>1
<1>3. [d EXCEPT !.aipRow = TRUE] \in Records /\ [d EXCEPT !.arranged = FALSE] \in Records
  OBVIOUS
<1>4. ASSUME NEW o \in {"Pass", "Fail"} PROVE [d EXCEPT !.events = Append(@, o)] \in Records
  <2>1. Append(d.events, o) \in Seq({"Pass", "Fail"})
    OBVIOUS
  <2> QED
    BY <2>1
<1> QED
  BY <1>1, <1>2, <1>3, <1>4

\* Bags change part by part.
LEMMA BagTypes ==
  ASSUME NEW b \in Bags, NEW c \in [All -> Content]
  PROVE  /\ [b EXCEPT !.is = "dir"] \in Bags
         /\ [b EXCEPT !.data = c] \in Bags
         /\ [b EXCEPT !.is = "bag", !.manifest = c] \in Bags
         /\ \A f \in All, v \in Content : [b EXCEPT !.data[f] = v] \in Bags
         /\ NoBag \in Bags /\ Nothing \in [All -> Content]
BY DEF Bags, NoBag, Nothing, Content

\* Every step keeps the types.
LEMMA TypesStep ==
  ASSUME Types, Steps, [Next]_vars
  PROVE  Types'
<1> USE DEF disk, input
<1>1. CASE DeclareOne
  <2>1. db' \in Records /\ tx' \in Records
    <3>1. db \in Records /\ \A b \in Bearers : [db EXCEPT !.given[b] = @ + 1] \in Records
      BY RecordTypes DEF Types
    <3>2. \/ db' = db /\ tx' = tx
          \/ db' = db /\ tx' = db'
          \/ Head(todo).of \in Bearers /\ db' = [db EXCEPT !.given[Head(todo).of] = @ + 1] /\ tx' = db'
      BY <1>1 DEF DeclareOne
    <3> QED
      BY <3>1, <3>2 DEF Types
  <2> QED
    BY <1>1, <2>1 DEF DeclareOne, GoesOn, Fails, Types
<1>2. ASSUME NEW f \in Files, BindFile(f) PROVE Types'
  <2>1. tx' \in Records
    <3>1. f \in Bearers /\ tx \in Records /\ \A b \in Bearers : [tx EXCEPT !.pids[b] = @ + 1] \in Records
      BY RecordTypes DEF Types, Bearers
    <3> QED
      BY <1>2, <3>1 DEF BindFile, AddFilePid
  <2>2. odd' \in 0..MaxOdd
    BY <1>2, Spent DEF BindFile, Types
  <2> QED
    BY <1>2, <2>1, <2>2 DEF BindFile, Bearers, Types
<1>3. ASSUME NEW b \in Bearers, BindUnit(b) PROVE Types'
  <2>1. tx' \in Records
    BY <1>3, RecordTypes DEF BindUnit, Types
  <2>2. odd' \in 0..MaxOdd
    BY <1>3, Spent DEF BindUnit, Types
  <2> QED
    BY <1>3, <2>1, <2>2 DEF BindUnit, GoesOn, Fails, Types
<1>4. ASSUME NEW f \in All, MetsItem(f) PROVE Types'
  BY <1>4 DEF MetsItem, Types
<1>5. CASE MetsWrite \/ StoreAip
  BY <1>5 DEF MetsWrite, StoreAip, GoesOn, Types
<1>6. CASE BagMkdir
  <2>1. bag' \in Bags
    BY <1>6, BagTypes DEF BagMkdir, Types
  <2> QED
    BY <1>6, <2>1 DEF BagMkdir, GoesOn, Fails, Types
<1>7. CASE BagCopy
  <2>1. bag' \in Bags
    <3>1. \A S \in SUBSET All : [f \in All |-> IF f \in S THEN sip[f] ELSE "none"] \in [All -> Content]
      BY DEF Types, Content
    <3> QED
      <4>1. \A c \in [All -> Content] : [bag EXCEPT !.data = c] \in Bags
        BY BagTypes DEF Types
      <4>2. sip \in [All -> Content]
        BY DEF Types
      <4> QED
        BY <1>7, <3>1, <4>1, <4>2 DEF BagCopy
  <2>2. odd' \in 0..MaxOdd
    BY <1>7, Spent DEF BagCopy, Types
  <2> QED
    BY <1>7, <2>1, <2>2 DEF BagCopy, GoesOn, Fails, Types
<1>8. CASE MakeBag
  <2>1. bag' \in Bags
    <3>1. bag.data \in [All -> Content]
      BY DEF Types, Bags
    <3> QED
      <4>1. bag \in Bags /\ [bag EXCEPT !.is = "bag", !.manifest = bag.data] \in Bags
        BY <3>1, BagTypes DEF Types
      <4> QED
        BY <1>8, <4>1 DEF MakeBag
  <2>2. odd' \in 0..MaxOdd
    BY <1>8, Spent DEF MakeBag, Types
  <2> QED
    BY <1>8, <2>1, <2>2 DEF MakeBag, GoesOn, Fails, Types
<1>9. CASE Compress
  <2>1. archive' \in Bags
    <3>1. \A S \in SUBSET All : Archived(S) \in Bags
      BY DEF Archived, Types, Bags, Content
    <3> QED
      BY <1>9, <3>1 DEF Compress, Types
  <2>2. odd' \in 0..MaxOdd
    BY <1>9, Spent DEF Compress, Types
  <2>3. code' \in {0, 1} /\ missed' \subseteq All
    BY <1>9 DEF Compress, ArchiverCodes, GoesOn, Types
  <2> QED
    BY <1>9, <2>1, <2>2, <2>3 DEF Compress, GoesOn, Types
<1>10. CASE RemoveBag \/ RemoveObjects
  <2>1. bag' \in Bags /\ sip' \in [All -> Content]
    <3>1. NoBag \in Bags /\ Nothing \in [All -> Content]
      BY BagTypes DEF Types
    <3> QED
      BY <1>10, <3>1 DEF RemoveBag, RemoveObjects, Types
  <2> QED
    BY <1>10, <2>1 DEF RemoveBag, RemoveObjects, GoesOn, Types
<1>11. CASE VerifyExtract
  <2>1. odd' \in 0..MaxOdd
    BY <1>11, Spent DEF VerifyExtract, Types
  <2>2. tmp' \in BOOLEAN
    BY <1>11, Zenon DEF VerifyExtract, Types
  <2> QED
    BY <1>11, <2>1, <2>2 DEF VerifyExtract, GoesOn, Fails, Types
<1>12. CASE VerifyCheck
  <2>1. tx' \in Records
    BY <1>12, RecordTypes DEF VerifyCheck, WritePremisEvent, Types
  <2>2. tmp' \in BOOLEAN
    BY <1>12, Zenon DEF VerifyCheck, Types
  <2>3. unwritten' \in BOOLEAN
    BY <1>12, Zenon DEF VerifyCheck, Types
  <2>4. odd' \in 0..MaxOdd
    BY <1>12, Spent DEF VerifyCheck, Types
  <2> QED
    BY <1>12, <2>1, <2>2, <2>3, <2>4 DEF VerifyCheck, Types
<1>13. CASE FailedSipCleanup
  <2>1. tx' \in Records
    BY <1>13, RecordTypes DEF FailedSipCleanup, Types
  <2> QED
    BY <1>13, <2>1 DEF FailedSipCleanup, GoesOn, Types
<1>14. CASE Commit
  <2>1. db' \in Records /\ tx' \in Records
    BY <1>14, RecordTypes DEF Commit, Types
  <2>2. done' \in BOOLEAN
    BY <1>14, Zenon DEF Commit
  <2> QED
    BY <1>14, <2>1, <2>2 DEF Commit, Types
<1>15. CASE Answer
  <2>1. link' \in BeforeVerify \cup {"verify", "store", "reject", "cleanup"} \cup Ended
    <3>1. link \in BeforeVerify \cup {"verify", "store", "reject", "cleanup"} /\ link' \in After(link, code)
      BY <1>15 DEF Answer, Types, Steps
    <3> QED
      BY <3>1 DEF After, AfterDeclare, AfterBindFile, AfterBindUnit, AfterMets, AfterBag, AfterCompress,
         AfterRemove, AfterVerify, AfterStore, AfterReject, AfterCleanup, BeforeVerify, BeforeRemove,
         BeforeBag, Ended
  <2>2. done' \in BOOLEAN
    BY <1>15, Zenon DEF Answer
  <2> QED
    BY <1>15, <2>1, <2>2 DEF Answer, Types
<1>16. CASE Die
  <2>1. odd' \in 0..MaxOdd
    BY <1>16, Spent DEF Die, Types
  <2>2. done' \in BOOLEAN
    BY <1>16, Zenon DEF Die
  <2> QED
    BY <1>16, <2>1, <2>2 DEF Die, Types
<1>17. ASSUME NEW f \in All, Alter(f) PROVE Types'
  <2>1. odd' \in 0..MaxOdd
    BY <1>17, Spent DEF Alter, Types
  <2>2. sip' \in [All -> Content] /\ bag' \in Bags
    <3>1. \A v \in Content : [sip EXCEPT ![f] = v] \in [All -> Content] /\ [bag EXCEPT !.data[f] = v] \in Bags
      BY BagTypes DEF Types
    <3>2. \A v \in {"bad", "none"} : v \in Content
      BY DEF Content
    <3> QED
      BY <1>17, <3>1, <3>2 DEF Alter, Types
  <2> QED
    BY <1>17, <2>1, <2>2 DEF Alter, Types
<1>18. CASE UNCHANGED vars
  BY <1>18 DEF vars, Types
<1> QED
  BY <1>1, <1>2, <1>3, <1>4, <1>5, <1>6, <1>7, <1>8, <1>9, <1>10, <1>11, <1>12, <1>13, <1>14, <1>15,
     <1>16, <1>17, <1>18 DEF Next, Works, Over

-----------------------------------------------------------------------------
(* The steps a task has left.                                              *)

\* All files are to be walked at the start.
LEMMA WalkStarts ==
  LET t == AnyOrder(All) \o <<"write">> IN WalkThenWrite(t) /\ t # <<>> /\ All \subseteq ToSet(t)
<1> DEFINE s == AnyOrder(All)
           t == s \o <<"write">>
           A == All \cup {"write"}
<1>1. s \in Seq(All) /\ ToSet(s) = All
  <2>1. IsFiniteSet(All)
    BY AipAssumption, FS_Union DEF All
  <2> QED
    BY <2>1, AnyOrderLists
<1> HIDE DEF s, A
<1>2. s \in Seq(A) /\ <<"write">> \in Seq(A) /\ Len(<<"write">>) = 1
  BY <1>1 DEF A
<1> DEFINE w == <<"write">>
<1>3. w \in Seq(A) /\ Len(w) = 1 /\ w[1] = "write"
  BY <1>2
<1> HIDE DEF w
<1>4. /\ s \o w \in Seq(A) /\ Len(s \o w) = Len(s) + Len(w)
      /\ \A i \in 1..(Len(s) + Len(w)) : (s \o w)[i] = IF i <= Len(s) THEN s[i] ELSE w[i - Len(s)]
  BY <1>2, <1>3, ConcatProperties
<1>5. Len(s) \in Nat /\ \A i \in 1..Len(s) : s[i] \in All /\ s[i] # "write"
  BY <1>1, AipAssumption DEF All
<1>6. t = s \o w /\ Len(t) = Len(s) + 1
  BY <1>3, <1>4 DEF w
<1>7. \A i \in 1..Len(s) : t[i] = s[i]
  BY <1>3, <1>4, <1>5, <1>6
<1>8. t[Len(t)] = "write"
  <2>1. Len(t) \in 1..(Len(s) + Len(w)) /\ ~(Len(t) <= Len(s)) /\ Len(t) - Len(s) = 1
    BY <1>3, <1>5, <1>6
  <2> QED
    BY <1>3, <1>4, <1>6, <2>1
<1>9. t \in Seq(A)
  BY <1>4, <1>6
<1> HIDE DEF t
<1>10. \A i \in 1..Len(t) : t[i] = "write" <=> i = Len(t)
  <2>1. ASSUME NEW i \in 1..Len(t) PROVE t[i] = "write" <=> i = Len(t)
    <3>1. CASE i \in 1..Len(s)
      BY <1>5, <1>6, <1>7, <3>1
    <3>2. CASE i = Len(t)
      BY <1>8, <3>2
    <3> QED
      BY <1>5, <1>6, <3>1, <3>2
  <2> QED
    BY <2>1
<1>11. All \subseteq ToSet(t)
  <2>1. ASSUME NEW f \in All PROVE f \in ToSet(t)
    <3>1. PICK i \in 1..Len(s) : s[i] = f
      BY <1>1 DEF ToSet
    <3>2. i \in DOMAIN t /\ t[i] = f
      BY <1>5, <1>6, <1>7, <1>9, <3>1
    <3> QED
      BY <3>2 DEF ToSet
  <2> QED
    BY <2>1
<1>12. t # <<>>
  <2>1. Len(t) # 0
    BY <1>5, <1>6
  <2> QED
    BY <2>1
<1> QED
  BY <1>9, <1>10, <1>11, <1>12 DEF WalkThenWrite, t, A, s

\* A file of the walk is followed by the rest of it.
LEMMA WalkGoesOn ==
  ASSUME NEW t, WalkThenWrite(t), t # <<>>
  PROVE  /\ Head(t) \in All =>
              /\ WalkThenWrite(Tail(t)) /\ Tail(t) # <<>>
              /\ \A f \in ToSet(t) : f = Head(t) \/ f \in ToSet(Tail(t))
         /\ Head(t) = "write" => Tail(t) = <<>> /\ ToSet(t) = {"write"}
<1> DEFINE u == Tail(t)
           n == Len(t)
<1>1. t \in Seq(All \cup {"write"}) /\ n \in Nat /\ n >= 1 /\ Head(t) = t[1]
  BY DEF WalkThenWrite
<1>2. u \in Seq(All \cup {"write"}) /\ Len(u) = n - 1 /\ \A i \in 1..(n - 1) : u[i] = t[i + 1]
  BY <1>1
<1>3. \A i \in 1..n : t[i] = "write" <=> i = n
  BY DEF WalkThenWrite
<1>4. DOMAIN t = 1..n /\ DOMAIN u = 1..(n - 1)
  BY <1>1, <1>2
<1>5. u = <<>> <=> n = 1
  BY <1>1, <1>2
<1> HIDE DEF u, n
<1>6. ASSUME Head(t) \in All
      PROVE  WalkThenWrite(u) /\ u # <<>> /\ \A f \in ToSet(t) : f = Head(t) \/ f \in ToSet(u)
  <2>1. t[1] # "write"
    BY <1>1, <1>6, AipAssumption DEF All
  <2>2. n # 1
    BY <1>1, <1>3, <2>1
  <2>3. ASSUME NEW i \in 1..(n - 1) PROVE u[i] = "write" <=> i = n - 1
    <3>1. i + 1 \in 1..n /\ (i + 1 = n <=> i = n - 1)
      BY <1>1
    <3> QED
      BY <3>1, <1>2, <1>3
  <2>4. ASSUME NEW f \in ToSet(t), f # Head(t) PROVE f \in ToSet(u)
    <3>1. PICK i \in 1..n : t[i] = f
      BY <1>4 DEF ToSet
    <3>2. i - 1 \in 1..(n - 1) /\ (i - 1) + 1 = i
      BY <1>1, <2>4, <3>1
    <3>3. u[i - 1] = t[(i - 1) + 1]
      BY <1>2, <3>2
    <3>4. u[i - 1] = f
      BY <3>1, <3>2, <3>3
    <3> QED
      BY <1>4, <3>2, <3>4 DEF ToSet
  <2> QED
    BY <1>2, <1>5, <2>2, <2>3, <2>4 DEF WalkThenWrite
<1>7. ASSUME Head(t) = "write" PROVE u = <<>> /\ ToSet(t) = {"write"}
  <2>1. n = 1
    BY <1>1, <1>3, <1>7
  <2> QED
    BY <1>1, <1>4, <1>5, <1>7, <2>1 DEF ToSet
<1> QED
  BY <1>6, <1>7 DEF u

\* A task that starts, or starts again, has all its steps left.
LEMMA Started ==
  ASSUME link' \notin Ended => todo' = Tasks(link'), done' = FALSE, archive' = archive
  PROVE  Steps'
<1>1. link' = "bindUnit" => todo' \in Seq({Sip} \cup Dirs)
  <2> DEFINE s == AnyOrder(Dirs)
             S == {Sip} \cup Dirs
             v == <<Sip>>
  <2>1. s \in Seq(Dirs)
    BY AipAssumption, AnyOrderLists
  <2> HIDE DEF s
  <2>2. s \in Seq(S) /\ v \in Seq(S)
    BY <2>1
  <2> HIDE DEF S, v
  <2>3. v \o s \in Seq(S)
    BY <2>2, ConcatProperties
  <2>4. link' = "bindUnit" => todo' = v \o s
    BY DEF Tasks, Ended, s, v
  <2> QED
    BY <2>3, <2>4 DEF S
<1>2. link' = "mets" => WalkThenWrite(todo')
  <2>1. link' = "mets" => todo' = AnyOrder(All) \o <<"write">>
    BY DEF Tasks, Ended
  <2> QED
    BY <2>1, WalkStarts
<1>3. /\ link' = "bag" => todo' = <<"mkdir", "copy", "make">>
      /\ link' = "compress" => todo' = <<"compress">>
      /\ link' = "remove" => todo' = IF archive.is = "none" THEN <<"objects">> ELSE <<"bag", "objects">>
      /\ link' = "verify" => todo' = <<"extract", "check">>
  BY DEF Tasks, Ended
<1>4. WalkThenWrite(todo)' = WalkThenWrite(todo')
  BY DEF WalkThenWrite
<1> QED
  BY <1>1, <1>2, <1>3, <1>4 DEF Steps

\* A link without conditions on the steps left.
LEMMA StepsElsewhere ==
  ASSUME link' = link, link \notin {"bindUnit", "mets", "bag", "compress", "remove", "verify"}, ~done'
  PROVE  Steps'
BY DEF Steps

\* Every step leaves the steps that follow.
LEMMA StepsStep ==
  ASSUME Types, Steps, [Next]_vars
  PROVE  Steps'
<1> USE DEF disk, input
<1>1. CASE DeclareOne
  BY <1>1, StepsElsewhere DEF DeclareOne, GoesOn, Fails
<1>2. ASSUME NEW f \in Files, BindFile(f) PROVE Steps'
  BY <1>2, StepsElsewhere DEF BindFile, At
<1>3. ASSUME NEW b \in Bearers, BindUnit(b) PROVE Steps'
  <2>1. link = "bindUnit" /\ link' = link /\ ~done /\ done' = done /\ todo # <<>>
        /\ (todo' = Tail(todo) \/ todo' = <<>>)
    BY <1>3 DEF BindUnit, GoesOn, Fails, At
  <2>2. todo \in Seq({Sip} \cup Dirs)
    BY <2>1 DEF Steps
  <2>3. todo' \in Seq({Sip} \cup Dirs)
    <3> DEFINE S == {Sip} \cup Dirs
    <3>1. todo \in Seq(S)
      BY <2>2
    <3> HIDE DEF S
    <3>2. Tail(todo) \in Seq(S) /\ <<>> \in Seq(S)
      BY <2>1, <3>1
    <3>3. todo' \in Seq(S)
      BY <2>1, <3>2
    <3> QED
      BY <3>3 DEF S
  <2> QED
    BY <2>1, <2>3 DEF Steps
<1>4. ASSUME NEW f \in All, MetsItem(f) PROVE Steps'
  <2>1. link = "mets" /\ link' = link /\ ~done /\ done' = done /\ todo # <<>> /\ Head(todo) = f
        /\ (todo' = Tail(todo) \/ todo' = <<>>)
    BY <1>4 DEF MetsItem, At
  <2>2. WalkThenWrite(Tail(todo)) /\ WalkThenWrite(<<>>)
    <3>1. WalkThenWrite(<<>>)
      BY DEF WalkThenWrite
    <3> QED
      BY <2>1, <3>1, WalkGoesOn DEF Steps
  <2>3. WalkThenWrite(todo)'
    BY <2>1, <2>2 DEF WalkThenWrite
  <2> QED
    BY <2>1, <2>3 DEF Steps
<1>5. CASE MetsWrite
  <2>1. link = "mets" /\ link' = link /\ ~done /\ done' = done /\ todo # <<>> /\ Head(todo) = "write"
        /\ todo' = Tail(todo)
    BY <1>5 DEF MetsWrite, GoesOn, At
  <2>2. todo' = <<>>
    BY <2>1, WalkGoesOn DEF Steps
  <2>3. WalkThenWrite(todo)'
    BY <2>2 DEF WalkThenWrite
  <2> QED
    BY <2>1, <2>3 DEF Steps
<1>6. CASE BagMkdir \/ BagCopy \/ MakeBag
  <2>1. link = "bag" /\ link' = link /\ ~done /\ done' = done
    BY <1>6 DEF BagMkdir, BagCopy, MakeBag, GoesOn, Fails, At
  <2>2. todo' \in {<<"copy", "make">>, <<"make">>, <<>>}
    BY <1>6, Effects
  <2> QED
    BY <2>1, <2>2 DEF Steps
<1>7. CASE Compress
  <2>1. link = "compress" /\ link' = link /\ ~done /\ done' = done
    BY <1>7 DEF Compress, GoesOn, At
  <2>2. todo' = <<>>
    BY <1>7, Effects
  <2> QED
    BY <2>1, <2>2 DEF Steps
<1>8. CASE RemoveBag \/ RemoveObjects
  <2>1. link = "remove" /\ link' = link /\ ~done /\ done' = done
    BY <1>8 DEF RemoveBag, RemoveObjects, GoesOn, At
  <2>2. todo' \in {<<"objects">>, <<>>}
    BY <1>8, Effects
  <2> QED
    BY <2>1, <2>2 DEF Steps
<1>9. CASE VerifyExtract \/ VerifyCheck
  <2>1. link = "verify" /\ link' = link /\ ~done /\ done' = done
    BY <1>9 DEF VerifyExtract, VerifyCheck, GoesOn, Fails, At
  <2>2. todo' \in {<<"check">>, <<>>}
    BY <1>9, Effects
  <2> QED
    BY <2>1, <2>2 DEF Steps
<1>10. CASE StoreAip \/ FailedSipCleanup
  BY <1>10, StepsElsewhere DEF StoreAip, FailedSipCleanup, GoesOn, At
<1>11. CASE Commit
  <2>1. UNCHANGED <<link, todo, archive>> /\ todo = <<>> /\ tx' = db' /\ link \notin Ended
    BY <1>11 DEF Commit, Running
  <2>2. WalkThenWrite(todo)' <=> WalkThenWrite(todo)
    BY <2>1 DEF WalkThenWrite
  <2> QED
    BY <2>1, <2>2 DEF Steps
<1>12. CASE Answer
  BY <1>12, Started DEF Answer
<1>13. CASE Die
  BY <1>13, Started DEF Die
<1>14. ASSUME NEW f \in All, Alter(f) PROVE Steps'
  <2>1. UNCHANGED <<link, todo, archive, db, tx, done>>
    BY <1>14 DEF Alter
  <2>2. WalkThenWrite(todo)' <=> WalkThenWrite(todo)
    BY <2>1 DEF WalkThenWrite
  <2> QED
    BY <2>1, <2>2 DEF Steps
<1>15. CASE UNCHANGED vars
  <2>1. UNCHANGED <<link, todo, archive, db, tx, done>>
    BY <1>15 DEF vars
  <2>2. WalkThenWrite(todo)' <=> WalkThenWrite(todo)
    BY <2>1 DEF WalkThenWrite
  <2> QED
    BY <2>1, <2>2 DEF Steps
<1> QED
  BY <1>1, <1>2, <1>3, <1>4, <1>5, <1>6, <1>7, <1>8, <1>9, <1>10, <1>11, <1>12, <1>13, <1>14, <1>15
     DEF Next, Works, Over

-----------------------------------------------------------------------------
(* Identifiers.                                                            *)

\* Records and handles as they were.
LEMMA PidsKept ==
  ASSUME Pids, db' \in {db, tx}, tx' \in {db, tx}, handles' = handles
  PROVE  Pids'
BY DEF Pids, Bound

\* An identifier is recorded only for what is bound, and once for a file.
LEMMA PidsStep ==
  ASSUME Types, Steps, Pids, [Next]_vars
  PROVE  Pids'
<1> USE DEF disk, input
<1>1. CASE DeclareOne
  <2>1. db \in Records
    BY DEF Types
  <2>2. db'.pids = db.pids /\ (tx' = tx \/ tx' = db') /\ handles' = handles
    BY <1>1, <2>1 DEF DeclareOne, Records
  <2> QED
    BY <2>2 DEF Pids, Bound
<1>2. ASSUME NEW f \in Files, BindFile(f) PROVE Pids'
  <2>1. CASE handles' = handles \cup {f} /\ tx' = AddFilePid(tx, f)
    <3>1. tx \in Records /\ f \in Bearers /\ tx.pids \in [Bearers -> Nat]
      BY DEF Types, Records, Bearers
    <3>2. tx'.pids = IF tx.pids[f] = 0 THEN [tx.pids EXCEPT ![f] = 1] ELSE tx.pids
      BY <2>1, <3>1, SMTT(60) DEF AddFilePid, Records
    <3>3. ASSUME NEW b \in Bearers, tx'.pids[b] > 0 PROVE b \in handles'
      BY <2>1, <3>1, <3>2, <3>3 DEF Pids, Bound
    <3>4. ASSUME NEW g \in Files PROVE tx'.pids[g] <= 1
      BY <3>1, <3>2 DEF Pids, Bound, Bearers
    <3>5. db' = db
      BY <1>2 DEF BindFile
    <3> QED
      BY <2>1, <3>3, <3>4, <3>5 DEF Pids, Bound
  <2>2. CASE UNCHANGED <<handles, tx>>
    BY <1>2, <2>2, PidsKept DEF BindFile
  <2> QED
    BY <1>2, <2>1, <2>2 DEF BindFile
<1>3. ASSUME NEW b \in Bearers, BindUnit(b) PROVE Pids'
  <2>0. b \notin Files
    <3>1. link = "bindUnit" /\ todo # <<>> /\ Head(todo) = b
      BY <1>3 DEF BindUnit, At
    <3>2. todo \in Seq({Sip} \cup Dirs)
      BY <3>1 DEF Steps
    <3>3. b \in {Sip} \cup Dirs
      BY <3>1, <3>2, HeadTailProperties
    <3> QED
      BY <3>3, AipAssumption
  <2>1. CASE handles' = handles \cup {b} /\ tx' = [tx EXCEPT !.pids[b] = @ + 1]
    <3>1. tx \in Records /\ tx.pids \in [Bearers -> Nat]
      BY DEF Types, Records
    <3>2. tx'.pids = [tx.pids EXCEPT ![b] = @ + 1]
      BY <2>1, <3>1 DEF Records
    <3>3. ASSUME NEW c \in Bearers, tx'.pids[c] > 0 PROVE c \in handles'
      BY <2>1, <3>1, <3>2, <3>3 DEF Pids, Bound
    <3>4. ASSUME NEW g \in Files PROVE tx'.pids[g] <= 1
      BY <2>0, <3>1, <3>2 DEF Pids, Bound, Bearers
    <3>5. db' = db
      BY <1>3 DEF BindUnit
    <3> QED
      BY <2>1, <3>3, <3>4, <3>5 DEF Pids, Bound
  <2>2. CASE UNCHANGED <<handles, tx>>
    BY <1>3, <2>2, PidsKept DEF BindUnit
  <2> QED
    BY <1>3, <2>1, <2>2 DEF BindUnit
<1>4. CASE FailedSipCleanup \/ VerifyCheck
  <2>1. tx \in Records
    BY DEF Types
  <2>2. tx'.pids = tx.pids /\ db' = db /\ handles' = handles
    BY <1>4, <2>1 DEF FailedSipCleanup, VerifyCheck, WritePremisEvent, Records
  <2> QED
    BY <2>2 DEF Pids, Bound
<1>5. CASE Commit
  <2>1. db \in Records
    BY DEF Types
  <2>2. (db'.pids = db.pids \/ db' = tx) /\ tx' = db' /\ handles' = handles
    BY <1>5, <2>1 DEF Commit, Records
  <2> QED
    BY <2>2 DEF Pids, Bound
<1>6. CASE \/ MetsWrite \/ BagMkdir \/ BagCopy \/ MakeBag \/ Compress \/ RemoveBag \/ RemoveObjects
           \/ VerifyExtract \/ StoreAip \/ Answer \/ Die \/ UNCHANGED vars
           \/ \E f \in All : MetsItem(f) \/ Alter(f)
  <2>1. db' = db /\ tx' \in {db, tx} /\ handles' = handles
    BY <1>6 DEF MetsWrite, BagMkdir, BagCopy, MakeBag, Compress, RemoveBag, RemoveObjects,
       VerifyExtract, StoreAip, Answer, Die, vars, MetsItem, Alter
  <2> QED
    BY <2>1, PidsKept
<1> QED
  BY <1>1, <1>2, <1>3, <1>4, <1>5, <1>6 DEF Next, Works, Over

-----------------------------------------------------------------------------
(* The copies of a file.                                                   *)

\* Where an answer leads.
LEMMA AnswerLinks ==
  ASSUME Types, Steps, Answer
  PROVE  /\ todo = <<>> /\ tx = db
         /\ \/ link \in {"declare", "bindFile", "bindUnit"} /\ link' \in BeforeBag
            \/ link = "mets" /\ code = 0 /\ link' = "bag"
            \/ link = "bag" /\ code = 0 /\ link' = "compress"
            \/ link = "compress" /\ code = 0 /\ link' = "remove"
            \/ link = "remove" /\ link' \in {"verify", "reject"}
            \/ link = "verify" /\ code = 0 /\ link' = "store"
            \/ link = "store" /\ link' = "stored"
            \/ link = "reject" /\ link' = "rejected"
            \/ link = "cleanup" /\ link' = "failed"
            \/ link \in {"mets", "bag", "compress", "verify"} /\ link' = "cleanup"
<1>1. link \in BeforeVerify \cup {"verify", "store", "reject", "cleanup"} /\ link' \in After(link, code)
      /\ todo = <<>> /\ tx = db
  BY DEF Answer, Types, Steps
<1> QED
  BY <1>1 DEF After, AfterDeclare, AfterBindFile, AfterBindUnit, AfterMets, AfterBag, AfterCompress,
     AfterRemove, AfterVerify, AfterStore, AfterReject, AfterCleanup, BeforeVerify, BeforeRemove, BeforeBag

\* Steps that touch neither the copies nor what they are judged by.
Quiet ==
  /\ UNCHANGED <<link, input, sip, bag, archive, hurt, missed>>
  /\ link \notin {"bag", "compress"}

\* Which steps are quiet.
LEMMA QuietSteps ==
  ASSUME \/ DeclareOne \/ MetsWrite \/ VerifyExtract \/ VerifyCheck \/ StoreAip \/ FailedSipCleanup
         \/ (\E f \in Files : BindFile(f)) \/ (\E b \in Bearers : BindUnit(b))
         \/ \E f \in All : MetsItem(f)
  PROVE  Quiet
<1> USE DEF Quiet, GoesOn, Fails, At, disk
<1>1. CASE DeclareOne
  BY <1>1 DEF DeclareOne
<1>2. CASE MetsWrite \/ VerifyExtract \/ VerifyCheck
  BY <1>2 DEF MetsWrite, VerifyExtract, VerifyCheck
<1>3. CASE StoreAip \/ FailedSipCleanup
  BY <1>3 DEF StoreAip, FailedSipCleanup
<1>4. ASSUME NEW f \in Files, BindFile(f) PROVE Quiet
  BY <1>4 DEF BindFile
<1>5. ASSUME NEW b \in Bearers, BindUnit(b) PROVE Quiet
  BY <1>5 DEF BindUnit
<1>6. ASSUME NEW f \in All, MetsItem(f) PROVE Quiet
  BY <1>6 DEF MetsItem
<1> QED
  BY <1>1, <1>2, <1>3, <1>4, <1>5, <1>6

\* The parts of the AIP are made in order.
LEMMA PartsStep ==
  ASSUME Types, Steps, Parts, [Next]_vars
  PROVE  Parts'
<1> USE DEF disk, input, BeforeBag, NoBag, Nothing
<1>1. CASE Quiet
  BY <1>1 DEF Quiet, Parts
<1>2. CASE BagMkdir \/ BagCopy \/ MakeBag
  BY <1>2 DEF BagMkdir, BagCopy, MakeBag, GoesOn, Fails, At, Parts
<1>3. CASE Compress
  BY <1>3 DEF Compress, GoesOn, At, Parts
<1>4. CASE RemoveBag \/ RemoveObjects
  BY <1>4 DEF RemoveBag, RemoveObjects, GoesOn, At, Parts
<1>5. CASE Commit \/ Die \/ UNCHANGED vars
  BY <1>5 DEF Commit, Die, vars, Parts
<1>6. CASE Answer
  <2>1. UNCHANGED <<input, bag, archive>>
    BY <1>6 DEF Answer
  <2> QED
    BY <1>6, <2>1, AnswerLinks DEF Parts
<1>7. ASSUME NEW f \in All, Alter(f) PROVE Parts'
  <2>1. NoBag.data[f] # "ok"
    BY DEF NoBag
  <2>2. UNCHANGED <<link, archive, program>> /\ (bag' = bag \/ bag.data[f] = "ok")
    BY <1>7 DEF Alter
  <2> HIDE DEF NoBag
  <2> QED
    BY <2>1, <2>2 DEF Parts
<1> QED
  BY <1>1, <1>2, <1>3, <1>4, <1>5, <1>6, <1>7, QuietSteps DEF Next, Works, Over

\* A file that nothing altered keeps its place.
LEMMA KeptStep ==
  ASSUME Types, Steps, Parts, Kept, [Next]_vars
  PROVE  Kept'
<1> USE DEF disk, input, BeforeRemove, BeforeBag
<1>0. hurt \subseteq hurt' /\ (missed' = missed \/ Compress \/ Commit)
  <2>1. CASE Quiet
    BY <2>1 DEF Quiet
  <2>2. CASE Compress
    BY <2>2 DEF Compress, GoesOn
  <2>3. CASE \E f \in All : Alter(f)
    BY <2>3 DEF Alter
  <2>4. CASE \/ BagMkdir \/ BagCopy \/ MakeBag \/ RemoveBag \/ RemoveObjects \/ Answer
             \/ Die \/ UNCHANGED vars
    BY <2>4 DEF BagMkdir, BagCopy, MakeBag, RemoveBag, RemoveObjects, Answer, Die,
       GoesOn, Fails, vars
  <2>5. CASE Commit
    BY <2>5 DEF Commit
  <2> QED
    BY <2>1, <2>2, <2>3, <2>4, <2>5, QuietSteps DEF Next, Works, Over
<1> SUFFICES ASSUME NEW f \in All, f \notin hurt' PROVE KeptOf(f)'
  BY DEF Kept
<1>k. f \notin hurt /\ KeptOf(f)
  BY <1>0 DEF Kept
<1>1. CASE Quiet
  BY <1>1, <1>k DEF Quiet, KeptOf, TheAip
<1>2. CASE BagMkdir
  <2>1. link' = link /\ link = "bag" /\ sip' = sip /\ (todo' = <<"copy", "make">> \/ (todo' = <<>> /\ code' = 1))
    BY <1>2, Effects DEF BagMkdir, GoesOn, Fails
  <2>2. todo' # <<"make">> /\ ~(todo' = <<>> /\ code' = 0)
    BY <2>1, ShortSequences
  <2> QED
    BY <2>1, <2>2, <1>k DEF KeptOf
<1>3. CASE BagCopy
  <2>1. link' = link /\ link = "bag" /\ sip' = sip
    BY <1>3, Effects DEF BagCopy, GoesOn, Fails
  <2>2. CASE bag' = [bag EXCEPT !.data = sip]
    <3>1. bag'.data = sip
      BY <2>2 DEF Types, Bags
    <3> QED
      BY <2>1, <3>1, <1>k DEF KeptOf
  <2>3. CASE Fails
    <3>1. todo' = <<>> /\ code' = 1
      BY <2>3 DEF Fails
    <3>2. todo' # <<"make">> /\ ~(todo' = <<>> /\ code' = 0)
      BY <3>1, ShortSequences
    <3> QED
      BY <2>1, <3>2, <1>k DEF KeptOf
  <2> QED
    BY <1>3, <2>2, <2>3 DEF BagCopy
<1>4. CASE MakeBag
  <2>1. link' = link /\ link = "bag" /\ sip' = sip /\ todo = <<"make">>
    BY <1>4, Effects DEF MakeBag, GoesOn, Fails
  <2>2. bag'.data = bag.data
    BY <1>4 DEF MakeBag, Types, Bags
  <2> QED
    BY <2>1, <2>2, <1>k DEF KeptOf
<1>5. CASE Compress
  <2>1. link = "compress" /\ link' = link /\ sip' = sip /\ bag' = bag
    BY <1>5 DEF Compress, GoesOn, At
  <2>2. CASE program = "None"
    <3>1. archive' = NoBag
      BY <1>5, <2>1, <2>2 DEF Compress, Parts
    <3> QED
      BY <2>1, <3>1, <1>k DEF KeptOf, NoBag
  <2>3. CASE program # "None"
    <3>1. PICK S \in SUBSET All :
            archive' = Archived(S) /\ missed' = IF code' = 0 THEN All \ S ELSE {}
      BY <1>5, <2>3 DEF Compress
    <3>2. code' = 0 => f \in S \/ f \in missed'
      BY <3>1
    <3>3. f \in S => archive'.data[f] = bag.data[f]
      BY <3>1 DEF Archived
    <3> QED
      BY <2>1, <3>2, <3>3, <1>k DEF KeptOf
  <2> QED
    BY <2>2, <2>3
<1>6. CASE RemoveBag
  <2>1. link = "remove" /\ link' = link /\ missed' = missed /\ archive.is # "none" /\ archive' = archive
    BY <1>6, Effects DEF RemoveBag, GoesOn
  <2> QED
    BY <2>1, <1>k DEF KeptOf, TheAip
<1>7. CASE RemoveObjects
  <2>1. link = "remove" /\ link' = link /\ missed' = missed /\ archive' = archive /\ bag' = bag
    BY <1>7, Effects DEF RemoveObjects, GoesOn
  <2> QED
    BY <2>1, <1>k DEF KeptOf, TheAip
<1>8. CASE Commit
  <2>1. /\ UNCHANGED <<link, todo, sip, bag, archive>>
        /\ \/ code' = code /\ missed' = missed
           \/ link = "compress" /\ missed' = {g \in All : archive.data[g] # bag.data[g]}
    BY <1>8 DEF Commit
  <2>2. CASE code' = code /\ missed' = missed
    BY <2>1, <2>2, <1>k DEF KeptOf, TheAip
  <2>3. CASE link = "compress" /\ missed' = {g \in All : archive.data[g] # bag.data[g]}
    BY <2>1, <2>3, <1>k DEF KeptOf
  <2> QED
    BY <2>1, <2>2, <2>3
<1>9. CASE Answer
  <2>1. UNCHANGED <<sip, bag, archive, missed>>
    BY <1>9 DEF Answer
  <2>2. link' = "bag" => todo' = <<"mkdir", "copy", "make">>
    BY <1>9 DEF Answer, Tasks, Ended
  <2>3. link' = "bag" => todo' # <<"make">> /\ todo' # <<>>
    BY <2>2, ShortSequences
  <2>4. link' = "compress" => todo' = <<"compress">>
    BY <1>9 DEF Answer, Tasks, Ended
  <2>5. link' = "compress" => todo' # <<>>
    BY <2>4, ShortSequences
  <2> QED
    BY <1>9, <1>k, <2>1, <2>3, <2>5, AnswerLinks DEF KeptOf, TheAip
<1>10. CASE Die
  <2>1. UNCHANGED <<link, sip, bag, archive, missed>>
    BY <1>10 DEF Die
  <2>2. link' = "bag" => todo' = <<"mkdir", "copy", "make">>
    BY <1>10 DEF Die, Tasks
  <2>3. link' = "bag" => todo' # <<"make">> /\ todo' # <<>>
    BY <2>2, ShortSequences
  <2>4. link' = "compress" => todo' = <<"compress">>
    BY <1>10 DEF Die, Tasks
  <2>5. link' = "compress" => todo' # <<>>
    BY <2>4, ShortSequences
  <2> QED
    BY <1>k, <2>1, <2>3, <2>5 DEF KeptOf, TheAip
<1>11. ASSUME NEW g \in All, Alter(g) PROVE KeptOf(f)'
  <2>1. f # g /\ UNCHANGED <<link, todo, code, archive, missed>>
    BY <1>11 DEF Alter
  <2>2. sip'[f] = sip[f] /\ bag'.data[f] = bag.data[f]
    BY <1>11, <2>1 DEF Alter, Types, Bags
  <2> QED
    BY <2>1, <2>2, <1>k DEF KeptOf, TheAip
<1>12. CASE UNCHANGED vars
  BY <1>12, <1>k DEF vars, KeptOf, TheAip
<1> QED
  BY <1>1, <1>2, <1>3, <1>4, <1>5, <1>6, <1>7, <1>8, <1>9, <1>10, <1>11, <1>12, QuietSteps
     DEF Next, Works, Over

-----------------------------------------------------------------------------
(* What verify_aip finds out.                                              *)

\* A copy becomes wrong only by altering it.
LEMMA CopiesStep ==
  ASSUME Types, Steps, [Next]_vars, NEW f \in All, f \notin hurt',
         f \notin hurt => sip[f] # "bad" /\ bag.data[f] # "bad" /\ archive.data[f] # "bad"
  PROVE  sip'[f] # "bad" /\ bag'.data[f] # "bad" /\ archive'.data[f] # "bad"
<1> USE DEF disk, input
<1>1. CASE Quiet
  BY <1>1 DEF Quiet
<1>2. CASE BagMkdir \/ MakeBag
  <2>1. UNCHANGED <<sip, archive, hurt>> /\ bag'.data = bag.data
    BY <1>2 DEF BagMkdir, MakeBag, GoesOn, Fails, Types, Bags
  <2> QED
    BY <2>1
<1>3. CASE BagCopy
  <2>1. UNCHANGED <<sip, archive, hurt>>
    BY <1>3 DEF BagCopy, GoesOn, Fails
  <2>2. CASE bag' = [bag EXCEPT !.data = sip]
    <3>1. bag'.data = sip
      BY <2>2 DEF Types, Bags
    <3> QED
      BY <2>1, <3>1
  <2>3. CASE \E S \in SUBSET All :
               bag' = [bag EXCEPT !.data = [g \in All |-> IF g \in S THEN sip[g] ELSE "none"]]
    <3>1. PICK S \in SUBSET All :
               bag' = [bag EXCEPT !.data = [g \in All |-> IF g \in S THEN sip[g] ELSE "none"]]
      BY <2>3
    <3>2. bag'.data = [g \in All |-> IF g \in S THEN sip[g] ELSE "none"]
      BY <3>1 DEF Types, Bags
    <3> QED
      BY <2>1, <3>2
  <2> QED
    BY <1>3, <2>2, <2>3 DEF BagCopy
<1>4. CASE Compress
  <2>1. UNCHANGED <<sip, bag, hurt>>
    BY <1>4 DEF Compress, GoesOn
  <2>2. archive' = archive \/ \E S \in SUBSET All : archive' = Archived(S)
    BY <1>4 DEF Compress
  <2> QED
    BY <2>1, <2>2 DEF Archived
<1>5. CASE RemoveBag \/ RemoveObjects
  BY <1>5 DEF RemoveBag, RemoveObjects, GoesOn, NoBag, Nothing
<1>6. CASE Commit \/ Answer \/ Die \/ UNCHANGED vars
  BY <1>6 DEF Commit, Answer, Die, vars
<1>7. ASSUME NEW g \in All, Alter(g)
      PROVE  sip'[f] # "bad" /\ bag'.data[f] # "bad" /\ archive'.data[f] # "bad"
  <2>1. f # g /\ f \notin hurt /\ archive' = archive
    BY <1>7 DEF Alter
  <2>2. sip'[f] = sip[f] /\ bag'.data[f] = bag.data[f]
    BY <1>7, <2>1 DEF Alter, Types, Bags
  <2> QED
    BY <2>1, <2>2
<1> QED
  BY <1>1, <1>2, <1>3, <1>4, <1>5, <1>6, <1>7, QuietSteps DEF Next, Works, Over

\* From verify_aip on, the AIP is what it was, but for what is altered on disk.
LEMMA AipStays ==
  ASSUME Types, Steps, [Next]_vars, link \notin BeforeVerify
  PROVE  /\ UNCHANGED <<archive, reingest>> /\ bag'.manifest = bag.manifest /\ bag'.is = bag.is
         /\ hurt \subseteq hurt'
         /\ \A f \in All : f \notin hurt' => bag'.data[f] = bag.data[f]
<1> USE DEF disk, input, BeforeVerify, BeforeRemove, BeforeBag
<1>1. CASE Quiet
  BY <1>1 DEF Quiet
<1>2. ~(BagMkdir \/ BagCopy \/ MakeBag \/ Compress \/ RemoveBag \/ RemoveObjects)
  BY DEF BagMkdir, BagCopy, MakeBag, Compress, RemoveBag, RemoveObjects, At
<1>3. CASE Commit \/ Answer \/ Die \/ UNCHANGED vars
  BY <1>3 DEF Commit, Answer, Die, vars
<1>4. ASSUME NEW g \in All, Alter(g)
      PROVE  /\ UNCHANGED <<archive, reingest>> /\ bag'.manifest = bag.manifest /\ bag'.is = bag.is
             /\ hurt \subseteq hurt'
             /\ \A f \in All : f \notin hurt' => bag'.data[f] = bag.data[f]
  <2>1. UNCHANGED <<archive, reingest>> /\ hurt' = hurt \cup {g}
        /\ (bag' = bag \/ \E v \in {"bad", "none"} : bag' = [bag EXCEPT !.data[g] = v])
    BY <1>4 DEF Alter
  <2> QED
    BY <2>1 DEF Types, Bags
<1> QED
  BY <1>1, <1>2, <1>3, <1>4, QuietSteps DEF Next, Works, Over

\* verify_aip passes when its check does, and stays so.
LEMMA VerifiedStep ==
  ASSUME Types, Steps, [Next]_vars, Verified'
  PROVE  \/ Verified /\ link \notin BeforeVerify /\ ~VerifyCheck
         \/ VerifyCheck /\ Complete(TheAip) /\ VerifyChecksums(TheAip)
<1> USE DEF disk, input, BeforeVerify, BeforeRemove, BeforeBag, Verified
<1>1. CASE VerifyCheck
  <2>1. link' = "verify" /\ (code' = 0 => Complete(TheAip) /\ VerifyChecksums(TheAip))
    BY <1>1 DEF VerifyCheck, At
  <2> QED
    BY <1>1, <2>1
<1>2. CASE VerifyExtract
  <2>1. link' = "verify" /\ (todo' = <<"check">> \/ (todo' = <<>> /\ code' = 1))
    BY <1>2, Effects DEF VerifyExtract, GoesOn, Fails
  <2> QED
    BY <2>1, ShortSequences
<1>3. CASE ~VerifyCheck /\ (StoreAip \/ FailedSipCleanup)
  BY <1>3 DEF StoreAip, FailedSipCleanup, GoesOn, At
<1>4. CASE DeclareOne \/ MetsWrite \/ (\E f \in Files : BindFile(f)) \/ (\E b \in Bearers : BindUnit(b))
           \/ \E f \in All : MetsItem(f)
  BY <1>4 DEF DeclareOne, MetsWrite, BindFile, BindUnit, MetsItem, GoesOn, Fails, At
<1>5. CASE BagMkdir \/ BagCopy \/ MakeBag \/ Compress \/ RemoveBag \/ RemoveObjects
  BY <1>5 DEF BagMkdir, BagCopy, MakeBag, Compress, RemoveBag, RemoveObjects, GoesOn, Fails, At
<1>6. CASE ~VerifyCheck /\ (Commit \/ UNCHANGED vars \/ \E f \in All : Alter(f))
  <2>1. UNCHANGED <<link, todo>> /\ (code' = code \/ link = "compress")
    BY <1>6 DEF Commit, vars, Alter
  <2> QED
    BY <1>6, <2>1
<1>7. CASE ~VerifyCheck /\ Answer
  <2>1. link' = "verify" => todo' = <<"extract", "check">>
    BY <1>7 DEF Answer, Tasks, Ended
  <2>2. link' = "verify" => todo' # <<>>
    BY <2>1, ShortSequences
  <2> QED
    BY <1>7, <2>2, AnswerLinks
<1>8. CASE ~VerifyCheck /\ Die
  <2>1. link' = link /\ (link' = "verify" => todo' = <<"extract", "check">>)
    BY <1>8 DEF Die, Tasks
  <2>2. link' = "verify" => todo' # <<>>
    BY <2>1, ShortSequences
  <2> QED
    BY <1>8, <2>1, <2>2
<1> QED
  BY <1>1, <1>2, <1>3, <1>4, <1>5, <1>6, <1>7, <1>8 DEF Next, Works, Over

\* What was verified is true, and stays so unless it is altered.
LEMMA TruthStep ==
  ASSUME Types, Steps, Truth, Types', [Next]_vars
  PROVE  Truth'
<1>1. \A f \in All \ hurt' : sip'[f] # "bad" /\ bag'.data[f] # "bad" /\ archive'.data[f] # "bad"
  BY CopiesStep DEF Truth
<1>2. ASSUME Verified'
      PROVE  /\ VerifyChecksums(TheAip)'
             /\ \A f \in Files \ hurt' : TheAip'.manifest[f] = "ok" => TheAip'.data[f] = "ok"
  <2>1. CASE Verified /\ link \notin BeforeVerify
    <3>1. /\ UNCHANGED <<archive, reingest>> /\ bag'.manifest = bag.manifest /\ hurt \subseteq hurt'
          /\ \A f \in All : f \notin hurt' => bag'.data[f] = bag.data[f]
      BY <2>1, AipStays
    <3> QED
      BY <2>1, <3>1 DEF Truth, TheAip, VerifyChecksums, All
  <2>2. CASE VerifyCheck /\ Complete(TheAip) /\ VerifyChecksums(TheAip)
    <3>1. UNCHANGED <<archive, bag, reingest, hurt>>
      BY <2>2 DEF VerifyCheck, input
    <3>2. \A f \in All : TheAip.data[f] \in Content
      BY DEF Types, Bags, TheAip
    <3>3. ASSUME NEW f \in Files, f \notin hurt, TheAip.manifest[f] = "ok" PROVE TheAip.data[f] = "ok"
      <4>1. f \in All /\ TheAip.data[f] # "none"
        BY <2>2, <3>3 DEF Complete, All
      <4>2. TheAip.data[f] # "bad"
        BY <3>3, <4>1 DEF Truth, TheAip
      <4> QED
        BY <3>2, <4>1, <4>2 DEF Content
    <3> QED
      BY <2>2, <3>1, <3>3 DEF TheAip, VerifyChecksums
  <2> QED
    BY <1>2, <2>1, <2>2, VerifiedStep
<1> QED
  BY <1>1, <1>2 DEF Truth

\* Which steps write no fixity event and create no row of the AIP.
NoEvent ==
  /\ db'.events = db.events /\ tx'.events \in {db.events, tx.events}
  /\ db'.aipRow = db.aipRow /\ tx'.aipRow \in {db.aipRow, tx.aipRow}

\* Only verify_aip and the commits do.
LEMMA NoEventSteps ==
  ASSUME Types, [Next]_vars, ~VerifyCheck, ~Commit
  PROVE  NoEvent
<1> USE DEF NoEvent, disk, input
<1>0. db \in Records /\ tx \in Records
  BY DEF Types
<1>1. CASE DeclareOne
  <2>1. \/ db' = db /\ tx' \in {db, tx}
        \/ \E b \in Bearers : db' = [db EXCEPT !.given[b] = @ + 1] /\ tx' = db'
    BY <1>1 DEF DeclareOne
  <2> QED
    BY <1>0, <2>1 DEF Records
<1>2. ASSUME NEW f \in Files, BindFile(f) PROVE NoEvent
  <2>1. db' = db /\ (tx' = tx \/ tx' = [tx EXCEPT !.pids[f] = @ + 1])
    BY <1>2 DEF BindFile, AddFilePid
  <2> QED
    BY <1>0, <2>1 DEF Records
<1>3. ASSUME NEW b \in Bearers, BindUnit(b) PROVE NoEvent
  <2>1. db' = db /\ (tx' = tx \/ tx' = [tx EXCEPT !.pids[b] = @ + 1])
    BY <1>3 DEF BindUnit
  <2> QED
    BY <1>0, <2>1 DEF Records
<1>4. CASE FailedSipCleanup
  BY <1>0, <1>4 DEF FailedSipCleanup, Records
<1>5. CASE \/ MetsWrite \/ BagMkdir \/ BagCopy \/ MakeBag \/ Compress \/ RemoveBag \/ RemoveObjects
           \/ VerifyExtract \/ StoreAip \/ Answer \/ Die \/ UNCHANGED vars
           \/ \E f \in All : MetsItem(f) \/ Alter(f)
  <2>1. db' = db /\ tx' \in {db, tx}
    BY <1>5 DEF MetsWrite, BagMkdir, BagCopy, MakeBag, Compress, RemoveBag, RemoveObjects,
       VerifyExtract, StoreAip, Answer, Die, vars, MetsItem, Alter
  <2> QED
    BY <2>1
<1> QED
  BY <1>1, <1>2, <1>3, <1>4, <1>5 DEF Next, Works, Over

\* Only verify_aip fails to write an event.
LEMMA UnwrittenStays ==
  ASSUME [Next]_vars, ~VerifyCheck
  PROVE  unwritten' = unwritten
<1>1. CASE DeclareOne \/ MetsWrite \/ VerifyExtract \/ StoreAip \/ FailedSipCleanup \/ Commit \/ Answer
           \/ (\E f \in Files : BindFile(f)) \/ \E b \in Bearers : BindUnit(b)
  BY <1>1 DEF DeclareOne, MetsWrite, VerifyExtract, StoreAip, FailedSipCleanup, Commit, Answer, BindFile,
     BindUnit, GoesOn, Fails
<1>2. CASE \/ BagMkdir \/ BagCopy \/ MakeBag \/ Compress \/ RemoveBag \/ RemoveObjects \/ Die
           \/ UNCHANGED vars \/ \E f \in All : MetsItem(f) \/ Alter(f)
  BY <1>2 DEF BagMkdir, BagCopy, MakeBag, Compress, RemoveBag, RemoveObjects, Die, MetsItem, Alter,
     GoesOn, Fails, vars
<1> QED
  BY <1>1, <1>2 DEF Next, Works, Over

\* From verify_aip on, steps other than these leave the link and the events.
LEMMA LaterSteps ==
  ASSUME Types, [Next]_vars, link \notin BeforeVerify, ~VerifyCheck, ~Commit, ~Die, ~Answer
  PROVE  link' = link /\ tx'.events = tx.events /\ tx'.aipRow = tx.aipRow
<1> USE DEF BeforeVerify, BeforeRemove, BeforeBag
<1>1. CASE FailedSipCleanup
  <2>1. tx \in Records
    BY DEF Types
  <2> QED
    BY <1>1, <2>1 DEF FailedSipCleanup, GoesOn, Records
<1>2. CASE VerifyExtract \/ StoreAip \/ UNCHANGED vars \/ \E f \in All : Alter(f)
  BY <1>2 DEF VerifyExtract, StoreAip, GoesOn, Fails, vars, Alter
<1>3. ~(\/ DeclareOne \/ MetsWrite \/ BagMkdir \/ BagCopy \/ MakeBag \/ Compress \/ RemoveBag \/ RemoveObjects
        \/ (\E f \in Files : BindFile(f)) \/ (\E b \in Bearers : BindUnit(b)) \/ \E f \in All : MetsItem(f))
  BY DEF DeclareOne, MetsWrite, BagMkdir, BagCopy, MakeBag, Compress, RemoveBag, RemoveObjects,
     BindFile, BindUnit, MetsItem, At
<1> QED
  BY <1>1, <1>2, <1>3 DEF Next, Works, Over

\* An event more.
LEMMA OneMoreEvent ==
  ASSUME NEW e \in Seq({"Pass", "Fail"}), NEW o
  PROVE  Contains(Append(e, o), "Pass") <=> Contains(e, "Pass") \/ o = "Pass"
<1>1. /\ Len(Append(e, o)) = Len(e) + 1 /\ Append(e, o)[Len(e) + 1] = o /\ Len(e) \in Nat
      /\ \A i \in 1..Len(e) : Append(e, o)[i] = e[i]
  OBVIOUS
<1> DEFINE s == Append(e, o)
           n == Len(e)
<1>2. Len(s) = n + 1 /\ s[n + 1] = o /\ n \in Nat /\ \A i \in 1..n : s[i] = e[i]
  BY <1>1
<1>3. Contains(e, "Pass") <=> \E i \in 1..n : e[i] = "Pass"
  BY DEF Contains
<1>4. Contains(s, "Pass") <=> \E i \in 1..Len(s) : s[i] = "Pass"
  BY DEF Contains
<1> HIDE DEF s, n
<1>5. ASSUME NEW i \in 1..Len(s), s[i] = "Pass" PROVE Contains(e, "Pass") \/ o = "Pass"
  <2>1. CASE i = n + 1
    BY <1>2, <1>5, <2>1
  <2>2. CASE i \in 1..n
    BY <1>2, <1>3, <1>5, <2>2
  <2> QED
    BY <1>2, <2>1, <2>2
<1>6. ASSUME NEW i \in 1..n, e[i] = "Pass" PROVE Contains(s, "Pass")
  <2>1. i \in 1..Len(s) /\ s[i] = "Pass"
    BY <1>2, <1>6
  <2> QED
    BY <1>4, <2>1
<1>7. ASSUME o = "Pass" PROVE Contains(s, "Pass")
  <2>1. n + 1 \in 1..Len(s) /\ s[n + 1] = "Pass"
    BY <1>2, <1>7
  <2> QED
    BY <1>4, <2>1
<1>8. Contains(s, "Pass") <=> Contains(e, "Pass") \/ o = "Pass"
  BY <1>3, <1>4, <1>5, <1>6, <1>7
<1> QED
  BY <1>8 DEF s

\* A Pass is written only for an AIP that verify_aip found intact.
LEMMA FixityStep ==
  ASSUME Types, Steps, Fixity, [Next]_vars
  PROVE  Fixity'
<1> USE DEF BeforeVerify, BeforeRemove, BeforeBag
<1>0. db \in Records /\ tx \in Records
  BY DEF Types
<1>1. CASE VerifyCheck
  <2>1. link = "verify" /\ link' = link /\ db' = db /\ UNCHANGED <<bag, archive, reingest>>
    BY <1>1 DEF VerifyCheck, At, input
  <2>2. VerifyChecksums(TheAip)' <=> VerifyChecksums(TheAip)
    BY <2>1 DEF VerifyChecksums, TheAip
  <2>3. PICK typesMatch, written \in BOOLEAN :
          IF ~Complete(TheAip)
          THEN code' = 1 /\ UNCHANGED <<tx, unwritten>>
          ELSE /\ code' = IF typesMatch /\ VerifyChecksums(TheAip) THEN 0 ELSE 1
               /\ tx' = IF written
                        THEN WritePremisEvent(IF typesMatch /\ VerifyChecksums(TheAip) THEN "Pass" ELSE "Fail")
                        ELSE tx
               /\ unwritten' = (unwritten \/ ~written)
    BY <1>1, Zenon DEF VerifyCheck
  <2> DEFINE o == IF typesMatch /\ VerifyChecksums(TheAip) THEN "Pass" ELSE "Fail"
  <2>4. /\ o = "Pass" => VerifyChecksums(TheAip)
        /\ \/ code' = 1 /\ tx' = tx /\ unwritten' = unwritten
           \/ (code' = 0 => o = "Pass") /\ tx' = [tx EXCEPT !.events = Append(@, o)]
           \/ tx' = tx /\ (~tx.aipRow \/ unwritten')
    <3>1. ~Complete(TheAip) => code' = 1 /\ tx' = tx /\ unwritten' = unwritten
      BY <2>3
    <3>2. Complete(TheAip) => /\ code' = 0 => o = "Pass"
                              /\ written => tx' = WritePremisEvent(o)
                              /\ ~written => tx' = tx
      BY <2>3
    <3>u. Complete(TheAip) /\ ~written => unwritten'
      BY <2>3, Zenon
    <3>3. WritePremisEvent(o) = IF tx.aipRow THEN [tx EXCEPT !.events = Append(@, o)] ELSE tx
      BY DEF WritePremisEvent
    <3>4. o = "Pass" => VerifyChecksums(TheAip)
      OBVIOUS
    <3> HIDE DEF o
    <3> QED
      BY <3>1, <3>2, <3>u, <3>3, <3>4
  <2> HIDE DEF o
  <2>5. CASE tx' = tx /\ (code' = 1 \/ ~tx.aipRow \/ unwritten')
    BY <2>1, <2>2, <2>5 DEF Fixity, Verified
  <2>6. CASE (code' = 0 => o = "Pass") /\ tx' = [tx EXCEPT !.events = Append(@, o)]
    <3>1. tx'.events = Append(tx.events, o) /\ tx'.aipRow = tx.aipRow /\ tx.events \in Seq({"Pass", "Fail"})
      BY <1>0, <2>6 DEF Records
    <3>2. Contains(tx'.events, "Pass") <=> Contains(tx.events, "Pass") \/ o = "Pass"
      BY <3>1, OneMoreEvent
    <3> QED
      BY <2>1, <2>2, <2>4, <2>6, <3>1, <3>2 DEF Fixity, Verified
  <2> QED
    BY <2>4, <2>5, <2>6
<1>2. CASE Commit
  <2>1. /\ UNCHANGED <<link, todo, bag, archive, reingest, unwritten>> /\ tx' = db'
        /\ (link # "compress" => db' = tx /\ code' = code)
        /\ (link = "compress" => db' = tx \/ db' = db \/ db' = [db EXCEPT !.aipRow = TRUE])
    BY <1>2 DEF Commit, disk, input
  <2>2. VerifyChecksums(TheAip)' <=> VerifyChecksums(TheAip)
    BY <2>1 DEF VerifyChecksums, TheAip
  <2>3. CASE link = "compress"
    <3>1. db'.events = <<>>
      BY <1>0, <2>1, <2>3 DEF Fixity, Records
    <3>2. ~Contains(db'.events, "Pass")
      BY <3>1 DEF Contains
    <3> QED
      BY <2>1, <2>3, <3>1, <3>2 DEF Fixity, Verified
  <2>4. CASE link # "compress"
    BY <2>1, <2>2, <2>4 DEF Fixity, Verified
  <2> QED
    BY <2>3, <2>4
<1>3. CASE ~VerifyCheck /\ ~Commit
  <2>1. NoEvent
    BY <1>3, NoEventSteps
  <2>2. Verified' => Verified /\ link \notin BeforeVerify
    BY <1>3, VerifiedStep
  <2>3. CASE link \in BeforeVerify
    <3>1. db'.events = <<>> /\ tx'.events = <<>> /\ db'.aipRow = tx'.aipRow
      BY <2>1, <2>3 DEF NoEvent, Fixity
    <3>2. ~Contains(db'.events, "Pass") /\ ~Contains(tx'.events, "Pass")
      BY <3>1 DEF Contains
    <3> QED
      BY <2>2, <2>3, <3>1, <3>2 DEF Fixity, Verified
  <2>4. CASE link \notin BeforeVerify
    <3>1. UNCHANGED <<archive, reingest>> /\ bag'.manifest = bag.manifest
      BY <2>4, AipStays
    <3>u. unwritten' = unwritten
      BY <1>3, UnwrittenStays
    <3>2. VerifyChecksums(TheAip)' <=> VerifyChecksums(TheAip)
      BY <3>1 DEF VerifyChecksums, TheAip
    <3>3. CASE Die
      <4>1. link' = link /\ db' = db /\ tx' = db /\ (link' = "verify" => todo' = <<"extract", "check">>)
        BY <3>3 DEF Die, Tasks
      <4>2. link' = "verify" => todo' # <<>>
        BY <4>1, ShortSequences
      <4> QED
        BY <2>4, <3>u, <3>2, <4>1, <4>2 DEF Fixity, Verified
    <3>4. CASE Answer
      <4>1. db' = db /\ tx' = tx /\ tx = db /\ link' \notin BeforeVerify
        BY <2>4, <3>4, AnswerLinks DEF Answer
      <4>2. link' \in {"store", "stored"} => Verified
        BY <2>2 DEF Verified
      <4> QED
        BY <2>2, <3>u, <3>2, <4>1, <4>2 DEF Fixity
    <3>5. CASE ~Die /\ ~Answer
      <4>1. link' = link /\ tx'.events = tx.events /\ tx'.aipRow = tx.aipRow
        BY <1>3, <2>4, <3>5, LaterSteps
      <4> QED
        BY <2>1, <2>2, <2>4, <3>u, <3>2, <4>1 DEF NoEvent, Fixity
    <3> QED
      BY <3>3, <3>4, <3>5
  <2> QED
    BY <2>3, <2>4
<1> QED
  BY <1>1, <1>2, <1>3

-----------------------------------------------------------------------------
(* The METS document.                                                      *)

\* What the SIP is made of does not change.
LEMMA InputStays == ASSUME [Next]_vars PROVE UNCHANGED input
<1>1. CASE Quiet
  BY <1>1 DEF Quiet
<1>2. CASE \/ BagMkdir \/ BagCopy \/ MakeBag \/ Compress \/ RemoveBag \/ RemoveObjects \/ Commit
           \/ Answer \/ Die \/ UNCHANGED vars \/ \E f \in All : Alter(f)
  BY <1>2 DEF BagMkdir, BagCopy, MakeBag, Compress, RemoveBag, RemoveObjects, Commit, Answer, Die,
     Alter, GoesOn, Fails, vars
<1> QED
  BY <1>1, <1>2, QuietSteps DEF Next, Works, Over

\* The group of a file is a file.
LEMMA GroupIsFile == ASSUME Types, NEW f \in Files PROVE Group(f) \in Files
<1>1. source \in [Files -> Files \cup {"lost"}]
  BY AipAssumption DEF Types
<1> QED
  BY <1>1 DEF Group

\* The document of an earlier ingest names each file in its group.
LEMMA OldMetsPairs == ASSUME Types PROVE OldMets \subseteq Pairs /\ Once(OldMets)
<1>1. \A f \in known : f \in Files /\ Group(f) \in Files
  BY GroupIsFile DEF Types
<1>2. ASSUME NEW f \in known PROVE <<f, Group(f)>> \in Pairs
  BY <1>1 DEF Pairs, Groups
<1>3. OldMets \subseteq Pairs
  BY <1>2 DEF OldMets
<1>4. ASSUME NEW f, NEW g, <<f, g>> \in OldMets PROVE g = Group(f)
  <2>1. PICK h \in known : <<f, g>> = <<h, Group(h)>>
    BY <1>4 DEF OldMets
  <2> QED
    BY <2>1
<1> QED
  BY <1>3, <1>4 DEF Once

\* A file that is on disk gets into the document, or createMETS fails.
LEMMA MetsItemEffect ==
  ASSUME Types, NEW f \in All, MetsItem(f), OldMets \subseteq doc, doc \subseteq Pairs, Once(doc)
  PROVE  /\ doc \subseteq doc' /\ doc' \subseteq Pairs /\ Once(doc')
         /\ todo' = <<>> => code' = 1 \/ Tail(todo) = <<>>
         /\ todo' # <<>> => todo' = Tail(todo)
         /\ code' = 0 => code = 0 /\ (sip[f] = "none" \/ f \in Former \/ \E g \in Files : <<f, g>> \in doc')
<1> DEFINE e == IF sip[f] = "none" THEN "skip" ELSE IF reingest THEN MetsNewEntry(f) ELSE MetsEntry(f)
           g == IF reingest THEN NewGroup(f) ELSE Group(f)
<1>1. /\ todo' = IF e = "raise" THEN <<>> ELSE Tail(todo)
      /\ code' = IF e \in {"raise", "error"} THEN 1 ELSE code
      /\ doc' = IF e = "add" THEN doc \cup {<<f, g>>} ELSE doc
  BY DEF MetsItem
<1>2. e = "add" => f \in Files
  BY DEF MetsNewEntry, MetsEntry, All
<1>3. e \in {"skip", "raise", "error", "add"}
  BY DEF MetsNewEntry, MetsEntry
<1>4. e = "skip" => sip[f] = "none" \/ f \in Former \/ \E h \in Files : <<f, h>> \in doc
  BY DEF MetsNewEntry, MetsEntry
<1>5. e = "add" /\ reingest => ~ \E h \in Files : <<f, h>> \in doc
  BY DEF MetsNewEntry
<1>6. e = "add" => g \in Files
  BY <1>2, GroupIsFile DEF NewGroup
<1>7. g = Group(f) \/ (reingest /\ g = f)
  BY DEF NewGroup
<1>8. f \in known => <<f, Group(f)>> \in doc
  BY DEF OldMets
<1> HIDE DEF e, g
<1>9. ASSUME e = "add" PROVE <<f, g>> \in Pairs
  <2>1. CASE g = Group(f)
    BY <1>2, <1>6, <1>9, <2>1 DEF Pairs, Groups
  <2>2. CASE reingest /\ g = f /\ f \notin known
    BY <1>2, <1>6, <1>9, <2>2 DEF Pairs, Groups
  <2>3. CASE reingest /\ f \in known
    BY <1>2, <1>5, <1>8, <1>9, <2>3, GroupIsFile
  <2> QED
    BY <1>7, <2>1, <2>2, <2>3
<1>10. ASSUME e = "add" PROVE Once(doc')
  <2>1. ASSUME NEW h, <<f, h>> \in doc PROVE h = g
    <3>1. h \in Files /\ h \in Groups(f)
      BY <2>1 DEF Pairs
    <3>2. ~reingest
      BY <1>5, <1>10, <2>1, <3>1
    <3> QED
      BY <1>7, <3>1, <3>2 DEF Groups
  <2>2. doc' = doc \cup {<<f, g>>}
    BY <1>1, <1>10
  <2>3. SUFFICES ASSUME NEW a, NEW b, NEW c, <<a, b>> \in doc', <<a, c>> \in doc' PROVE b = c
    BY DEF Once
  <2>4. CASE <<a, b>> \in doc /\ <<a, c>> \in doc
    BY <2>4 DEF Once
  <2>5. CASE <<a, b>> = <<f, g>> \/ <<a, c>> = <<f, g>>
    <3>1. a = f /\ (b = g \/ c = g)
      BY <2>5
    <3>2. (b = g \/ <<f, b>> \in doc) /\ (c = g \/ <<f, c>> \in doc)
      BY <2>2, <2>3, <3>1
    <3> QED
      BY <2>1, <3>1, <3>2
  <2> QED
    BY <2>2, <2>3, <2>4, <2>5
<1> QED
  <2>1. CASE e = "add"
    BY <1>1, <1>2, <1>6, <1>9, <1>10, <2>1
  <2>2. CASE e # "add"
    BY <1>1, <1>3, <1>4, <2>2
  <2> QED
    BY <2>1, <2>2

\* The steps of the other links leave the document.
LEMMA DocStays ==
  ASSUME [Next]_vars, ~MetsWrite, \A f \in All : ~MetsItem(f)
  PROVE  mets' = mets /\ (doc' = doc \/ (doc' = OldMets /\ (Answer \/ Die)))
<1>1. CASE DeclareOne \/ VerifyExtract \/ VerifyCheck \/ StoreAip \/ FailedSipCleanup
           \/ (\E f \in Files : BindFile(f)) \/ \E b \in Bearers : BindUnit(b)
  BY <1>1 DEF DeclareOne, VerifyExtract, VerifyCheck, StoreAip, FailedSipCleanup, BindFile, BindUnit
<1>2. CASE \/ BagMkdir \/ BagCopy \/ MakeBag \/ Compress \/ RemoveBag \/ RemoveObjects \/ Commit
           \/ UNCHANGED vars \/ \E f \in All : Alter(f)
  BY <1>2 DEF BagMkdir, BagCopy, MakeBag, Compress, RemoveBag, RemoveObjects, Commit, Alter, vars
<1>3. CASE Answer \/ Die
  BY <1>3 DEF Answer, Die
<1> QED
  BY <1>1, <1>2, <1>3 DEF Next, Works, Over

\* What is absent stays so, from the bag on.
LEMMA AbsentStays ==
  ASSUME Types, Steps, [Next]_vars, NEW f \in All, Absent(f)
  PROVE  Absent(f)'
<1> USE DEF disk, input, Absent
<1>1. CASE Quiet
  BY <1>1 DEF Quiet
<1>2. CASE BagMkdir \/ MakeBag
  BY <1>2 DEF BagMkdir, MakeBag, GoesOn, Fails, Types, Bags
<1>3. CASE BagCopy
  <2>1. UNCHANGED <<sip, archive>>
    BY <1>3 DEF BagCopy
  <2>2. \E c \in [All -> Content] : c[f] = "none" /\ bag' = [bag EXCEPT !.data = c]
    <3>1. CASE bag' = [bag EXCEPT !.data = sip]
      BY <3>1 DEF Types
    <3>2. ASSUME NEW S \in SUBSET All,
                 bag' = [bag EXCEPT !.data = [g \in All |-> IF g \in S THEN sip[g] ELSE "none"]]
          PROVE  \E c \in [All -> Content] : c[f] = "none" /\ bag' = [bag EXCEPT !.data = c]
      <4> DEFINE c == [g \in All |-> IF g \in S THEN sip[g] ELSE "none"]
      <4>1. c \in [All -> Content] /\ c[f] = "none"
        BY DEF Types, Content
      <4>2. bag' = [bag EXCEPT !.data = c]
        BY <3>2
      <4> HIDE DEF c
      <4> QED
        BY <4>1, <4>2
    <3> QED
      BY <1>3, <3>1, <3>2 DEF BagCopy
  <2> QED
    BY <2>1, <2>2 DEF Types, Bags
<1>4. CASE Compress
  <2>1. UNCHANGED <<sip, bag>> /\ (archive' = archive \/ \E S \in SUBSET All : archive' = Archived(S))
    BY <1>4 DEF Compress
  <2> QED
    BY <2>1 DEF Archived
<1>5. CASE RemoveBag \/ RemoveObjects
  BY <1>5 DEF RemoveBag, RemoveObjects, NoBag, Nothing
<1>6. CASE Commit \/ Answer \/ Die \/ UNCHANGED vars
  BY <1>6 DEF Commit, Answer, Die, vars
<1>7. ASSUME NEW g \in All, Alter(g) PROVE Absent(f)'
  BY <1>7 DEF Alter, Types, Bags
<1> QED
  BY <1>1, <1>2, <1>3, <1>4, <1>5, <1>6, <1>7, QuietSteps DEF Next, Works, Over

\* While createMETS runs, nothing else changes the task.
LEMMA MetsWaits ==
  ASSUME Types, [Next]_vars, ~MetsWrite, \A f \in All : ~MetsItem(f), ~Answer, ~Die, link' = "mets"
  PROVE  UNCHANGED <<link, todo, code>> /\ \A f \in All : sip[f] = "none" => sip'[f] = "none"
<1>1. CASE DeclareOne \/ VerifyExtract \/ VerifyCheck \/ StoreAip \/ FailedSipCleanup
           \/ (\E g \in Files : BindFile(g)) \/ \E b \in Bearers : BindUnit(b)
  BY <1>1 DEF DeclareOne, VerifyExtract, VerifyCheck, StoreAip, FailedSipCleanup, BindFile, BindUnit,
     GoesOn, Fails, At
<1>2. CASE BagMkdir \/ BagCopy \/ MakeBag \/ Compress \/ RemoveBag \/ RemoveObjects
  BY <1>2 DEF BagMkdir, BagCopy, MakeBag, Compress, RemoveBag, RemoveObjects, GoesOn, Fails, At
<1>3. CASE Commit \/ UNCHANGED vars
  BY <1>3 DEF Commit, vars, disk
<1>4. ASSUME NEW g \in All, Alter(g)
      PROVE  UNCHANGED <<link, todo, code>> /\ \A f \in All : sip[f] = "none" => sip'[f] = "none"
  BY <1>4 DEF Alter, Types
<1> QED
  BY <1>1, <1>2, <1>3, <1>4 DEF Next, Works, Over

\* A link that needs the document comes after it is written.
LEMMA WrittenBefore ==
  ASSUME Types, Steps, [Next]_vars, ~MetsWrite, \A f \in All : ~MetsItem(f), Written'
  PROVE  Written
<1> USE DEF Written, BeforeBag
<1>1. CASE Answer
  <2>1. link' = "mets" => todo' = AnyOrder(All) \o <<"write">>
    BY <1>1 DEF Answer, Tasks, Ended
  <2>2. link' = "mets" => todo' # <<>>
    BY <2>1, WalkStarts
  <2> QED
    BY <1>1, <2>2, AnswerLinks
<1>2. CASE Die
  <2>1. link' = link /\ (link' = "mets" => todo' = AnyOrder(All) \o <<"write">>)
    BY <1>2 DEF Die, Tasks
  <2>2. link' = "mets" => todo' # <<>>
    BY <2>1, WalkStarts
  <2> QED
    BY <2>1, <2>2
<1>3. CASE ~Answer /\ ~Die
  <2>1. link' = link
    <3>1. CASE Quiet
      BY <3>1 DEF Quiet
    <3>2. CASE \/ BagMkdir \/ BagCopy \/ MakeBag \/ Compress \/ RemoveBag \/ RemoveObjects \/ Commit
               \/ UNCHANGED vars \/ \E f \in All : Alter(f)
      BY <3>2 DEF BagMkdir, BagCopy, MakeBag, Compress, RemoveBag, RemoveObjects, Commit,
         Alter, GoesOn, Fails, vars
    <3> QED
      BY <1>3, <3>1, <3>2, QuietSteps DEF Next, Works, Over
  <2>2. CASE link = "mets"
    <3>1. UNCHANGED <<link, todo, code>>
      BY <1>3, <2>1, <2>2, MetsWaits
    <3> QED
      BY <2>1, <2>2, <3>1
  <2> QED
    BY <2>1, <2>2
<1> QED
  BY <1>1, <1>2, <1>3

\* The document is complete from when it is written.
LEMMA DescribedStep ==
  ASSUME Types, Steps, Parts, Described, [Next]_vars
  PROVE  Described'
<1>0. /\ \A f : Group(f)' = Group(f)
      /\ Pairs' = Pairs /\ OldMets' = OldMets
  BY InputStays DEF input, Group, Groups, Pairs, OldMets
<1>1. ASSUME NEW f \in All, MetsItem(f) PROVE Described'
  <2>1. /\ link = "mets" /\ link' = link /\ mets' = mets /\ UNCHANGED <<sip, bag, archive>>
        /\ todo # <<>> /\ Head(todo) = f /\ WalkThenWrite(todo)
    BY <1>1 DEF MetsItem, At, disk, Steps
  <2>2. Tail(todo) # <<>> /\ \A g \in ToSet(todo) : g = f \/ g \in ToSet(Tail(todo))
    BY <2>1, WalkGoesOn
  <2>3. /\ doc \subseteq doc' /\ doc' \subseteq Pairs /\ Once(doc')
        /\ todo' = <<>> => code' = 1 \/ Tail(todo) = <<>>
        /\ todo' # <<>> => todo' = Tail(todo)
        /\ code' = 0 => code = 0 /\ (sip[f] = "none" \/ f \in Former \/ \E g \in Files : <<f, g>> \in doc')
    BY <1>1, MetsItemEffect DEF Described
  <2>4. ~Written'
    BY <2>1, <2>2, <2>3 DEF Written
  <2>5. ASSUME todo' # <<>>, code' = 0, NEW g \in All \ Former
        PROVE  g \in ToSet(todo') \/ sip'[g] = "none" \/ InDoc(g)'
    <3>1. g \in ToSet(todo) \/ sip[g] = "none" \/ InDoc(g)
      BY <2>1, <2>3, <2>5 DEF Described
    <3> QED
      BY <1>0, <2>1, <2>2, <2>3, <2>5, <3>1 DEF InDoc
  <2>6. Once(doc)' /\ Once(mets)'
    BY <2>1, <2>3 DEF Described, Once
  <2> QED
    BY <1>0, <2>1, <2>3, <2>4, <2>5, <2>6 DEF Described
<1>2. CASE MetsWrite
  <2>1. /\ link = "mets" /\ link' = link /\ mets' = doc /\ doc' = doc /\ UNCHANGED <<sip, bag, archive, code>>
        /\ todo # <<>> /\ Head(todo) = "write" /\ WalkThenWrite(todo) /\ todo' = Tail(todo)
    BY <1>2 DEF MetsWrite, GoesOn, At, disk, Steps
  <2>2. todo' = <<>> /\ ToSet(todo) = {"write"}
    BY <2>1, WalkGoesOn
  <2>3. bag = NoBag /\ archive = NoBag
    BY <2>1 DEF Parts, BeforeBag
  <2>4. ASSUME code = 0, NEW f \in All \ Former PROVE Absent(f)' \/ InMets(f)'
    <3>1. sip[f] = "none" \/ InDoc(f)
      BY <2>1, <2>2, <2>4, AipAssumption DEF Described, All
    <3> QED
      BY <1>0, <2>1, <2>3, <3>1 DEF Absent, NoBag, Nothing, InDoc, InMets
  <2>5. Once(doc)' /\ Once(mets)'
    BY <2>1 DEF Described, Once
  <2> QED
    BY <1>0, <2>1, <2>2, <2>4, <2>5 DEF Described, Written
<1>3. CASE ~MetsWrite /\ \A f \in All : ~MetsItem(f)
  <2>1. mets' = mets /\ (doc' = doc \/ (doc' = OldMets /\ (Answer \/ Die)))
    BY <1>3, DocStays
  <2>2. OldMets \subseteq doc' /\ doc' \subseteq Pairs /\ mets' \subseteq Pairs /\ Once(doc') /\ Once(mets')
    BY <2>1, OldMetsPairs DEF Described
  <2>3. Written' => Written
    BY <1>3, WrittenBefore
  <2>4. ASSUME Written', NEW f \in All \ Former PROVE Absent(f)' \/ InMets(f)'
    BY <1>0, <2>1, <2>3, <2>4, AbsentStays DEF Described, InMets
  <2>5. ASSUME link' = "mets", todo' # <<>>, code' = 0, NEW f \in All \ Former
        PROVE  f \in ToSet(todo') \/ sip'[f] = "none" \/ InDoc(f)'
    <3>1. CASE Answer \/ Die
      <4>1. todo' = AnyOrder(All) \o <<"write">>
        BY <2>5, <3>1 DEF Answer, Die, Tasks, Ended
      <4> QED
        BY <4>1, WalkStarts
    <3>2. CASE ~(Answer \/ Die)
      <4>1. UNCHANGED <<link, todo, code>> /\ (sip[f] = "none" => sip'[f] = "none")
        BY <1>3, <2>5, <3>2, MetsWaits
      <4> QED
        BY <1>0, <2>1, <2>5, <3>2, <4>1 DEF Described, InDoc
    <3> QED
      BY <3>1, <3>2
  <2>6. Once(doc)' /\ Once(mets)'
    BY <2>2 DEF Once
  <2> QED
    BY <1>0, <2>2, <2>4, <2>5, <2>6 DEF Described
<1> QED
  BY <1>1, <1>2, <1>3

-----------------------------------------------------------------------------
(* The theorems.                                                           *)

\* Initially nothing is made.
LEMMA AipInit == Init => AipInv
<1> SUFFICES ASSUME Init PROVE AipInv
  OBVIOUS
<1> USE DEF Init
<1>1. Types
  <2>1. sip \in [All -> Content] /\ bag \in Bags /\ archive \in Bags
    BY DEF Bags, NoBag, Nothing, Content
  <2>2. db \in Records /\ tx \in Records
    BY DEF Records
  <2>3. done \in BOOLEAN /\ tmp \in BOOLEAN /\ reingest \in BOOLEAN /\ unwritten \in BOOLEAN
    BY Zenon
  <2>4. known \subseteq Files
    BY AipAssumption
  <2> QED
    BY <2>1, <2>2, <2>3, <2>4, AipAssumption DEF Types, BeforeVerify, BeforeRemove, BeforeBag
<1>2. Steps
  BY DEF Steps
<1>3. Pids
  BY DEF Pids, Bound, Bearers
<1>4. Parts
  BY DEF Parts
<1>5. Kept
  <2>1. ASSUME NEW f \in All, f \notin hurt PROVE sip[f] = "ok"
    BY <2>1
  <2> QED
    BY <2>1 DEF Kept, KeptOf
<1>6. Truth
  BY DEF Truth, Verified, NoBag, Nothing
<1>7. Fixity
  BY DEF Fixity, Verified, Contains
<1>8. Described
  BY <1>1, OldMetsPairs DEF Described, Written, Once
<1> QED
  BY <1>1, <1>2, <1>3, <1>4, <1>5, <1>6, <1>7, <1>8 DEF AipInv

\* Every step preserves the invariant.
LEMMA AipStep == AipInv /\ [Next]_vars => AipInv'
BY TypesStep, StepsStep, PidsStep, PartsStep, KeptStep, TruthStep, FixityStep, DescribedStep DEF AipInv

\* The invariant always holds.
LEMMA AipAlways == Spec => []AipInv
BY AipInit, AipStep, PTL DEF Spec

\* The variables have their types, whatever fails and however often workers die.
THEOREM TypeCorrect == Spec => []TypeOK
<1>1. AipInv => TypeOK
  <2> SUFFICES ASSUME AipInv PROVE TypeOK
    OBVIOUS
  <2>1. Pairs \subseteq Files \X Files
    BY DEF Pairs
  <2>2. doc \cup mets \subseteq Files \X Files
    BY <2>1 DEF AipInv, Described
  <2>3. \A b \in {bag, archive} :
          b.is \in {"none", "dir", "bag", "whole"} /\ {b.data, b.manifest} \subseteq [All -> Content]
    BY DEF AipInv, Types, Bags
  <2>4. {db, tx} \subseteq [pids : [Bearers -> Nat], given : [Bearers -> Nat], aipRow : BOOLEAN,
                            events : Seq({"Pass", "Fail"}), arranged : BOOLEAN]
    BY DEF AipInv, Types, Records
  <2> QED
    BY <2>2, <2>3, <2>4 DEF AipInv, Types, TypeOK, BeforeVerify, BeforeRemove, BeforeBag
<1> QED
  BY <1>1, AipAlways, PTL

\* bagit, compressAIP, removeDirectories and the cleanup lose no file that
\* nothing altered, for any files, faults and deaths of workers.
THEOREM FilesKept == Spec => []NothingLost
<1>1. AipInv => NothingLost
  <2> SUFFICES ASSUME AipInv, NEW f \in All \ (hurt \cup missed)
               PROVE  sip[f] = "ok" \/ bag.data[f] = "ok" \/ archive.data[f] = "ok"
    BY DEF NothingLost
  <2>1. KeptOf(f)
    BY DEF AipInv, Kept
  <2>2. TheAip.data[f] = "ok" => bag.data[f] = "ok" \/ archive.data[f] = "ok"
    BY DEF TheAip
  <2> QED
    BY <2>1, <2>2 DEF AipInv, Types, KeptOf, BeforeVerify, BeforeRemove, BeforeBag, Ended
<1> QED
  BY <1>1, AipAlways, PTL

\* storeAIP gets only AIPs whose manifest has the checksums of the rows and
\* whose payload is true but for what was altered.
THEOREM StoredTrue == Spec => []StoredIsTrue
<1>1. AipInv => StoredIsTrue
  BY DEF AipInv, Truth, Verified, VerifyChecksums, StoredIsTrue
<1> QED
  BY <1>1, AipAlways, PTL

\* The METS document of a stored AIP describes what was bagged, each file once
\* and in the group of its source.
THEOREM StoredDescribed == Spec => []StoredIsDescribed
<1>1. AipInv => StoredIsDescribed
  <2> SUFFICES ASSUME AipInv, link \in {"store", "stored"} PROVE StoredIsDescribed
    BY DEF StoredIsDescribed
  <2> DEFINE bagged == {f \in All : TheAip.manifest[f] # "none"}
  <2>1. ASSUME NEW f \in bagged \ Former
        PROVE  \E g \in Groups(f) : {h \in Files : <<f, h>> \in mets} = {g}
    <3>1. ~Absent(f)
      BY <2>1 DEF Absent, TheAip
    <3>2. InMets(f) /\ mets \subseteq Pairs /\ Once(mets)
      BY <3>1 DEF AipInv, Described, Written
    <3>3. PICK g \in Files : <<f, g>> \in mets
      BY <3>2 DEF InMets
    <3>4. g \in Groups(f)
      BY <3>2, <3>3 DEF Pairs
    <3>5. {h \in Files : <<f, h>> \in mets} = {g}
      BY <3>2, <3>3 DEF Once
    <3> QED
      BY <3>4, <3>5
  <2>2. ASSUME ~reingest, NEW e \in mets PROVE e[1] \in bagged \cup Unverified
    <3>1. e[1] \in Files
      BY DEF AipInv, Described, Pairs
    <3>2. VerifyChecksums(TheAip)
      BY DEF AipInv, Truth, Verified
    <3> QED
      BY <2>2, <3>1, <3>2 DEF VerifyChecksums, All
  <2> QED
    BY <2>1, <2>2 DEF StoredIsDescribed
<1> QED
  BY <1>1, AipAlways, PTL

\* A fixity check event with outcome Pass tells the truth, and an AIP that has a
\* row of its own is stored only with one, however often verify_aip ran.
THEOREM FixityTrue == Spec => []FixityIsTrue
<1>1. AipInv => FixityIsTrue
  BY DEF AipInv, Fixity, FixityIsTrue
<1> QED
  BY <1>1, AipAlways, PTL

\* bind_pid and bind_pids record an identifier only once the handle server has
\* it, also when a worker dies in between.
THEOREM PidBound == Spec => []PidIsBound
<1>1. AipInv => PidIsBound
  BY DEF AipInv, Pids, Bound, PidIsBound
<1> QED
  BY <1>1, AipAlways, PTL
=============================================================================
