------------------------- MODULE PackageFilesProofs -------------------------
(***************************************************************************)
(* Proofs about PackageFiles, for any transfer, any packages in it and any *)
(* number of faults.                                                       *)
(***************************************************************************)
EXTENDS PackageFiles, FiniteSetTheorems, SequenceTheorems, WellFoundedInduction, TLAPS

Path == Seq(Names)

\* The names of p up to the n-th are clean.
CleanTo(p, n) == \A i \in 1..n : p[i].form = 0
Clean(p) == CleanTo(p, Len(p))

\* The n-th name of p or one before it has the date of an extraction after r.
OpenTo(p, n, r) == \E i \in 1..n : p[i].ext > r

-----------------------------------------------------------------------------
(* Names and paths.                                                        *)

\* What makes a record a name.
LEMMA NameFacts ==
  /\ \A n \in Names : n \in Record
  /\ \A n \in Record : n.form = 0 \/ n.ext > 0 => n \in Names
BY DEF Names

\* The fields of a name.
LEMMA NameType ==
  ASSUME NEW n \in Names
  PROVE  n \in Record /\ n.form \in Nat /\ n.num \in Nat /\ n.ext \in Nat
<1>1. n \in Record
  BY NameFacts
<1> QED
  BY <1>1 DEF Record

\* The names of a transfer, and those of the files of a package.
LEMMA GivenNames ==
  /\ \A d \in Received : \A p \in DOMAIN d : p \in Seq(Names)
  /\ \A c \in DOMAIN Members : \A n \in DOMAIN Members[c] : n \in Names
<1>1. ASSUME NEW d \in Received, NEW p \in DOMAIN d PROVE p \in Seq(Names)
  <2>1. p \in Seq(Record)
    BY PackageFilesAssumption
  <2>2. \A i \in DOMAIN p : Given(p[i])
    BY DEF Given
  <2>3. Len(p) \in Nat /\ DOMAIN p = 1..Len(p) /\ \A i \in 1..Len(p) : p[i] \in Record
    BY <2>1, LenProperties, ElementOfSeq
  <2>4. \A i \in 1..Len(p) : p[i] \in Names
    BY <2>2, <2>3 DEF Names
  <2>5. p = [i \in 1..Len(p) |-> p[i]]
    BY <2>1, <2>3
  <2> HIDE <2>1
  <2> QED
    BY <2>3, <2>4, <2>5
<1>2. ASSUME NEW c \in DOMAIN Members, NEW n \in DOMAIN Members[c] PROVE n \in Names
  <2>1. n \in Record
    BY PackageFilesAssumption
  <2>2. Given(n)
    BY DEF Given
  <2> QED
    BY <2>1, <2>2 DEF Names
<1> QED
  BY <1>1, <1>2

\* A path as a function of positions.
LEMMA PathFacts ==
  ASSUME NEW p \in Path
  PROVE  /\ Len(p) \in Nat /\ DOMAIN p = 1..Len(p)
         /\ \A i \in 1..Len(p) : p[i] \in Names
         /\ p # <<>> <=> Len(p) > 0
<1>1. Len(p) \in Nat /\ DOMAIN p = 1..Len(p) /\ \A i \in 1..Len(p) : p[i] \in Names
  BY LenProperties, ElementOfSeq DEF Path
<1>2. p # <<>> <=> Len(p) > 0
  BY EmptySeq DEF Path
<1> QED
  BY <1>1, <1>2

\* Two paths with the same names are the same path.
LEMMA PathEqual ==
  ASSUME NEW p \in Path, NEW q \in Path, Len(p) = Len(q), \A i \in 1..Len(p) : p[i] = q[i]
  PROVE  p = q
BY SeqEqual DEF Path

\* IsPrefix, name by name.
LEMMA PrefixFacts ==
  ASSUME NEW p \in Path, NEW q \in Path
  PROVE  IsPrefix(p, q) <=> Len(p) <= Len(q) /\ \A i \in 1..Len(p) : p[i] = q[i]
<1>1. Len(p) \in Nat /\ Len(q) \in Nat
  BY PathFacts
<1> DEFINE s == SubSeq(q, 1, Len(p))
<1>2. SubSeq(p, 1, Len(p)) = p
  BY SubSeqFull DEF Path
<1>3. ASSUME Len(p) <= Len(q)
      PROVE  s \in Path /\ Len(s) = Len(p) /\ \A i \in 1..Len(p) : s[i] = q[i]
  <2>1. \A i \in 1..Len(p) : q[i] \in Names
    BY <1>1, <1>3, PathFacts
  <2>2. /\ s \in Seq(Names) /\ Len(s) = IF 1 <= Len(p) THEN Len(p) - 1 + 1 ELSE 0
        /\ \A i \in 1..Len(p) - 1 + 1 : s[i] = q[1 + i - 1]
    BY <2>1, <1>1, SubSeqProperties
  <2> QED
    BY <2>2, <1>1 DEF Path
<1> HIDE DEF s
<1>4. ASSUME Len(p) <= Len(q), p = s PROVE \A i \in 1..Len(p) : p[i] = q[i]
  BY <1>3, <1>4
<1>5. ASSUME Len(p) <= Len(q), \A i \in 1..Len(p) : p[i] = q[i] PROVE p = s
  BY <1>3, <1>5, PathEqual
<1> QED
  BY <1>2, <1>4, <1>5 DEF IsPrefix, s

\* The first n names of a path.
LEMMA SubPath ==
  ASSUME NEW p \in Path, NEW n \in 0..Len(p)
  PROVE  /\ SubSeq(p, 1, n) \in Path /\ Len(SubSeq(p, 1, n)) = n
         /\ \A i \in 1..n : SubSeq(p, 1, n)[i] = p[i]
<1>1. Len(p) \in Nat /\ n \in Nat
  BY PathFacts
<1>2. \A i \in 1..n : p[i] \in Names
  BY <1>1, PathFacts
<1> QED
  BY <1>1, <1>2, SubSeqProperties DEF Path

\* The path with another last name.
LEMMA LastName ==
  ASSUME NEW p \in Path, p # <<>>, NEW n \in Names
  PROVE  /\ Append(Front(p), n) \in Path /\ Len(Append(Front(p), n)) = Len(p)
         /\ \A i \in 1..Len(p) - 1 : Append(Front(p), n)[i] = p[i]
         /\ Append(Front(p), n)[Len(p)] = n
<1>1. Len(p) \in Nat /\ Len(p) > 0 /\ Len(p) - 1 \in 0..Len(p)
  BY PathFacts
<1>2. /\ Front(p) \in Path /\ Len(Front(p)) = Len(p) - 1
      /\ \A i \in 1..Len(p) - 1 : Front(p)[i] = p[i]
  BY <1>1, SubPath DEF Front
<1> QED
  BY <1>1, <1>2, AppendProperties DEF Path

\* The path with one more name.
LEMMA OneMoreName ==
  ASSUME NEW p \in Path, NEW n \in Names
  PROVE  /\ Append(p, n) \in Path /\ Len(Append(p, n)) = Len(p) + 1
         /\ \A i \in 1..Len(p) : Append(p, n)[i] = p[i]
         /\ Append(p, n)[Len(p) + 1] = n
         /\ Append(p, n) # <<>>
BY AppendProperties DEF Path

\* The path r with its first names replaced by those of q.
To(p, q, r) == IF IsPrefix(p, r) THEN q \o SubSeq(r, Len(p) + 1, Len(r)) ELSE r

\* What To does, name by name.
LEMMA ToFacts ==
  ASSUME NEW p \in Path, NEW q \in Path, Len(p) = Len(q), NEW r \in Path
  PROVE  /\ To(p, q, r) \in Path /\ Len(To(p, q, r)) = Len(r)
         /\ ~IsPrefix(p, r) => To(p, q, r) = r
         /\ IsPrefix(p, r) => /\ IsPrefix(q, To(p, q, r))
                              /\ \A i \in 1..Len(p) : To(p, q, r)[i] = q[i]
         /\ \A i \in Len(p) + 1..Len(r) : To(p, q, r)[i] = r[i]
<1>1. CASE ~IsPrefix(p, r)
  BY <1>1 DEF To
<1>2. CASE IsPrefix(p, r)
  <2> DEFINE s == SubSeq(r, Len(p) + 1, Len(r))
  <2>1. Len(p) \in Nat /\ Len(r) \in Nat /\ Len(p) <= Len(r)
    BY <1>2, PathFacts, PrefixFacts
  <2>2. \A i \in Len(p) + 1..Len(r) : r[i] \in Names
    BY <2>1, PathFacts
  <2>3. /\ s \in Path /\ Len(s) = Len(r) - Len(p)
        /\ \A i \in 1..Len(r) - Len(p) : s[i] = r[Len(p) + i]
    <3>1. /\ s \in Seq(Names)
          /\ Len(s) = IF Len(p) + 1 <= Len(r) THEN Len(r) - (Len(p) + 1) + 1 ELSE 0
          /\ \A i \in 1..Len(r) - (Len(p) + 1) + 1 : s[i] = r[(Len(p) + 1) + i - 1]
      BY <2>1, <2>2, SubSeqProperties
    <3> HIDE DEF s
    <3> QED
      BY <3>1, <2>1 DEF Path
  <2> HIDE DEF s
  <2>4. /\ q \o s \in Path /\ Len(q \o s) = Len(q) + Len(s)
        /\ \A i \in 1..Len(q) + Len(s) : (q \o s)[i] = IF i <= Len(q) THEN q[i] ELSE s[i - Len(q)]
    BY <2>3, ConcatProperties DEF Path
  <2>5. To(p, q, r) = q \o s
    BY <1>2 DEF To, s
  <2>6. \A i \in 1..Len(p) : (q \o s)[i] = q[i]
    BY <2>1, <2>3, <2>4
  <2>7. \A i \in Len(p) + 1..Len(r) : (q \o s)[i] = r[i]
    BY <2>1, <2>3, <2>4
  <2>8. Len(q \o s) = Len(r)
    BY <2>1, <2>3, <2>4
  <2>9. IsPrefix(q, q \o s)
    BY <2>1, <2>4, <2>6, <2>8, PrefixFacts
  <2> QED
    BY <1>2, <2>4, <2>5, <2>6, <2>7, <2>8, <2>9
<1> QED
  BY <1>1, <1>2

-----------------------------------------------------------------------------
(* change_path.                                                            *)

\* A path where a file may be: only names of directories have a date.
FilePath(p) == p \in Path /\ p # <<>> /\ p[Len(p)].ext = 0

\* There are finitely many files on disk.
DiskType ==
  /\ IsFiniteSet(DOMAIN disk)
  /\ \A p \in DOMAIN disk : FilePath(p)

\* What change_path makes of p.
Renames(p, q) ==
  /\ q \in Path /\ Len(q) = Len(p) /\ \A i \in 1..Len(p) - 1 : q[i] = p[i]
  /\ q[Len(p)].form = 0 /\ q[Len(p)].base = p[Len(p)].base /\ q[Len(p)].ext = p[Len(p)].ext
  /\ \/ q = p /\ p[Len(p)].form = 0
     \/ ~Exists(q) /\ p[Len(p)].form # 0

\* A nonempty set of natural numbers has a least element.
LEMMA LeastNat ==
  ASSUME NEW T, T \subseteq Nat, T # {}
  PROVE  \E m \in T : \A k \in T : m <= k
<1>1. IsWellFoundedOn(OpToRel(<, Nat), Nat)
  BY NatLessThanWellFounded
<1>2. PICK x \in T : \A y \in T : ~(<<y, x>> \in OpToRel(<, Nat))
  BY <1>1, WFMin
<1>3. ASSUME NEW y \in Nat, NEW z \in Nat, y < z PROVE <<y, z>> \in OpToRel(<, Nat)
  BY <1>3 DEF OpToRel
<1>4. ASSUME NEW k \in T PROVE x <= k
  <2>1. x \in Nat /\ k \in Nat
    OBVIOUS
  <2>2. ~(k < x)
    BY <2>1, <1>2, <1>3
  <2> QED
    BY <2>1, <2>2
<1> QED
  BY <1>4

\* The name with allowed characters only and n added to its number.
Numbered(name, n) == [name EXCEPT !.form = 0, !.num = @ + n]

\* It is a name, and another one for another number.
LEMMA NumberedFacts ==
  ASSUME NEW name \in Names, NEW n \in Nat
  PROVE  /\ Numbered(name, n) \in Names
         /\ Numbered(name, n).form = 0 /\ Numbered(name, n).base = name.base
         /\ Numbered(name, n).ext = name.ext /\ Numbered(name, n).num = name.num + n
         /\ name.num \in Nat
<1> DEFINE zero == 0
           x == [name EXCEPT !.form = zero]
           y == [x EXCEPT !.num = name.num + n]
<1>1. zero = 0 /\ zero \in Nat /\ name.num \in Nat /\ name.num + n \in Nat
  BY NameType
<1> HIDE DEF zero
<1>0. name \in Record
  BY NameType
<1>2. x \in Record /\ x.form = zero /\ x.base = name.base /\ x.ext = name.ext
  BY <1>0, <1>1 DEF Record
<1> HIDE DEF x
<1>3. /\ y \in Record /\ y.form = x.form /\ y.base = x.base /\ y.ext = x.ext
      /\ y.num = name.num + n
  BY <1>1, <1>2 DEF Record
<1>4. Numbered(name, n) = y
  BY <1>0, <1>1 DEF Numbered, Record, x, zero
<1> HIDE DEF y
<1>5. y \in Names
  BY <1>1, <1>2, <1>3, NameFacts
<1> QED
  BY <1>1, <1>2, <1>3, <1>4, <1>5

\* One of the numbers change_path tries is free: there are not as many files.
LEMMA FreeNumber ==
  ASSUME DiskType, NEW p \in Path, p # <<>>
  PROVE  \E n \in 0..Cardinality(DOMAIN disk) :
           ~Exists(Append(Front(p), Numbered(p[Len(p)], n)))
<1> DEFINE N == Cardinality(DOMAIN disk)
           name == p[Len(p)]
           at(n) == Append(Front(p), Numbered(name, n))
<1>1. N \in Nat
  BY FS_CardinalityType DEF DiskType, FilePath
<1>2. name \in Names /\ Len(p) \in Nat
  BY PathFacts
<1> HIDE DEF N, name
<1>0. \A n \in Nat : name.num \in Nat /\ Numbered(name, n).num = name.num + n
  BY <1>2, NumberedFacts
<1>3. ASSUME NEW n \in 0..N
      PROVE  at(n) \in Path /\ Len(at(n)) = Len(p) /\ at(n)[Len(p)] = Numbered(name, n)
  BY <1>1, <1>2, NumberedFacts, LastName
<1> HIDE DEF at
<1>4. SUFFICES ASSUME \A n \in 0..N : Exists(at(n)) PROVE FALSE
  BY DEF N, at, name
<1> DEFINE f == [n \in 0..N |-> CHOOSE q \in DOMAIN disk : IsPrefix(at(n), q)]
<1>5. \A n \in 0..N : f[n] \in DOMAIN disk /\ IsPrefix(at(n), f[n])
  BY <1>4 DEF Exists
<1>6. f \in [0..N -> DOMAIN disk]
  BY <1>5
<1> HIDE DEF f
<1>7. IsFiniteSet(0..N) /\ Cardinality(0..N) = N + 1
  BY <1>1, FS_Interval
<1>8. PICK m \in 0..N, n \in 0..N : m # n /\ f[m] = f[n]
  <2>1. Cardinality(DOMAIN disk) < Cardinality(0..N) /\ IsFiniteSet(DOMAIN disk)
    BY <1>1, <1>7 DEF N, DiskType
  <2> QED
    BY <1>6, <1>7, <2>1, FS_PigeonHole
<1>9. f[m] \in Path
  BY <1>5 DEF DiskType, FilePath
<1>10. Len(p) \in 1..Len(p)
  BY <1>2, PathFacts
<1>11. at(m)[Len(p)] = f[m][Len(p)] /\ at(n)[Len(p)] = f[m][Len(p)]
  BY <1>3, <1>5, <1>8, <1>9, <1>10, PrefixFacts
<1>12. Numbered(name, m).num = Numbered(name, n).num
  BY <1>3, <1>11
<1>13. m \in Nat /\ n \in Nat
  BY <1>1
<1>14. name.num \in Nat /\ name.num + m = name.num + n
  BY <1>2, <1>12, <1>13, <1>0
<1> QED
  BY <1>8, <1>13, <1>14

\* What change_path returns.
LEMMA ChangePathFacts ==
  ASSUME DiskType, NEW p \in Path, p # <<>>
  PROVE  Renames(p, ChangePath(p))
<1> DEFINE N == Cardinality(DOMAIN disk)
           name == p[Len(p)]
           free == {n \in 0..N : ~Exists(Append(Front(p), Numbered(name, n)))}
<1>1. ChangePath(p) = IF name.form = 0 THEN p ELSE Append(Front(p), Numbered(name, Min(free)))
  BY DEF ChangePath, Numbered
<1>2. name \in Names /\ Len(p) \in Nat /\ Len(p) > 0
  BY PathFacts
<1>3. CASE name.form = 0
  BY <1>1, <1>2, <1>3 DEF Renames
<1>4. CASE name.form # 0
  <2>1. N \in Nat
    BY FS_CardinalityType DEF DiskType, FilePath
  <2>2. free # {} /\ free \subseteq Nat
    BY <2>1, FreeNumber
  <2>3. Min(free) \in free
    BY <2>2, LeastNat DEF Min
  <2> DEFINE n == Min(free)
  <2>4. n \in Nat /\ ~Exists(Append(Front(p), Numbered(name, n)))
    BY <2>2, <2>3
  <2> HIDE DEF n, free, name
  <2>5. ChangePath(p) = Append(Front(p), Numbered(name, n))
    BY <1>1, <1>4 DEF n
  <2> DEFINE q == Append(Front(p), Numbered(name, n))
  <2>6. q \in Path /\ Len(q) = Len(p) /\ (\A i \in 1..Len(p) - 1 : q[i] = p[i])
        /\ q[Len(p)] = Numbered(name, n)
    BY <1>2, <2>4, NumberedFacts, LastName
  <2>7. ~Exists(q)
    BY <2>4
  <2>8. ChangePath(p) = q
    BY <2>5
  <2> HIDE DEF q
  <2>9. /\ Numbered(name, n).form = 0 /\ Numbered(name, n).base = name.base
        /\ Numbered(name, n).ext = name.ext
    BY <1>2, <2>4, NumberedFacts
  <2>10. q[Len(p)].form = 0 /\ q[Len(p)].base = name.base /\ q[Len(p)].ext = name.ext
    BY <2>6, <2>9
  <2> QED
    BY <1>4, <2>6, <2>7, <2>8, <2>10 DEF Renames, name
<1> QED
  BY <1>3, <1>4

\* Paths that differ are moved to paths that differ.
LEMMA ToInjective ==
  ASSUME DiskType, NEW p \in Path, NEW q, Renames(p, q),
         NEW r \in DOMAIN disk, NEW s \in DOMAIN disk, To(p, q, r) = To(p, q, s)
  PROVE  r = s
<1>1. r \in Path /\ s \in Path /\ q \in Path /\ Len(q) = Len(p)
  BY DEF DiskType, FilePath, Renames
<1>2. /\ Len(r) \in Nat /\ Len(s) \in Nat /\ Len(p) \in Nat
      /\ Len(To(p, q, r)) = Len(r) /\ Len(To(p, q, s)) = Len(s)
  BY <1>1, PathFacts, ToFacts
<1>3. Len(r) = Len(s)
  BY <1>2
<1>4. CASE IsPrefix(p, r) /\ IsPrefix(p, s)
  <2>1. \A i \in 1..Len(p) : r[i] = p[i] /\ s[i] = p[i]
    BY <1>1, <1>4, PrefixFacts
  <2>2. \A i \in Len(p) + 1..Len(r) : r[i] = To(p, q, r)[i] /\ s[i] = To(p, q, s)[i]
    BY <1>1, <1>3, ToFacts
  <2>3. \A i \in 1..Len(r) : i \in 1..Len(p) \/ i \in Len(p) + 1..Len(r)
    BY <1>2
  <2>4. \A i \in 1..Len(r) : r[i] = s[i]
    BY <2>1, <2>2, <2>3
  <2> QED
    BY <1>1, <1>3, <2>4, PathEqual
<1>5. CASE ~IsPrefix(p, r) /\ ~IsPrefix(p, s)
  BY <1>1, <1>5, ToFacts
<1>6. ASSUME NEW x \in DOMAIN disk, NEW y \in DOMAIN disk, IsPrefix(p, x), ~IsPrefix(p, y),
             To(p, q, x) = To(p, q, y)
      PROVE  FALSE
  <2>1. x \in Path /\ y \in Path
    BY DEF DiskType, FilePath
  <2>2. IsPrefix(q, y)
    BY <1>1, <1>6, <2>1, ToFacts
  <2>3. Exists(q)
    BY <2>2 DEF Exists
  <2>4. q = p
    BY <2>3 DEF Renames
  <2> QED
    BY <1>6, <2>2, <2>4
<1> QED
  BY <1>4, <1>5, <1>6

\* What a renaming does to the disk.
LEMMA MovedFacts ==
  ASSUME DiskType, NEW p \in Path, NEW q, Renames(p, q)
  PROVE  /\ DOMAIN Moved(p, q) = {To(p, q, r) : r \in DOMAIN disk}
         /\ \A r \in DOMAIN disk : Moved(p, q)[To(p, q, r)] = disk[r]
<1> DEFINE was(x) == LET S == {r \in DOMAIN disk : To(p, q, r) = x}
                     IN IF \E r \in S : IsPrefix(p, r) THEN CHOOSE r \in S : IsPrefix(p, r)
                                                        ELSE CHOOSE r \in S : TRUE
<1>1. Moved(p, q) = [x \in {To(p, q, r) : r \in DOMAIN disk} |-> disk[was(x)]]
  BY DEF Moved, To
<1>2. ASSUME NEW r \in DOMAIN disk PROVE was(To(p, q, r)) = r
  <2>1. {s \in DOMAIN disk : To(p, q, s) = To(p, q, r)} = {r}
    BY ToInjective
  <2> QED
    BY <2>1
<1> HIDE DEF was
<1> QED
  BY <1>1, <1>2

\* A disk after change_path renamed p to q, read file by file.
MovedDisk(p, q) ==
  /\ \A r \in DOMAIN disk : To(p, q, r) \in DOMAIN disk' /\ disk'[To(p, q, r)] = disk[r]
  /\ \A x \in DOMAIN disk' : \E r \in DOMAIN disk : x = To(p, q, r) /\ disk'[x] = disk[r]

\* The types of the disk survive a renaming.
LEMMA MoveStep ==
  ASSUME DiskType, NEW p \in Path, p # <<>>, NEW q, Renames(p, q), disk' = Moved(p, q)
  PROVE  MovedDisk(p, q) /\ DiskType'
<1>1. DOMAIN disk' = {To(p, q, r) : r \in DOMAIN disk}
  BY MovedFacts
<1>2. \A r \in DOMAIN disk : disk'[To(p, q, r)] = disk[r]
  BY MovedFacts
<1>3. MovedDisk(p, q)
  BY <1>1, <1>2 DEF MovedDisk
<1>4. IsFiniteSet(DOMAIN disk')
  <2> DEFINE f == [r \in DOMAIN disk |-> To(p, q, r)]
  <2>1. f \in Surjection(DOMAIN disk, DOMAIN disk')
    BY <1>1 DEF Surjection
  <2> QED
    BY <2>1, FS_Surjection DEF DiskType, FilePath
<1>5. ASSUME NEW r \in DOMAIN disk
      PROVE  LET x == To(p, q, r) IN x \in Path /\ x # <<>> /\ x[Len(x)].ext = 0
  <2> DEFINE x == To(p, q, r)
  <2>1. /\ r \in Path /\ r # <<>> /\ r[Len(r)].ext = 0
        /\ q \in Path /\ Len(q) = Len(p) /\ q[Len(p)].ext = p[Len(p)].ext
    BY DEF DiskType, FilePath, Renames
  <2>2. /\ x \in Path /\ Len(x) = Len(r)
        /\ \A i \in Len(p) + 1..Len(r) : x[i] = r[i]
        /\ IsPrefix(p, r) => \A i \in 1..Len(p) : x[i] = q[i]
        /\ ~IsPrefix(p, r) => x = r
    BY <2>1, ToFacts
  <2> HIDE DEF x
  <2>3. Len(r) \in Nat /\ Len(r) > 0 /\ Len(p) \in Nat /\ Len(p) > 0
    BY <2>1, PathFacts
  <2>4. x # <<>>
    BY <2>1, <2>2, <2>3, PathFacts
  <2>5. CASE IsPrefix(p, r)
    <3>1. Len(p) <= Len(r) /\ \A i \in 1..Len(p) : p[i] = r[i]
      BY <2>1, <2>5, PrefixFacts
    <3>2. CASE Len(p) = Len(r)
      <4>1. x[Len(r)] = q[Len(p)] /\ r[Len(r)] = p[Len(p)]
        BY <3>1, <3>2, <2>2, <2>3, <2>5
      <4> QED
        BY <4>1, <2>1, <2>2, <2>4 DEF x
    <3>3. CASE Len(p) # Len(r)
      <4>1. x[Len(r)] = r[Len(r)]
        BY <3>1, <3>3, <2>2, <2>3
      <4> QED
        BY <4>1, <2>1, <2>2, <2>4 DEF x
    <3> QED
      BY <3>2, <3>3
  <2>6. CASE ~IsPrefix(p, r)
    BY <2>1, <2>2, <2>6 DEF x
  <2> QED
    BY <2>5, <2>6
<1>6. \A x \in DOMAIN disk' : x \in Path /\ x # <<>> /\ x[Len(x)].ext = 0
  BY <1>1, <1>5
<1> QED
  BY <1>3, <1>4, <1>6 DEF DiskType, FilePath

-----------------------------------------------------------------------------
(* The rows of the Files table.                                            *)

Content ==
  UNION ({Contents(d) : d \in Received} \cup {Contents(Members[c]) : c \in DOMAIN Members})

EventTypes == {"ingestion", "unpacking", "file removed", "filename change"}

Row == [loc : Path, first : Path, content : Content, removed : BOOLEAN, sip : BOOLEAN,
        from : Path, events : SUBSET EventTypes]

\* A row of a file that is there has a location.
Sound(r) == ~r.removed => FilePath(r.loc)

SoundRows == {r \in Row : Sound(r)}

\* A row that is inserted is sound.
LEMMA NewRowSound ==
  ASSUME NEW p, FilePath(p), NEW c \in Content, NEW ev \in {"ingestion", "unpacking"}, NEW from \in Path
  PROVE  NewRow(p, c, ev, from) \in SoundRows
<1>1. NewRow(p, c, ev, from) \in Row
  <2> DEFINE es == {ev}
  <2>1. es \in SUBSET EventTypes /\ p \in Path
    BY DEF FilePath, EventTypes
  <2>2. NewRow(p, c, ev, from) =
          [loc |-> p, first |-> p, content |-> c, removed |-> FALSE, sip |-> FALSE,
           from |-> from, events |-> es]
    BY DEF NewRow
  <2> HIDE DEF es
  <2> QED
    BY <2>1, <2>2 DEF Row
<1>2. Sound(NewRow(p, c, ev, from))
  BY DEF Sound, NewRow
<1> QED
  BY <1>1, <1>2 DEF SoundRows

\* fileWasRemoved, for one row.
RemovedRow(r) == [r EXCEPT !.removed = TRUE, !.loc = NoFile, !.events = @ \cup {"file removed"}]

\* A row that is marked as removed is sound.
LEMMA RemovedRowSound ==
  ASSUME NEW r \in SoundRows
  PROVE  /\ RemovedRow(r) \in SoundRows /\ RemovedRow(r).removed
         /\ RemovedRow(r).first = r.first /\ RemovedRow(r).content = r.content
<1> DEFINE x == [r EXCEPT !.removed = TRUE]
           y == [x EXCEPT !.loc = NoFile]
           es == r.events \cup {"file removed"}
           z == [y EXCEPT !.events = es]
<1>1. r \in Row /\ Sound(r) /\ r.events \in SUBSET EventTypes
  BY DEF SoundRows, Row
<1>2. x \in Row /\ x.removed = TRUE /\ x.first = r.first /\ x.content = r.content
  BY <1>1 DEF Row
<1>3. NoFile \in Path
  BY EmptySeq DEF NoFile, Path
<1>4. RemovedRow(r) = z
  BY <1>1 DEF RemovedRow, Row
<1> HIDE DEF x
<1>5. y \in Row /\ y.removed = TRUE /\ y.first = r.first /\ y.content = r.content
  BY <1>2, <1>3 DEF Row
<1>8. es \in SUBSET EventTypes /\ "file removed" \in es
  BY <1>1 DEF EventTypes
<1> HIDE DEF y, es
<1>6. /\ z \in Row /\ z.removed = TRUE /\ "file removed" \in z.events
      /\ z.first = r.first /\ z.content = r.content
  BY <1>5, <1>8 DEF Row
<1> HIDE DEF z
<1>7. Sound(z)
  BY <1>6 DEF Sound
<1> QED
  BY <1>4, <1>6, <1>7 DEF SoundRows

\* apply_file_updates, for one row.
RenamedRow(r, p) == [r EXCEPT !.loc = p, !.events = @ \cup {"filename change"}]

\* A row with a new location is sound.
LEMMA RenamedRowSound ==
  ASSUME NEW r \in SoundRows, ~r.removed, NEW p, FilePath(p)
  PROVE  /\ RenamedRow(r, p) \in SoundRows /\ ~RenamedRow(r, p).removed
         /\ RenamedRow(r, p).loc = p /\ RenamedRow(r, p).first = r.first
         /\ RenamedRow(r, p).content = r.content /\ RenamedRow(r, p).sip = r.sip
<1> DEFINE x == [r EXCEPT !.loc = p]
           es == r.events \cup {"filename change"}
           y == [x EXCEPT !.events = es]
<1>1. r \in Row /\ Sound(r) /\ p \in Path /\ r.events \in SUBSET EventTypes
  BY DEF SoundRows, Row, FilePath
<1>2. RenamedRow(r, p) = y
  BY <1>1 DEF RenamedRow, Row
<1>3. /\ x \in Row /\ x.removed = r.removed /\ x.first = r.first /\ x.content = r.content
      /\ x.loc = p /\ x.sip = r.sip
  BY <1>1 DEF Row
<1>6. es \in SUBSET EventTypes /\ "filename change" \in es
      /\ ("file removed" \in es <=> "file removed" \in r.events)
  BY <1>1 DEF EventTypes
<1> HIDE DEF x, es
<1>4. /\ y \in Row /\ y.removed = r.removed /\ y.first = r.first /\ y.content = r.content
      /\ y.loc = p /\ y.sip = r.sip /\ y.events = es
  BY <1>3, <1>6 DEF Row
<1> HIDE DEF y
<1>5. Sound(y)
  BY <1>1, <1>4, <1>6 DEF Sound
<1> QED
  BY <1>2, <1>4, <1>5 DEF SoundRows

\* A row that becomes the SIP's is sound.
LEMMA SipRowSound ==
  ASSUME NEW r \in SoundRows
  PROVE  LET x == [r EXCEPT !.sip = TRUE]
         IN /\ x \in SoundRows /\ x.removed = r.removed /\ x.loc = r.loc /\ x.sip = TRUE
            /\ x.first = r.first /\ x.content = r.content
<1> DEFINE x == [r EXCEPT !.sip = TRUE]
<1>1. r \in Row /\ Sound(r)
  BY DEF SoundRows
<1>2. /\ x \in Row /\ x.removed = r.removed /\ x.loc = r.loc /\ x.sip = TRUE
      /\ x.first = r.first /\ x.content = r.content /\ x.events = r.events
  BY <1>1 DEF Row
<1> HIDE DEF x
<1>3. Sound(x)
  BY <1>1, <1>2 DEF Sound
<1> QED
  BY <1>2, <1>3 DEF SoundRows, x

\* A table with every row replaced by a sound one.
LEMMA SoundTable ==
  ASSUME NEW R \in Seq(SoundRows), NEW T, DOMAIN T = DOMAIN R,
         T = [id \in DOMAIN R |-> T[id]], \A id \in DOMAIN R : T[id] \in SoundRows
  PROVE  T \in Seq(SoundRows) /\ Len(T) = Len(R)
<1>1. Len(R) \in Nat /\ DOMAIN R = 1..Len(R)
  BY LenProperties
<1>2. T = [id \in 1..Len(R) |-> T[id]] /\ \A id \in 1..Len(R) : T[id] \in SoundRows
  BY <1>1
<1> QED
  BY <1>1, <1>2

\* A table with rows appended.
LEMMA MoreRows ==
  ASSUME NEW R \in Seq(SoundRows), NEW T \in Seq(SoundRows)
  PROVE  /\ R \o T \in Seq(SoundRows)
         /\ DOMAIN R \subseteq DOMAIN (R \o T)
         /\ \A id \in DOMAIN R : (R \o T)[id] = R[id]
         /\ \A id \in DOMAIN (R \o T) \ DOMAIN R : \E k \in DOMAIN T : (R \o T)[id] = T[k] /\ id = Len(R) + k
         /\ \A k \in DOMAIN T : Len(R) + k \in DOMAIN (R \o T) /\ (R \o T)[Len(R) + k] = T[k]
                                /\ Len(R) + k \notin DOMAIN R
<1>1. /\ Len(R) \in Nat /\ DOMAIN R = 1..Len(R) /\ Len(T) \in Nat /\ DOMAIN T = 1..Len(T)
  BY LenProperties
<1>2. /\ R \o T \in Seq(SoundRows) /\ Len(R \o T) = Len(R) + Len(T)
      /\ \A i \in 1..Len(R) + Len(T) : (R \o T)[i] = IF i <= Len(R) THEN R[i] ELSE T[i - Len(R)]
  BY ConcatProperties
<1>3. DOMAIN (R \o T) = 1..Len(R) + Len(T)
  BY <1>2, LenProperties
<1> DEFINE U == R \o T
<1> HIDE DEF U
<1>4. ASSUME NEW id \in DOMAIN U \ DOMAIN R
      PROVE  id - Len(R) \in DOMAIN T /\ U[id] = T[id - Len(R)] /\ id = Len(R) + (id - Len(R))
  BY <1>1, <1>2, <1>3 DEF U
<1>5. ASSUME NEW k \in DOMAIN T
      PROVE  /\ Len(R) + k \in DOMAIN U /\ U[Len(R) + k] = T[k] /\ Len(R) + k \notin DOMAIN R
  BY <1>1, <1>2, <1>3 DEF U
<1>6. DOMAIN R \subseteq DOMAIN U /\ \A id \in DOMAIN R : U[id] = R[id]
  BY <1>1, <1>2, <1>3 DEF U
<1> QED
  BY <1>2, <1>4, <1>5, <1>6 DEF U

-----------------------------------------------------------------------------
(* What the scripts do to the disk and to the table.                       *)

\* The files of the disk d, with what may be in them.
DiskOK(d) ==
  /\ IsFiniteSet(DOMAIN d)
  /\ \A p \in DOMAIN d : FilePath(p) /\ d[p] \in Content

\* Removing a file keeps the types.
LEMMA RestrictOK ==
  ASSUME NEW d, DiskOK(d), NEW p
  PROVE  LET e == Restrict(d, DOMAIN d \ {p})
         IN DiskOK(e) /\ DOMAIN e = DOMAIN d \ {p} /\ \A q \in DOMAIN e : e[q] = d[q]
<1> DEFINE e == Restrict(d, DOMAIN d \ {p})
<1>1. DOMAIN e = DOMAIN d \ {p} /\ \A q \in DOMAIN e : e[q] = d[q]
  BY DEF Restrict
<1>2. IsFiniteSet(DOMAIN d \ {p})
  BY FS_Subset DEF DiskOK
<1> HIDE DEF e
<1> QED
  BY <1>1, <1>2 DEF DiskOK, e

\* SetToSeq lists the elements of a finite set, each once.
LEMMA SetToSeqFacts ==
  ASSUME NEW S, IsFiniteSet(S)
  PROVE  LET f == SetToSeq(S)
         IN /\ Cardinality(S) \in Nat /\ DOMAIN f = 1..Cardinality(S)
            /\ \A i \in DOMAIN f : f[i] \in S
            /\ \A i, j \in DOMAIN f : f[i] = f[j] => i = j
            /\ \A x \in S : \E i \in DOMAIN f : f[i] = x
<1> DEFINE c == Cardinality(S)
           f == SetToSeq(S)
<1>1. c \in Nat
  BY FS_CardinalityType
<1>2. PICK g : g \in Bijection(1..c, S)
  BY FS_CardinalityType DEF ExistsBijection
<1>3. g \in [1..c -> S] /\ IsInjective(g)
  BY <1>2 DEF Bijection, Injection, IsInjective
<1>4. f \in [1..c -> S] /\ IsInjective(f)
  BY <1>3 DEF SetToSeq
<1> HIDE DEF f
<1>5. f \in Injection(1..c, S)
  BY <1>4 DEF Injection, IsInjective
<1>6. Cardinality(1..c) = c
  BY <1>1, FS_Interval
<1>7. f \in Surjection(1..c, S)
  BY <1>5, <1>6, FS_Injection
<1>8. \A x \in S : \E i \in DOMAIN f : f[i] = x
  BY <1>4, <1>7 DEF Surjection
<1> QED
  BY <1>1, <1>4, <1>8 DEF IsInjective, f

\* The members of a package.
LEMMA MembersFacts ==
  ASSUME NEW c \in DOMAIN Members
  PROVE  /\ IsFiniteSet(DOMAIN Members[c])
         /\ \A n \in DOMAIN Members[c] : n \in Names /\ n.ext = 0 /\ Members[c][n] \in Content
<1>1. IsFiniteSet(DOMAIN Members[c]) /\ \A n \in DOMAIN Members[c] : n \in Names /\ n.ext = 0
  BY PackageFilesAssumption, GivenNames
<1>2. ASSUME NEW n \in DOMAIN Members[c] PROVE Members[c][n] \in Content
  <2>1. Members[c][n] \in Contents(Members[c])
    BY DEF Contents
  <2> QED
    BY <2>1 DEF Content
<1> QED
  BY <1>1, <1>2

\* Where the package at p is extracted when the number of the extraction is r.
TargetAt(p, r) == Append(Front(p), [p[Len(p)] EXCEPT !.ext = r, !.form = @ + 1])

\* Its names: those of the package, the last one with the date.
LEMMA TargetAtFacts ==
  ASSUME NEW p, FilePath(p), NEW r \in Nat, r > 0
  PROVE  LET t == TargetAt(p, r)
         IN /\ t \in Path /\ Len(t) = Len(p) /\ \A i \in 1..Len(p) - 1 : t[i] = p[i]
            /\ t[Len(p)].ext = r /\ t[Len(p)].form = p[Len(p)].form + 1
            /\ t[Len(p)].base = p[Len(p)].base /\ t[Len(p)].num = p[Len(p)].num
            /\ p[Len(p)] \in Names /\ Len(p) \in Nat /\ Len(p) > 0
<1> DEFINE n == p[Len(p)]
           f == n.form + 1
           x == [n EXCEPT !.ext = r]
           y == [x EXCEPT !.form = f]
<1>1. p \in Path /\ p # <<>> /\ Len(p) \in Nat /\ Len(p) > 0
  BY PathFacts DEF FilePath
<1>2. n \in Names
  BY <1>1, PathFacts
<1> HIDE DEF n
<1>3. f \in Nat /\ n \in Record
  BY <1>2, NameType
<1>4. TargetAt(p, r) = Append(Front(p), y)
  BY <1>3 DEF TargetAt, n, Record
<1>5. f = n.form + 1
  OBVIOUS
<1> HIDE DEF f
<1>6. x \in Record /\ x.ext = r /\ x.base = n.base /\ x.num = n.num
  BY <1>3 DEF Record
<1> HIDE DEF x
<1>7. y \in Record /\ y.ext = r /\ y.base = n.base /\ y.num = n.num /\ y.form = f
  BY <1>3, <1>6 DEF Record
<1> HIDE DEF y
<1>8. y \in Names
  BY <1>7, NameFacts
<1> QED
  BY <1>1, <1>2, <1>4, <1>5, <1>7, <1>8, LastName DEF n

\* Where the package at p is extracted.
LEMMA TargetFacts ==
  ASSUME NEW p, FilePath(p), round \in Nat, round > 0
  PROVE  LET t == ExtractionTarget(p)
         IN /\ t \in Path /\ Len(t) = Len(p) /\ \A i \in 1..Len(p) - 1 : t[i] = p[i]
            /\ t[Len(p)].ext = round /\ t[Len(p)].form = p[Len(p)].form + 1
            /\ t[Len(p)].base = p[Len(p)].base /\ t[Len(p)].num = p[Len(p)].num
            /\ p[Len(p)] \in Names /\ Len(p) \in Nat /\ Len(p) > 0
BY TargetAtFacts DEF ExtractionTarget, TargetAt

\* Where a member of the package at p comes to be.
MemberPath(p, n) == Append(ExtractionTarget(p), n)

\* It is the path of a file.
LEMMA MemberPathFacts ==
  ASSUME NEW p, FilePath(p), round \in Nat, round > 0, NEW n \in Names, n.ext = 0
  PROVE  LET m == MemberPath(p, n)
             t == ExtractionTarget(p)
         IN /\ FilePath(m) /\ Len(m) = Len(p) + 1 /\ m[Len(p) + 1] = n
            /\ \A i \in 1..Len(p) : m[i] = t[i]
<1>1. ExtractionTarget(p) \in Path /\ Len(ExtractionTarget(p)) = Len(p)
  BY TargetFacts
<1> QED
  BY <1>1, OneMoreName DEF MemberPath, FilePath

\* The disk after an extraction, all or part of it.
LEMMA ExtractedOK ==
  ASSUME DiskOK(disk), round \in Nat, round > 0, NEW id \in DOMAIN rows, FilePath(rows[id].loc),
         Format(id) \in DOMAIN Members, NEW S, S \subseteq DOMAIN Members[Format(id)]
  PROVE  LET e == Extracted(id, S)
             new == {MemberPath(rows[id].loc, n) : n \in S}
         IN /\ DiskOK(e) /\ DOMAIN e = DOMAIN disk \cup new
            /\ \A p \in DOMAIN disk \ new : e[p] = disk[p]
            /\ \A n \in S : e[MemberPath(rows[id].loc, n)] = Members[Format(id)][n]
<1> DEFINE g == rows[id].loc
           c == Format(id)
           e == Extracted(id, S)
           new == {MemberPath(g, n) : n \in S}
<1>1. e = [p \in DOMAIN disk \cup new |-> IF p \in new THEN Members[c][p[Len(p)]] ELSE disk[p]]
  BY DEF Extracted, MemberPath
<1>2. /\ \A n \in S : n \in Names /\ n.ext = 0 /\ Members[c][n] \in Content
      /\ IsFiniteSet(S)
  BY MembersFacts, FS_Subset
<1> HIDE DEF g, c, e
<1>3. ASSUME NEW n \in S
      PROVE  FilePath(MemberPath(g, n)) /\ MemberPath(g, n)[Len(MemberPath(g, n))] = n
  BY <1>2, MemberPathFacts DEF g
<1>4. IsFiniteSet(new)
  <2> DEFINE f == [n \in S |-> MemberPath(g, n)]
  <2>1. f \in Surjection(S, new)
    BY DEF Surjection
  <2> QED
    BY <1>2, <2>1, FS_Surjection
<1>5. IsFiniteSet(DOMAIN disk \cup new)
  BY <1>4, FS_Union DEF DiskOK
<1>6. ASSUME NEW n \in S PROVE e[MemberPath(g, n)] = Members[c][n]
  BY <1>1, <1>3
<1>7. \A p \in new : FilePath(p) /\ e[p] \in Content
  BY <1>2, <1>3, <1>6
<1> HIDE DEF new
<1>8. DOMAIN e = DOMAIN disk \cup new
  BY <1>1
<1>9. \A p \in DOMAIN disk \ new : e[p] = disk[p]
  BY <1>1
<1>10. DiskOK(e)
  BY <1>5, <1>7, <1>8, <1>9 DEF DiskOK
<1> QED
  BY <1>6, <1>8, <1>9, <1>10 DEF g, c, e, new

\* The locations in an index, before and after.
IndexType(ix) == \A o \in DOMAIN ix : o \in Path /\ FilePath(ix[o])

\* What apply_file_updates does to the table: a row keeps all but its location,
\* and that is one the index has for the row's.
LEMMA FileUpdatesFacts ==
  ASSUME rows \in Seq(SoundRows), NEW ix, IndexType(ix)
  PROVE  LET T == FileUpdates(ix)
         IN /\ T \in Seq(SoundRows) /\ DOMAIN T = DOMAIN rows
            /\ \A id \in DOMAIN rows :
                 /\ T[id].removed = rows[id].removed /\ T[id].first = rows[id].first
                 /\ T[id].content = rows[id].content /\ T[id].sip = rows[id].sip
                 /\ \/ /\ \E q \in DOMAIN ix :
                            NfcPath(q) = NfcPath(rows[id].loc) /\ T[id].loc = ix[q]
                       /\ Live(id)
                    \/ /\ T[id].loc = rows[id].loc
                       /\ Live(id) => ~\E q \in DOMAIN ix : NfcPath(q) = NfcPath(rows[id].loc)
<1> DEFINE T == FileUpdates(ix)
           keys(id) == {q \in DOMAIN ix : NfcPath(q) = NfcPath(rows[id].loc)}
           key(id) == CHOOSE q \in keys(id) : TRUE
           Hit(id) == Live(id) /\ keys(id) # {}
<1>1. T = [id \in DOMAIN rows |->
             IF Hit(id) THEN RenamedRow(rows[id], ix[key(id)]) ELSE rows[id]]
  BY DEF FileUpdates, RenamedRow
<1>2. ASSUME NEW id \in DOMAIN rows PROVE rows[id] \in SoundRows
  BY LenProperties, ElementOfSeq
<1>3. ASSUME NEW id \in DOMAIN rows, Hit(id)
      PROVE  /\ T[id] \in SoundRows /\ T[id].removed = rows[id].removed
             /\ T[id].first = rows[id].first /\ T[id].content = rows[id].content
             /\ T[id].sip = rows[id].sip /\ T[id].loc = ix[key(id)]
             /\ key(id) \in DOMAIN ix /\ NfcPath(key(id)) = NfcPath(rows[id].loc)
  <2>1. key(id) \in keys(id)
    BY <1>3
  <2>2. T[id] = RenamedRow(rows[id], ix[key(id)])
    BY <1>1, <1>3
  <2> DEFINE k == key(id)
  <2>3. k \in DOMAIN ix /\ NfcPath(k) = NfcPath(rows[id].loc)
    BY <2>1
  <2> HIDE DEF key
  <2>4. rows[id] \in SoundRows /\ ~rows[id].removed /\ FilePath(ix[k])
    BY <1>2, <1>3, <2>3 DEF Live, IndexType
  <2> HIDE DEF k
  <2>5. T[id] = RenamedRow(rows[id], ix[k])
    BY <2>2 DEF k
  <2> HIDE DEF T
  <2>6. rows[id].removed \in BOOLEAN /\ T[id].removed \in BOOLEAN
    BY <2>4, <2>5, RenamedRowSound DEF SoundRows, Row
  <2>7. /\ T[id] \in SoundRows /\ T[id].removed = rows[id].removed
        /\ T[id].first = rows[id].first /\ T[id].content = rows[id].content
        /\ T[id].sip = rows[id].sip /\ T[id].loc = ix[k]
    BY <2>4, <2>5, <2>6, RenamedRowSound
  <2> QED
    BY <2>3, <2>7 DEF k
<1>4. ASSUME NEW id \in DOMAIN rows, ~Hit(id) PROVE T[id] = rows[id]
  BY <1>1, <1>4
<1>5. DOMAIN T = DOMAIN rows /\ T = [id \in DOMAIN rows |-> T[id]]
  BY <1>1
<1> HIDE DEF T, key
<1>6. \A id \in DOMAIN rows : T[id] \in SoundRows
  BY <1>2, <1>3, <1>4
<1>7. T \in Seq(SoundRows)
  BY <1>5, <1>6, SoundTable
<1>8. ASSUME NEW id \in DOMAIN rows
      PROVE  /\ T[id].removed = rows[id].removed /\ T[id].first = rows[id].first
             /\ T[id].content = rows[id].content /\ T[id].sip = rows[id].sip
             /\ \/ /\ \E q \in DOMAIN ix :
                        NfcPath(q) = NfcPath(rows[id].loc) /\ T[id].loc = ix[q]
                   /\ Live(id)
                \/ /\ T[id].loc = rows[id].loc
                   /\ Live(id) => ~\E q \in DOMAIN ix : NfcPath(q) = NfcPath(rows[id].loc)
  <2>1. CASE Hit(id)
    BY <1>3, <2>1
  <2>2. CASE ~Hit(id)
    BY <1>4, <2>2
  <2> QED
    BY <2>1, <2>2
<1> QED
  BY <1>5, <1>7, <1>8 DEF T

\* No two names of the transfer, or of a package, are equal in NFC.
NamesApart == \A m, n \in Names : NfcName(m) = NfcName(n) => m = n

\* Then no two paths are.
LEMMA PathsApart ==
  ASSUME NamesApart, NEW p \in Path, NEW q \in Path, NfcPath(p) = NfcPath(q)
  PROVE  p = q
<1>1. /\ Len(p) \in Nat /\ DOMAIN p = 1..Len(p) /\ \A i \in 1..Len(p) : p[i] \in Names
      /\ Len(q) \in Nat /\ DOMAIN q = 1..Len(q) /\ \A i \in 1..Len(q) : q[i] \in Names
  BY PathFacts
<1>2. DOMAIN NfcPath(p) = DOMAIN p /\ DOMAIN NfcPath(q) = DOMAIN q
  BY DEF NfcPath
<1>3. 1..Len(p) = 1..Len(q)
  BY <1>1, <1>2
<1>4. Len(p) = Len(q)
  <2>1. ASSUME NEW m \in Nat, NEW n \in Nat, m < n PROVE n \in 1..n /\ n \notin 1..m
    BY <2>1
  <2>2. ~(Len(p) < Len(q)) /\ ~(Len(q) < Len(p))
    BY <1>1, <1>3, <2>1
  <2>3. Len(p) \in Nat /\ Len(q) \in Nat
    BY <1>1
  <2> HIDE <1>1, <1>3
  <2> QED
    BY ONLY <2>2, <2>3
<1>5. ASSUME NEW i \in 1..Len(p) PROVE p[i] = q[i]
  <2>1. NfcPath(p)[i] = NfcName(p[i]) /\ NfcPath(q)[i] = NfcName(q[i])
    BY <1>1, <1>3 DEF NfcPath
  <2>2. p[i] \in Names /\ q[i] \in Names /\ NfcName(p[i]) = NfcName(q[i])
    BY <1>1, <1>3, <2>1
  <2> QED
    BY <2>2 DEF NamesApart
<1> QED
  BY <1>4, <1>5, PathEqual

\* And a row gets the location the index has for its own.
LEMMA FileUpdatesApart ==
  ASSUME NamesApart, rows \in Seq(SoundRows), NEW ix, IndexType(ix), NEW id \in DOMAIN rows
  PROVE  FileUpdates(ix)[id].loc = IF Live(id) /\ rows[id].loc \in DOMAIN ix
                                   THEN ix[rows[id].loc] ELSE rows[id].loc
<1> DEFINE T == FileUpdates(ix)
<1>1. \/ /\ \E q \in DOMAIN ix : NfcPath(q) = NfcPath(rows[id].loc) /\ T[id].loc = ix[q]
         /\ Live(id)
      \/ /\ T[id].loc = rows[id].loc
         /\ Live(id) => ~\E q \in DOMAIN ix : NfcPath(q) = NfcPath(rows[id].loc)
  BY FileUpdatesFacts
<1> HIDE DEF T
<1>2. rows[id].loc \in Path
  BY LenProperties, ElementOfSeq DEF SoundRows, Row
<1>3. \A q \in DOMAIN ix : NfcPath(q) = NfcPath(rows[id].loc) => q = rows[id].loc
  BY <1>2, PathsApart DEF IndexType
<1>4. T[id].loc = IF Live(id) /\ rows[id].loc \in DOMAIN ix THEN ix[rows[id].loc] ELSE rows[id].loc
  BY <1>1, <1>3
<1> QED
  BY <1>4 DEF T

\* The table R once the file of row id is removed.
Gone(R, id) == [R EXCEPT ![id].removed = TRUE, ![id].loc = NoFile,
                         ![id].events = @ \cup {"file removed"}]

\* What fileWasRemoved does to the table.
LEMMA RemovedFacts ==
  ASSUME NEW R \in Seq(SoundRows), NEW id \in DOMAIN R, NEW T, T = Gone(R, id)
  PROVE  /\ T \in Seq(SoundRows) /\ DOMAIN T = DOMAIN R /\ Len(T) = Len(R)
         /\ T[id].removed /\ T[id].first = R[id].first /\ T[id].content = R[id].content
         /\ \A k \in DOMAIN R : k # id => T[k] = R[k]
<1>1. R = [k \in DOMAIN R |-> R[k]] /\ \A k \in DOMAIN R : R[k] \in SoundRows
  BY LenProperties, ElementOfSeq
<1>2. DOMAIN T = DOMAIN R /\ T = [k \in DOMAIN R |-> T[k]]
  BY <1>1 DEF Gone
<1>3. \A k \in DOMAIN R : k # id => T[k] = R[k]
  BY <1>1 DEF Gone
<1>4. T[id] = RemovedRow(R[id])
  BY <1>1 DEF RemovedRow, Gone
<1>5. R[id] \in SoundRows
  BY <1>1
<1>6. /\ T[id] \in SoundRows /\ T[id].removed /\ T[id].first = R[id].first
      /\ T[id].content = R[id].content
  BY <1>4, <1>5, RemovedRowSound
<1>7. \A k \in DOMAIN R : T[k] \in SoundRows
  BY <1>1, <1>3, <1>6
<1>8. T \in Seq(SoundRows) /\ Len(T) = Len(R)
  <2>1. R \in Seq(SoundRows)
    OBVIOUS
  <2> QED
    BY ONLY <2>1, <1>2, <1>7, SoundTable
<1> QED
  BY <1>2, <1>3, <1>6, <1>8

\* What create_sip_from_transfer_objects does to the table.
LEMMA SipFacts ==
  ASSUME rows \in Seq(SoundRows), NEW T,
         T = [id \in DOMAIN rows |-> IF Live(id) /\ Present(rows[id].loc)
                                     THEN [rows[id] EXCEPT !.sip = TRUE] ELSE rows[id]]
  PROVE  /\ T \in Seq(SoundRows) /\ DOMAIN T = DOMAIN rows
         /\ \A id \in DOMAIN rows :
              /\ T[id].removed = rows[id].removed /\ T[id].first = rows[id].first
              /\ T[id].content = rows[id].content /\ T[id].loc = rows[id].loc
              /\ Live(id) /\ Present(rows[id].loc) => T[id].sip = TRUE
<1>1. ASSUME NEW id \in DOMAIN rows PROVE rows[id] \in SoundRows
  BY LenProperties, ElementOfSeq
<1>2. ASSUME NEW id \in DOMAIN rows
      PROVE  /\ T[id] \in SoundRows
             /\ T[id].removed = rows[id].removed /\ T[id].first = rows[id].first
             /\ T[id].content = rows[id].content /\ T[id].loc = rows[id].loc
             /\ Live(id) /\ Present(rows[id].loc) => T[id].sip = TRUE
  <2>1. CASE Live(id) /\ Present(rows[id].loc)
    <3>1. T[id] = [rows[id] EXCEPT !.sip = TRUE]
      BY <2>1
    <3> QED
      BY <1>1, <3>1, SipRowSound
  <2>2. CASE ~(Live(id) /\ Present(rows[id].loc))
    <3>1. T[id] = rows[id]
      BY <2>2
    <3> QED
      BY <1>1, <2>2, <3>1
  <2> QED
    BY <2>1, <2>2
<1>3. DOMAIN T = DOMAIN rows /\ T = [id \in DOMAIN rows |-> T[id]]
  OBVIOUS
<1>4. T \in Seq(SoundRows)
  BY <1>2, <1>3, SoundTable
<1> QED
  BY <1>2, <1>3, <1>4

-----------------------------------------------------------------------------
(* Types, whatever goes wrong.                                             *)

Walks   == {"names", "names2"}
PerFile == {"unneeded", "unneeded2", "linking"}
Scripts == {"hidden", "unneeded", "assign", "names", "has", "extract", "names2",
            "unneeded2", "has2", "sip", "linking"}

Control ==
  /\ script \in Scripts \cup Ended /\ stage \in {"begin", "work", "handed"}
  /\ delete \in BOOLEAN
  /\ code \in {-1, 0, 1}
  /\ round \in Nat /\ faults \in 0..MaxFaults
  /\ script = "extract" /\ stage = "work" => round > 0

Tables == rows \in Seq(SoundRows) /\ saved \in Seq(SoundRows)

\* An entry the walk has before it: its path before any change, and the present one.
Entry(e) == e[1] \in Path /\ e[2] \in Path /\ e[2] # <<>>

TodoType ==
  stage = "work" =>
    /\ script = "assign" => todo \subseteq DOMAIN disk
    /\ script \in Walks => \A e \in todo : Entry(e)
    /\ script = "extract" => \A id \in todo : id \in DOMAIN rows /\ Live(id)

TasksType ==
  script \in PerFile =>
    /\ \A t \in tasks : t[1] # 0 => t[1] \in DOMAIN rows
    /\ stage = "work" => todo \subseteq tasks /\ DOMAIN saved = DOMAIN rows

Types ==
  /\ Control /\ DiskOK(disk) /\ Tables /\ IndexType(index)
  /\ TodoType /\ TasksType

\* The end of a job.
LEMMA FinishFacts ==
  ASSUME script \in Scripts, NEW c, Finish(c)
  PROVE  /\ script' \in Scripts \cup Ended /\ script' # script /\ stage' = "begin"
         /\ tasks' = {} /\ todo' = {} /\ IndexType(index') /\ code' = 0
         /\ DOMAIN index' = {}
<1>1. \A s \in After(script, c) : s \in Scripts \cup Ended /\ s # script
  BY DEF After, AfterHidden, AfterUnneeded, AfterAssign, AfterNames, AfterHas, AfterExtract, AfterNames2,
         AfterUnneeded2, AfterHas2, AfterSIP, AfterLinking, Scripts, Ended
<1>2. DOMAIN (<<>>) = {}
  OBVIOUS
<1> QED
  BY <1>1, <1>2 DEF Finish, IndexType

\* What the rows, the files and the locations of the tables are.
LEMMA TableFacts ==
  ASSUME Types
  PROVE  /\ \A id \in DOMAIN rows : rows[id] \in SoundRows
         /\ \A id \in DOMAIN rows : Live(id) => FilePath(rows[id].loc)
         /\ DOMAIN rows = 1..Len(rows) /\ Len(rows) \in Nat
         /\ DiskType
<1>1. rows \in Seq(SoundRows)
  BY DEF Types, Tables
<1>2. \A id \in DOMAIN rows : rows[id] \in SoundRows
  BY <1>1, LenProperties, ElementOfSeq
<1>3. \A id \in DOMAIN rows : Live(id) => FilePath(rows[id].loc)
  BY <1>2 DEF SoundRows, Sound, Live
<1> QED
  BY <1>1, <1>2, <1>3, LenProperties DEF Types, DiskOK, DiskType

\* The tasks the server submits.
LEMMA TaskFacts ==
  ASSUME NEW sip, NEW T \in TaskSets(sip), NEW t \in T
  PROVE  /\ \/ t[1] \in Listing(sip) /\ t[2] = rows[t[1]].loc /\ t[3] = rows[t[1]].loc
            \/ t[1] = 0 /\ t[2] \in Unlisted(sip)
         /\ t[3] = NoFile \/ \E id \in Listing(sip) : t[3] = rows[id].loc
         /\ t = <<t[1], t[2], t[3]>>
<1> DEFINE listed == Listing(sip)
           ofRows == {<<id, rows[id].loc, rows[id].loc>> : id \in listed}
           lasts  == IF listed = {} THEN {0} ELSE listed
           given(last) == {g \in [Unlisted(sip) -> UNION {DiskPath(p, last) : p \in Unlisted(sip)}] :
                             \A p \in Unlisted(sip) : g[p] \in DiskPath(p, last)}
           sets(last) == {ofRows \cup {<<0, p, g[p]>> : p \in Unlisted(sip)} : g \in given(last)}
<1>1. TaskSets(sip) = UNION {sets(last) : last \in lasts}
  BY DEF TaskSets
<1>2. PICK last \in lasts : T \in sets(last)
  <2> HIDE DEF sets, lasts
  <2> QED
    BY <1>1
<1>5. PICK g \in given(last) : T = ofRows \cup {<<0, p, g[p]>> : p \in Unlisted(sip)}
  BY <1>2
<1>3. CASE t \in ofRows
  BY <1>3
<1>4. CASE \E p \in Unlisted(sip) : t = <<0, p, g[p]>>
  <2>1. PICK p \in Unlisted(sip) : t = <<0, p, g[p]>>
    BY <1>4
  <2>2. g[p] \in DiskPath(p, last)
    BY <1>5
  <2>3. g[p] = NoFile \/ (last # 0 /\ g[p] = rows[last].loc)
    BY <2>2 DEF DiskPath
  <2>4. last # 0 => last \in listed
    BY <1>2
  <2> QED
    BY <2>1, <2>3, <2>4
<1> QED
  BY <1>5, <1>3, <1>4

\* A file below a directory has one name more at least.
LEMMA BelowFacts ==
  ASSUME NEW p \in Path, NEW q \in Path
  PROVE  /\ IsStrictPrefix(p, q) <=> IsPrefix(p, q) /\ Len(p) < Len(q)
         /\ IsStrictPrefix(p, q) => Len(p) + 1 \in 1..Len(q) /\ q[Len(p) + 1] \in Names
<1>1. Len(p) \in Nat /\ Len(q) \in Nat
  BY PathFacts
<1>2. ASSUME IsPrefix(p, q), p # q PROVE Len(p) < Len(q)
  BY <1>1, <1>2, PrefixFacts, PathEqual
<1>3. ASSUME Len(p) < Len(q) PROVE p # q /\ Len(p) + 1 \in 1..Len(q) /\ q[Len(p) + 1] \in Names
  BY <1>1, <1>3, PathFacts
<1> QED
  BY <1>2, <1>3 DEF IsStrictPrefix

\* The entries of the directory at ``at``, that was at ``old``.
Children(old, at) ==
  {<<Append(old, q[Len(at) + 1]), Append(at, q[Len(at) + 1])>> :
     q \in {r \in DOMAIN disk : IsStrictPrefix(at, r)}}

\* The entries of a directory are paths.
LEMMA ChildrenFacts ==
  ASSUME DiskType, NEW old \in Path, NEW at \in Path, NEW e \in Children(old, at)
  PROVE  /\ Entry(e)
         /\ \E q \in DOMAIN disk :
              /\ q \in Path /\ IsPrefix(at, q) /\ Len(at) < Len(q) /\ q[Len(at) + 1] \in Names
              /\ e[1] = Append(old, q[Len(at) + 1]) /\ e[2] = Append(at, q[Len(at) + 1])
<1>1. PICK q \in DOMAIN disk : /\ IsStrictPrefix(at, q)
                               /\ e = <<Append(old, q[Len(at) + 1]), Append(at, q[Len(at) + 1])>>
  BY DEF Children
<1>2. q \in Path
  BY DEF DiskType, FilePath
<1>3. IsPrefix(at, q) /\ Len(at) < Len(q) /\ q[Len(at) + 1] \in Names
  BY <1>1, <1>2, BelowFacts
<1>4. e[1] = Append(old, q[Len(at) + 1]) /\ e[2] = Append(at, q[Len(at) + 1])
  BY <1>1
<1>5. Entry(e)
  BY <1>3, <1>4, OneMoreName DEF Entry
<1> QED
  BY <1>2, <1>3, <1>4, <1>5

\* The index once ``old`` is noted to be at ``new``.
Noted(old, new, dir) == IF dir \/ new = old THEN index ELSE AddFile(old, new)

\* It has the entry, and of those it had all that are not equal to it in NFC.
LEMMA AddFileFacts ==
  ASSUME NEW old, NEW new
  PROVE  LET ix == AddFile(old, new)
         IN /\ DOMAIN ix \subseteq DOMAIN index \cup {old} /\ old \in DOMAIN ix /\ ix[old] = new
            /\ \A p \in DOMAIN ix : p # old => p \in DOMAIN index /\ ix[p] = index[p]
BY DEF AddFile

\* When no two names are equal in NFC, it has all that it had.
LEMMA AddFileApart ==
  ASSUME NamesApart, IndexType(index), NEW old \in Path, NEW new
  PROVE  AddFile(old, new) =
           [p \in DOMAIN index \cup {old} |-> IF p = old THEN new ELSE index[p]]
<1>1. \A p \in DOMAIN index : NfcPath(p) = NfcPath(old) => p = old
  BY PathsApart DEF IndexType
<1>2. {q \in DOMAIN index : NfcPath(q) # NfcPath(old)} \cup {old} = DOMAIN index \cup {old}
  BY <1>1
<1> QED
  BY <1>2 DEF AddFile

\* What ChangeName does with the entry e.
Walked(e, new) ==
  LET ix == Noted(e[1], new, ~Present(e[2]))
  IN /\ e \in todo /\ Entry(e) /\ Renames(e[2], new) /\ new = ChangePath(e[2])
     /\ \A f \in todo : Len(f[1]) <= Len(e[1])
     /\ MovedDisk(e[2], new) /\ DiskType' /\ DiskOK(disk')
     /\ todo' = (todo \ {e}) \cup
                  {<<Append(e[1], q[Len(e[2]) + 1]), Append(new, q[Len(e[2]) + 1])>> :
                     q \in {r \in DOMAIN disk : IsStrictPrefix(e[2], r)}}
     /\ IndexType(ix)
     /\ \/ rows' = FileUpdates(ix) /\ index' = <<>>
        \/ index' = ix /\ rows' = rows
     /\ UNCHANGED <<script, stage, tasks, code, saved, delete, round, faults>>

\* ChangeName is such a step.
LEMMA ChangeNameWalks ==
  ASSUME Types, ChangeName
  PROVE  \E e \in todo : \E new \in Path : Walked(e, new)
<1>1. script \in Walks /\ stage = "work"
  BY DEF ChangeName, Walks
<1>2. DiskType
  BY TableFacts
<1>3. PICK e \in todo :
        LET new == ChangePath(e[2])
            ix  == Noted(e[1], new, ~Present(e[2]))
        IN /\ \A f \in todo : Len(f[1]) <= Len(e[1])
           /\ disk' = Moved(e[2], new)
           /\ todo' = (todo \ {e}) \cup
                        {<<Append(e[1], q[Len(e[2]) + 1]), Append(new, q[Len(e[2]) + 1])>> :
                           q \in {r \in DOMAIN disk : IsStrictPrefix(e[2], r)}}
           /\ IF Cardinality(DOMAIN ix) >= BatchSize
              THEN rows' = FileUpdates(ix) /\ index' = <<>>
              ELSE index' = ix /\ UNCHANGED rows
  BY DEF ChangeName, Noted
<1> DEFINE new == ChangePath(e[2])
           ix == Noted(e[1], new, ~Present(e[2]))
<1>4. Entry(e)
  BY <1>1 DEF Types, TodoType
<1>5. Renames(e[2], new)
  BY <1>2, <1>4, ChangePathFacts DEF Entry
<1>6. MovedDisk(e[2], new) /\ DiskType'
  BY <1>2, <1>3, <1>4, <1>5, MoveStep DEF Entry
<1>7. DiskOK(disk')
  <2>1. \A x \in DOMAIN disk' : disk'[x] \in Content
    BY <1>6 DEF MovedDisk, Types, DiskOK
  <2> QED
    BY <1>6, <2>1 DEF DiskType, DiskOK
<1> HIDE DEF new
<1>8. IndexType(ix)
  <2>1. CASE ~Present(e[2])
    BY <2>1 DEF Noted, Types
  <2>2. CASE Present(e[2])
    <3>1. e[2] \in Path /\ e[2] # <<>> /\ e[2][Len(e[2])].ext = 0
      BY <2>2 DEF Present, Types, DiskOK, FilePath
    <3>2. new \in Path /\ Len(new) = Len(e[2]) /\ new[Len(e[2])].ext = e[2][Len(e[2])].ext
      BY <1>5 DEF Renames
    <3>3. FilePath(new)
      BY <3>1, <3>2, PathFacts DEF FilePath
    <3> DEFINE ad == AddFile(e[1], new)
    <3>4. /\ DOMAIN ad \subseteq DOMAIN index \cup {e[1]} /\ ad[e[1]] = new
          /\ \A p \in DOMAIN ad : p # e[1] => p \in DOMAIN index /\ ad[p] = index[p]
      BY AddFileFacts
    <3> HIDE DEF ad
    <3>5. IndexType(ad)
      BY <1>4, <3>3, <3>4 DEF IndexType, Types, Entry
    <3> QED
      BY <3>5 DEF Noted, Types, ad
  <2> QED
    BY <2>1, <2>2
<1>9. new \in Path
  BY <1>5 DEF Renames
<1>10. UNCHANGED <<script, stage, tasks, code, saved, delete, round, faults>>
  BY DEF ChangeName
<1>11. Walked(e, new)
  BY <1>3, <1>4, <1>5, <1>6, <1>7, <1>8, <1>10 DEF Walked, new
<1> QED
  BY <1>9, <1>11

\* The rows in U that are not in R are those of the members X of the package
\* with content c at g, one each.
RowsOfMembers(R, U, g, c, X) ==
  /\ \A k \in DOMAIN U \ DOMAIN R : \E n \in X :
       U[k] = NewRow(MemberPath(g, n), Members[c][n], "unpacking", g)
  /\ \A n \in X : \E k \in DOMAIN U \ DOMAIN R : U[k].loc = MemberPath(g, n)
  /\ \A k, l \in DOMAIN U \ DOMAIN R : U[k].loc = U[l].loc => k = l

\* What ExtractWorks does with the package of row id.
Unpacked(id) ==
  LET g == rows[id].loc
      c == Format(id)
      new == {MemberPath(g, n) : n \in DOMAIN Members[c]}
  IN /\ Present(g) /\ code' = -1 /\ UNCHANGED faults
     /\ DiskOK(disk')
     /\ DOMAIN disk' = (DOMAIN disk \cup new) \ (IF delete THEN {g} ELSE {})
     /\ \A p \in DOMAIN disk' \ new : disk'[p] = disk[p]
     /\ \A n \in DOMAIN Members[c] :
          MemberPath(g, n) \in DOMAIN disk' /\ disk'[MemberPath(g, n)] = Members[c][n]
     /\ rows' \in Seq(SoundRows) /\ DOMAIN rows \subseteq DOMAIN rows'
     /\ \A k \in DOMAIN rows : k # id => rows'[k] = rows[k]
     /\ rows'[id].first = rows[id].first /\ rows'[id].content = rows[id].content
     /\ IF delete THEN rows'[id].removed ELSE rows'[id] = rows[id]
     /\ RowsOfMembers(rows, rows', g, c, DOMAIN Members[c])

\* The rows that members of a package are given.
LEMMA MemberRows ==
  ASSUME round \in Nat, round > 0, NEW g, FilePath(g), NEW c \in DOMAIN Members,
         NEW X, X \subseteq DOMAIN Members[c], NEW R \in Seq(SoundRows), NEW T,
         T = [i \in DOMAIN SetToSeq(X) |->
                LET n == SetToSeq(X)[i]
                IN NewRow(MemberPath(g, n), Members[c][n], "unpacking", g)]
  PROVE  /\ R \o T \in Seq(SoundRows) /\ DOMAIN R \subseteq DOMAIN (R \o T)
         /\ \A k \in DOMAIN R : (R \o T)[k] = R[k]
         /\ RowsOfMembers(R, R \o T, g, c, X)
<1> DEFINE names == SetToSeq(X)
           N == Cardinality(X)
           row(n) == NewRow(MemberPath(g, n), Members[c][n], "unpacking", g)
<1>1. /\ N \in Nat /\ DOMAIN names = 1..N
      /\ \A i \in 1..N : names[i] \in X
      /\ \A i, j \in 1..N : names[i] = names[j] => i = j
      /\ \A n \in X : \E i \in 1..N : names[i] = n
  <2>1. IsFiniteSet(X)
    BY MembersFacts, FS_Subset
  <2> QED
    BY <2>1, SetToSeqFacts
<1>2. T = [i \in 1..N |-> row(names[i])]
  BY <1>1
<1> HIDE DEF names, N
<1>3. ASSUME NEW n \in X
      PROVE  /\ row(n) \in SoundRows /\ row(n).loc = MemberPath(g, n)
             /\ MemberPath(g, n)[Len(g) + 1] = n
  <2>1. n \in Names /\ n.ext = 0 /\ Members[c][n] \in Content /\ g \in Path
    BY MembersFacts DEF FilePath
  <2>2. FilePath(MemberPath(g, n)) /\ MemberPath(g, n)[Len(g) + 1] = n
    BY <2>1, MemberPathFacts
  <2>3. row(n).loc = MemberPath(g, n)
    BY DEF NewRow
  <2> QED
    BY <2>1, <2>2, <2>3, NewRowSound
<1> HIDE DEF row
<1>4. DOMAIN T = 1..N /\ \A i \in 1..N : T[i] = row(names[i]) /\ T[i] \in SoundRows
  BY <1>1, <1>2, <1>3
<1>5. T \in Seq(SoundRows)
  <2>1. T = [i \in 1..N |-> T[i]]
    BY <1>2, <1>4
  <2> HIDE <1>2
  <2> QED
    BY ONLY <1>1, <1>4, <2>1
<1> DEFINE U == R \o T
<1>6. /\ U \in Seq(SoundRows) /\ DOMAIN R \subseteq DOMAIN U /\ \A k \in DOMAIN R : U[k] = R[k]
      /\ \A k \in DOMAIN U \ DOMAIN R : \E i \in DOMAIN T : U[k] = T[i] /\ k = Len(R) + i
      /\ \A i \in DOMAIN T : Len(R) + i \in DOMAIN U /\ U[Len(R) + i] = T[i] /\ Len(R) + i \notin DOMAIN R
  <2>1. R \in Seq(SoundRows)
    OBVIOUS
  <2> QED
    BY ONLY <1>5, <2>1, MoreRows
<1> HIDE DEF U
<1>7. \A k \in DOMAIN U \ DOMAIN R : \E n \in X : U[k] = row(n)
  BY ONLY <1>1, <1>4, <1>6
<1>8. ASSUME NEW n \in X
      PROVE  \E k \in DOMAIN U \ DOMAIN R : U[k].loc = MemberPath(g, n)
  <2>1. PICK i \in 1..N : names[i] = n
    BY <1>1
  <2> QED
    BY ONLY <1>3, <1>4, <1>6, <2>1, n \in X
<1>9. ASSUME NEW k \in DOMAIN U \ DOMAIN R, NEW l \in DOMAIN U \ DOMAIN R, U[k].loc = U[l].loc
      PROVE  k = l
  <2>1. PICK i \in DOMAIN T : U[k] = T[i] /\ k = Len(R) + i
    BY <1>6
  <2>2. PICK j \in DOMAIN T : U[l] = T[j] /\ l = Len(R) + j
    BY <1>6
  <2>3. MemberPath(g, names[i]) = MemberPath(g, names[j])
    BY ONLY <1>1, <1>3, <1>4, <1>9, <2>1, <2>2
  <2>4. names[i] = names[j]
    BY <1>1, <1>3, <1>4, <2>3
  <2> QED
    BY <1>1, <1>4, <2>1, <2>2, <2>4
<1> QED
  BY <1>6, <1>7, <1>8, <1>9 DEF U, RowsOfMembers, row

\* ExtractWorks is such a step.
LEMMA ExtractUnpacks ==
  ASSUME Types, script = "extract", stage = "work",
         NEW id \in DOMAIN rows, Live(id), Format(id) \in DOMAIN Members, ExtractWorks(id)
  PROVE  Unpacked(id)
<1> DEFINE g == rows[id].loc
           c == Format(id)
           S == DOMAIN Members[c]
           names == SetToSeq(S)
           T == [i \in DOMAIN names |->
                   LET n == names[i] IN NewRow(MemberPath(g, n), Members[c][n], "unpacking", g)]
           full == Extracted(id, S)
           new == {MemberPath(g, n) : n \in S}
           gone == Gone(rows, id)
           R == IF delete THEN gone ELSE rows
<1>1. /\ Present(g) /\ code' = -1 /\ UNCHANGED faults
      /\ disk' = IF delete THEN Restrict(full, DOMAIN full \ {g}) ELSE full
      /\ rows' = IF delete THEN gone \o T ELSE rows \o T
  BY DEF ExtractWorks, Unpacking, MemberPath, Gone
<1>2. round \in Nat /\ round > 0 /\ FilePath(g) /\ rows \in Seq(SoundRows) /\ DiskOK(disk) /\ delete \in BOOLEAN
  BY TableFacts DEF Types, Control, Tables
<1>3. /\ DiskOK(full) /\ DOMAIN full = DOMAIN disk \cup new
      /\ \A p \in DOMAIN disk \ new : full[p] = disk[p]
      /\ \A n \in S : full[MemberPath(g, n)] = Members[c][n]
  BY <1>2, ExtractedOK, ZenonT(60)
<1>4. g \notin new
  <2>1. ASSUME NEW n \in S PROVE MemberPath(g, n) # g
    <3>1. n \in Names /\ n.ext = 0
      BY MembersFacts
    <3>2. Len(MemberPath(g, n)) = Len(g) + 1 /\ Len(g) \in Nat
      BY <1>2, <3>1, MemberPathFacts, TargetFacts
    <3> QED
      BY <3>2
  <2> QED
    BY <2>1
<1>5. /\ R \in Seq(SoundRows) /\ DOMAIN R = DOMAIN rows
      /\ \A k \in DOMAIN rows : k # id => R[k] = rows[k]
      /\ R[id].first = rows[id].first /\ R[id].content = rows[id].content
      /\ IF delete THEN R[id].removed ELSE R[id] = rows[id]
  <2>1. CASE delete
    <3>1. /\ gone \in Seq(SoundRows) /\ DOMAIN gone = DOMAIN rows
          /\ gone[id].removed /\ gone[id].first = rows[id].first
          /\ gone[id].content = rows[id].content
          /\ \A k \in DOMAIN rows : k # id => gone[k] = rows[k]
      BY <1>2, RemovedFacts
    <3> HIDE DEF gone
    <3> QED
      BY <2>1, <3>1
  <2>2. CASE ~delete
    <3>1. R = rows
      BY <2>2
    <3> HIDE DEF R
    <3> QED
      BY <1>2, <2>2, <3>1
  <2> QED
    BY <2>1, <2>2
<1>6. rows' = R \o T
  BY <1>1
<1> HIDE DEF R
<1>7. /\ R \o T \in Seq(SoundRows) /\ DOMAIN R \subseteq DOMAIN (R \o T)
      /\ \A k \in DOMAIN R : (R \o T)[k] = R[k]
      /\ RowsOfMembers(R, R \o T, g, c, S)
  BY <1>2, <1>5, MemberRows
<1> HIDE DEF T
<1>8. RowsOfMembers(rows, rows', g, c, S)
  BY <1>5, <1>6, <1>7 DEF RowsOfMembers
<1>9. /\ DiskOK(disk')
      /\ DOMAIN disk' = (DOMAIN disk \cup new) \ (IF delete THEN {g} ELSE {})
      /\ \A p \in DOMAIN disk' : disk'[p] = full[p]
  <2> HIDE DEF full, new
  <2>1. CASE delete
    <3> DEFINE left == Restrict(full, DOMAIN full \ {g})
    <3>1. DiskOK(left) /\ DOMAIN left = DOMAIN full \ {g} /\ \A q \in DOMAIN left : left[q] = full[q]
      BY <1>3, RestrictOK
    <3>2. disk' = left
      BY <1>1, <2>1
    <3> HIDE DEF left
    <3> QED
      BY <1>3, <2>1, <3>1, <3>2
  <2>2. CASE ~delete
    BY <1>1, <1>3, <2>2
  <2> QED
    BY <2>1, <2>2
<1>10. \A p \in DOMAIN disk' \ new : disk'[p] = disk[p]
  BY <1>3, <1>9
<1>11. \A n \in S : MemberPath(g, n) \in DOMAIN disk' /\ disk'[MemberPath(g, n)] = Members[c][n]
  BY <1>3, <1>4, <1>9
<1>12. /\ rows' \in Seq(SoundRows) /\ DOMAIN rows \subseteq DOMAIN rows'
       /\ \A k \in DOMAIN rows : k # id => rows'[k] = rows[k]
       /\ rows'[id].first = rows[id].first /\ rows'[id].content = rows[id].content
       /\ IF delete THEN rows'[id].removed ELSE rows'[id] = rows[id]
  BY <1>5, <1>6, <1>7
<1> QED
  BY <1>1, <1>8, <1>9, <1>10, <1>11, <1>12 DEF Unpacked

\* What a chunk of assign_file_uuids does.
Assigned(chunk) ==
  /\ chunk \subseteq todo /\ todo' = todo \ chunk
  /\ rows' \in Seq(SoundRows) /\ DOMAIN rows \subseteq DOMAIN rows'
  /\ \A k \in DOMAIN rows : rows'[k] = rows[k]
  /\ \A k \in DOMAIN rows' \ DOMAIN rows :
       \E p \in chunk : rows'[k] = NewRow(p, disk[p], "ingestion", NoFile)
  /\ \A p \in chunk : \E k \in DOMAIN rows' \ DOMAIN rows : rows'[k].loc = p
  /\ \A k, l \in DOMAIN rows' \ DOMAIN rows : rows'[k].loc = rows'[l].loc => k = l
  /\ saved' = rows'
  /\ UNCHANGED <<script, stage, tasks, index, code, delete, disk, round, faults>>

\* AssignChunk is such a step, or the end of the job.
LEMMA AssignChunkAssigns ==
  ASSUME Types, AssignChunk, todo # {}
  PROVE  \E chunk \in SUBSET todo : Assigned(chunk)
<1>1. script = "assign" /\ stage = "work"
  BY DEF AssignChunk
<1>2. PICK chunk \in SUBSET todo :
        LET files == SetToSeq(chunk)
        IN /\ rows' = rows \o [i \in DOMAIN files |->
                                 NewRow(files[i], disk[files[i]], "ingestion", NoFile)]
           /\ saved' = rows'
           /\ todo' = todo \ chunk
           /\ UNCHANGED <<script, stage, tasks, index, code>>
  BY DEF AssignChunk
<1> DEFINE files == SetToSeq(chunk)
           N == Cardinality(chunk)
           row(p) == NewRow(p, disk[p], "ingestion", NoFile)
           T == [i \in DOMAIN files |-> row(files[i])]
<1>3. todo \subseteq DOMAIN disk
  BY <1>1 DEF Types, TodoType
<1>4. IsFiniteSet(chunk)
  BY <1>3, FS_Subset DEF Types, DiskOK
<1>5. /\ N \in Nat /\ DOMAIN files = 1..N
      /\ \A i \in 1..N : files[i] \in chunk
      /\ \A i, j \in 1..N : files[i] = files[j] => i = j
      /\ \A p \in chunk : \E i \in 1..N : files[i] = p
  BY <1>4, SetToSeqFacts
<1>6. T = [i \in 1..N |-> row(files[i])] /\ rows' = rows \o T
  BY <1>2, <1>5
<1> HIDE DEF files, N
<1>7. ASSUME NEW p \in chunk PROVE row(p) \in SoundRows /\ row(p).loc = p
  <2>1. FilePath(p) /\ disk[p] \in Content
    BY <1>3 DEF Types, DiskOK
  <2>2. NoFile \in Path
    BY EmptySeq DEF NoFile, Path
  <2>3. row(p).loc = p
    BY DEF NewRow
  <2> QED
    BY <2>1, <2>2, <2>3, NewRowSound
<1> HIDE DEF row
<1>8. DOMAIN T = 1..N /\ \A i \in 1..N : T[i] = row(files[i]) /\ T[i] \in SoundRows
  BY <1>5, <1>6, <1>7
<1>9. T = [i \in 1..N |-> T[i]]
  BY <1>6, <1>8
<1> HIDE DEF T
<1>10. T \in Seq(SoundRows)
  BY ONLY <1>5, <1>8, <1>9
<1>11. rows \in Seq(SoundRows)
  BY DEF Types, Tables
<1> DEFINE U == rows \o T
<1>12. /\ U \in Seq(SoundRows) /\ DOMAIN rows \subseteq DOMAIN U /\ \A k \in DOMAIN rows : U[k] = rows[k]
       /\ \A k \in DOMAIN U \ DOMAIN rows : \E i \in DOMAIN T : U[k] = T[i] /\ k = Len(rows) + i
       /\ \A i \in DOMAIN T : Len(rows) + i \in DOMAIN U /\ U[Len(rows) + i] = T[i]
                              /\ Len(rows) + i \notin DOMAIN rows
  BY ONLY <1>10, <1>11, MoreRows
<1> HIDE DEF U
<1>13. \A k \in DOMAIN U \ DOMAIN rows : \E p \in chunk : U[k] = row(p)
  BY ONLY <1>5, <1>8, <1>12
<1>14. ASSUME NEW p \in chunk PROVE \E k \in DOMAIN U \ DOMAIN rows : U[k].loc = p
  <2>1. PICK i \in 1..N : files[i] = p
    BY <1>5
  <2> QED
    BY ONLY <1>7, <1>8, <1>12, <2>1, p \in chunk
<1>15. ASSUME NEW k \in DOMAIN U \ DOMAIN rows, NEW l \in DOMAIN U \ DOMAIN rows, U[k].loc = U[l].loc
       PROVE  k = l
  <2>1. PICK i \in DOMAIN T : U[k] = T[i] /\ k = Len(rows) + i
    BY <1>12
  <2>2. PICK j \in DOMAIN T : U[l] = T[j] /\ l = Len(rows) + j
    BY <1>12
  <2>3. files[i] = files[j]
    BY ONLY <1>5, <1>7, <1>8, <1>15, <2>1, <2>2
  <2> QED
    BY <1>5, <1>8, <2>1, <2>2, <2>3
<1>16. rows' = U
  BY <1>6 DEF U
<1>17. UNCHANGED <<script, stage, tasks, index, code, delete, disk, round, faults>>
  BY <1>2 DEF AssignChunk
<1>18. todo' = todo \ chunk /\ saved' = rows'
  BY <1>2
<1>19. Assigned(chunk)
  BY <1>12, <1>13, <1>14, <1>15, <1>16, <1>17, <1>18 DEF Assigned, row
<1> QED
  BY <1>19

\* What a script that has started has before it.
LEMMA StartFacts ==
  ASSUME Types, NEW S, Start(S)
  PROVE  /\ stage' = "work" /\ todo' = S /\ code' = 0 /\ saved' = rows
         /\ rows' = rows /\ disk' = disk /\ index' = index /\ script' = script
         /\ DiskOK(disk') /\ Tables' /\ IndexType(index')
         /\ (round' = round /\ script # "extract") \/ round' = round + 1 => Control'
<1>1. /\ stage' = "work" /\ todo' = S /\ code' = 0 /\ saved' = rows
      /\ UNCHANGED <<script, delete, disk, rows, index, faults>>
  BY DEF Start
<1>2. round \in Nat => round + 1 \in Nat /\ round + 1 > 0
  OBVIOUS
<1> QED
  BY <1>1, <1>2 DEF Types, Tables, Control

\* The types survive the start of a script.
LEMMA StartTypes ==
  ASSUME Types,
         StartHidden \/ StartPerFile \/ StartAssign \/ StartNames \/ StartExtract \/ StartSIP
  PROVE  Types'
<1>1. CASE StartHidden
  <2>1. PICK S : Start(S) /\ script = "hidden" /\ UNCHANGED <<tasks, round>>
    BY <1>1 DEF StartHidden
  <2> QED
    BY <2>1, StartFacts DEF Types, TodoType, TasksType, Walks, PerFile
<1>2. CASE StartPerFile
  <2>1. /\ script \in PerFile /\ UNCHANGED round
        /\ \E T \in IF tasks = {} THEN TaskSets(script = "linking") ELSE {tasks} :
             Start(T) /\ tasks' = T
    BY <1>2 DEF StartPerFile, PerFile
  <2>2. PICK T \in IF tasks = {} THEN TaskSets(script = "linking") ELSE {tasks} :
               Start(T) /\ tasks' = T
    BY <2>1
  <2>3. \A t \in T : t[1] # 0 => t[1] \in DOMAIN rows
    <3>1. CASE tasks = {}
      <4>1. T \in TaskSets(script = "linking")
        BY <2>2, <3>1
      <4> QED
        BY <4>1, TaskFacts DEF Listing
    <3>2. CASE tasks # {}
      <4>1. T = tasks
        BY <2>2, <3>2
      <4> QED
        BY <4>1, <2>1 DEF Types, TasksType
    <3> QED
      BY <3>1, <3>2
  <2>4. TasksType' /\ TodoType'
    BY <2>1, <2>2, <2>3, StartFacts DEF TasksType, TodoType, PerFile, Walks
  <2> QED
    BY <2>1, <2>2, <2>4, StartFacts DEF Types, PerFile
<1>3. CASE StartAssign
  <2>1. script = "assign" /\ Start(DOMAIN disk) /\ UNCHANGED <<tasks, round>>
    BY <1>3 DEF StartAssign
  <2> QED
    BY <2>1, StartFacts DEF Types, TodoType, TasksType, Walks, PerFile
<1>4. CASE StartNames
  <2>1. script \in Walks /\ Start(Children(<<>>, <<>>)) /\ UNCHANGED <<tasks, round>>
    BY <1>4 DEF StartNames, Children, Entries, Walks
  <2>2. <<>> \in Path /\ DiskType
    BY EmptySeq, TableFacts DEF Path
  <2>3. \A e \in Children(<<>>, <<>>) : Entry(e)
    BY <2>2, ChildrenFacts
  <2>4. TodoType' /\ TasksType'
    BY <2>1, <2>3, StartFacts DEF TodoType, TasksType, Walks, PerFile
  <2> QED
    BY <2>1, <2>4, StartFacts DEF Types, Walks
<1>5. CASE StartExtract
  <2>1. /\ script = "extract" /\ Start({id \in DOMAIN rows : Live(id)})
        /\ round' = round + 1 /\ UNCHANGED tasks
    BY <1>5 DEF StartExtract
  <2>2. TodoType' /\ TasksType'
    BY <2>1, StartFacts DEF TodoType, TasksType, Walks, PerFile, Live
  <2> QED
    BY <2>1, <2>2, StartFacts DEF Types
<1>6. CASE StartSIP
  <2>1. script = "sip" /\ Start({"rows"}) /\ UNCHANGED <<tasks, round>>
    BY <1>6 DEF StartSIP
  <2> QED
    BY <2>1, StartFacts DEF Types, TodoType, TasksType, Walks, PerFile
<1> QED
  BY <1>1, <1>2, <1>3, <1>4, <1>5, <1>6

\* The types survive the end of a job.
LEMMA FinishTypes ==
  ASSUME Types, script \in Scripts, NEW c, Finish(c), DiskOK(disk'), Tables',
         UNCHANGED <<delete, round>>, faults' \in 0..MaxFaults
  PROVE  Types'
<1>1. Control'
  BY FinishFacts DEF Types, Control
<1>2. TodoType' /\ TasksType' /\ IndexType(index')
  BY FinishFacts DEF TodoType, TasksType
<1> QED
  BY <1>1, <1>2 DEF Types

\* The types survive the removal of hidden files.
LEMMA HiddenTypes ==
  ASSUME Types, RemoveHidden
  PROVE  Types'
<1>1. script = "hidden" /\ stage = "work" /\ UNCHANGED <<delete, rows, saved, round, faults>>
  BY DEF RemoveHidden
<1>2. Tables'
  BY <1>1 DEF Types, Tables
<1>3. CASE todo = {}
  <2>1. Finish(0) /\ disk' = disk
    BY <1>3 DEF RemoveHidden
  <2> QED
    BY <1>1, <1>2, <2>1, FinishTypes DEF Types, Control, Scripts
<1>4. CASE todo # {}
  <2>1. PICK p \in todo : /\ disk' = Restrict(disk, DOMAIN disk \ {p})
                          /\ UNCHANGED <<script, stage, tasks, index, code>>
    BY <1>4 DEF RemoveHidden
  <2>2. DiskOK(disk')
    BY <2>1, RestrictOK DEF Types
  <2> QED
    BY <1>1, <1>2, <2>1, <2>2 DEF Types, Control, TodoType, TasksType, Walks, PerFile
<1> QED
  BY <1>3, <1>4

\* A task of remove_unneeded_files or remove_files_without_premis_metadata.
TaskDone(t) ==
  /\ t \in todo /\ todo' = todo \ {t}
  /\ code' \in {code, 1}
  /\ UNCHANGED <<script, stage, tasks, index, delete, saved, round, faults>>
  /\ \/ UNCHANGED <<disk, rows>>
     \/ /\ Present(t[3]) /\ disk' = Restrict(disk, DOMAIN disk \ {t[3]})
        /\ \/ t[1] = 0 /\ UNCHANGED rows
           \/ script # "linking" /\ t[1] # 0 /\ rows' = Gone(rows, t[1])

\* RemoveUnneeded is such a step, or the end of the job.
LEMMA UnneededTask ==
  ASSUME RemoveUnneeded, todo # {}
  PROVE  \E t \in todo : TaskDone(t) /\ (disk' # disk => t[3] # NoFile /\ t[3][Len(t[3])].base \in Removable)
<1>1. /\ script \in {"unneeded", "unneeded2"} /\ UNCHANGED <<delete, saved, round, faults>>
  BY DEF RemoveUnneeded
<1>2. PICK t \in todo :
        LET p == t[3]
        IN IF p = NoFile \/ ~Unneeded(p[Len(p)])
           THEN /\ todo' = todo \ {t}
                /\ UNCHANGED <<script, stage, tasks, index, code, disk, rows>>
           ELSE IF Present(p)
           THEN /\ todo' = todo \ {t}
                /\ disk' = Restrict(disk, DOMAIN disk \ {p})
                /\ IF t[1] = 0 THEN UNCHANGED rows ELSE rows' = Gone(rows, t[1])
                /\ UNCHANGED <<script, stage, tasks, index, code>>
           ELSE TaskFails(t)
  BY DEF RemoveUnneeded, Removed, Gone
<1>3. CASE t[3] = NoFile \/ ~Unneeded(t[3][Len(t[3])])
  BY <1>1, <1>2, <1>3 DEF TaskDone
<1>4. CASE t[3] # NoFile /\ Unneeded(t[3][Len(t[3])]) /\ Present(t[3])
  BY <1>1, <1>2, <1>4 DEF TaskDone, Unneeded
<1>5. CASE t[3] # NoFile /\ Unneeded(t[3][Len(t[3])]) /\ ~Present(t[3])
  BY <1>1, <1>2, <1>5 DEF TaskDone, TaskFails
<1> QED
  BY <1>3, <1>4, <1>5

\* RemoveUnlinked is such a step, or the end of the job.
LEMMA UnlinkedTask ==
  ASSUME RemoveUnlinked, todo # {}
  PROVE  \E t \in todo : TaskDone(t)
<1>1. script = "linking" /\ UNCHANGED <<delete, saved, round, faults>>
  BY DEF RemoveUnlinked
<1>2. PICK t \in todo :
            IF t[1] # 0
            THEN /\ todo' = todo \ {t}
                 /\ UNCHANGED <<script, stage, tasks, index, code, disk, rows>>
            ELSE IF Present(t[3])
            THEN /\ todo' = todo \ {t}
                 /\ disk' = Restrict(disk, DOMAIN disk \ {t[3]})
                 /\ UNCHANGED <<script, stage, tasks, index, code, rows>>
            ELSE TaskFails(t)
  BY DEF RemoveUnlinked
<1>3. CASE t[1] # 0
  BY <1>1, <1>2, <1>3 DEF TaskDone
<1>4. CASE t[1] = 0 /\ Present(t[3])
  BY <1>1, <1>2, <1>4 DEF TaskDone
<1>5. CASE t[1] = 0 /\ ~Present(t[3])
  BY <1>1, <1>2, <1>5 DEF TaskDone, TaskFails
<1> QED
  BY <1>3, <1>4, <1>5

\* The types survive a task.
LEMMA TaskTypes ==
  ASSUME Types, script \in PerFile, stage = "work", NEW t \in todo, TaskDone(t)
  PROVE  Types' /\ DOMAIN rows' = DOMAIN rows
<1>1. /\ t \in tasks /\ todo \subseteq tasks /\ DOMAIN saved = DOMAIN rows
      /\ \A x \in tasks : x[1] # 0 => x[1] \in DOMAIN rows
  BY DEF Types, TasksType
<1>2. /\ todo' = todo \ {t} /\ code' \in {code, 1}
      /\ UNCHANGED <<script, stage, tasks, index, delete, saved, round, faults>>
  BY DEF TaskDone
<1>3. DiskOK(disk')
  <2>1. disk' = disk \/ disk' = Restrict(disk, DOMAIN disk \ {t[3]})
    BY DEF TaskDone
  <2>2. DiskOK(disk)
    BY DEF Types
  <2>3. DiskOK(Restrict(disk, DOMAIN disk \ {t[3]}))
    BY <2>2, RestrictOK
  <2> QED
    BY <2>1, <2>2, <2>3
<1>4. Tables' /\ DOMAIN rows' = DOMAIN rows
  <2>1. rows' = rows \/ (t[1] # 0 /\ rows' = Gone(rows, t[1]))
    BY DEF TaskDone
  <2>2. CASE rows' = rows
    BY <1>2, <2>2 DEF Types, Tables
  <2>3. CASE t[1] # 0 /\ rows' = Gone(rows, t[1])
    <3>1. rows \in Seq(SoundRows) /\ t[1] \in DOMAIN rows
      BY <1>1, <2>3 DEF Types, Tables
    <3>2. rows' \in Seq(SoundRows) /\ DOMAIN rows' = DOMAIN rows
      BY <3>1, <2>3, RemovedFacts
    <3> QED
      BY <1>2, <3>2 DEF Types, Tables
  <2> QED
    BY <2>1, <2>2, <2>3
<1>5. TodoType' /\ TasksType'
  BY <1>1, <1>2, <1>4 DEF TodoType, TasksType, Walks, PerFile
<1> QED
  BY <1>2, <1>3, <1>4, <1>5 DEF Types, Control

\* The types survive the scripts that run once per file.
LEMMA PerFileTypes ==
  ASSUME Types, RemoveUnneeded \/ RemoveUnlinked
  PROVE  Types'
<1>1. script \in PerFile /\ stage = "work" /\ UNCHANGED <<delete, saved, round, faults>>
  BY DEF RemoveUnneeded, RemoveUnlinked, PerFile
<1>2. CASE todo = {}
  <2>1. PICK c : Finish(c) /\ UNCHANGED <<disk, rows>>
    BY <1>2 DEF RemoveUnneeded, RemoveUnlinked
  <2> QED
    BY <1>1, <2>1, FinishTypes DEF Types, Control, Tables, Scripts, PerFile
<1>3. CASE todo # {}
  <2>1. PICK t \in todo : TaskDone(t)
    BY <1>3, UnneededTask, UnlinkedTask
  <2> QED
    BY <1>1, <2>1, TaskTypes
<1> QED
  BY <1>2, <1>3

\* The types survive the assignment of UUIDs.
LEMMA AssignTypes ==
  ASSUME Types, AssignChunk
  PROVE  Types'
<1>1. script = "assign" /\ stage = "work" /\ UNCHANGED <<delete, disk, round, faults>>
  BY DEF AssignChunk
<1>2. CASE todo = {}
  <2>1. Finish(0) /\ UNCHANGED <<rows, saved>>
    BY <1>2 DEF AssignChunk
  <2> QED
    BY <1>1, <2>1, FinishTypes DEF Types, Control, Tables, Scripts
<1>3. CASE todo # {}
  <2>1. PICK chunk \in SUBSET todo : Assigned(chunk)
    BY <1>3, AssignChunkAssigns
  <2>2. /\ rows' \in Seq(SoundRows) /\ saved' = rows' /\ todo' = todo \ chunk
        /\ UNCHANGED <<script, stage, tasks, index, code, delete, disk, round, faults>>
    BY <2>1 DEF Assigned
  <2> QED
    BY <1>1, <2>2 DEF Types, Control, Tables, TodoType, TasksType, Walks, PerFile
<1> QED
  BY <1>2, <1>3

\* The types survive a step of the walk, and its end.
LEMMA WalkTypes ==
  ASSUME Types, ChangeName \/ ChangeNamesEnd
  PROVE  Types'
<1>1. script \in Walks /\ stage = "work" /\ UNCHANGED <<delete, saved, round, faults>>
  BY DEF ChangeName, ChangeNamesEnd, Walks
<1>2. CASE ChangeNamesEnd
  <2>1. rows' = FileUpdates(index) /\ Finish(0) /\ disk' = disk
    BY <1>2 DEF ChangeNamesEnd
  <2>2. rows' \in Seq(SoundRows)
    BY <2>1, FileUpdatesFacts DEF Types, Tables
  <2> QED
    BY <1>1, <2>1, <2>2, FinishTypes DEF Types, Control, Tables, Scripts, Walks
<1>3. CASE ChangeName
  <2>1. PICK e \in todo : \E new \in Path : Walked(e, new)
    BY <1>3, ChangeNameWalks
  <2>2. PICK new \in Path : Walked(e, new)
    BY <2>1
  <2> DEFINE ix == Noted(e[1], new, ~Present(e[2]))
  <2>3. /\ Entry(e) /\ DiskOK(disk') /\ IndexType(ix)
        /\ todo' = (todo \ {e}) \cup
                     {<<Append(e[1], q[Len(e[2]) + 1]), Append(new, q[Len(e[2]) + 1])>> :
                        q \in {r \in DOMAIN disk : IsStrictPrefix(e[2], r)}}
        /\ \/ rows' = FileUpdates(ix) /\ index' = <<>>
           \/ index' = ix /\ rows' = rows
        /\ UNCHANGED <<script, stage, tasks, code, saved, delete, round, faults>>
    BY <2>2 DEF Walked
  <2> HIDE DEF ix
  <2>4. Tables' /\ IndexType(index')
    <3>1. IndexType(<<>>)
      BY DEF IndexType
    <3>2. FileUpdates(ix) \in Seq(SoundRows)
      BY <2>3, FileUpdatesFacts DEF Types, Tables
    <3> QED
      BY <2>3, <3>1, <3>2 DEF Types, Tables
  <2>5. \A f \in todo' : Entry(f)
    <3>1. \A f \in todo : Entry(f)
      BY <1>1 DEF Types, TodoType
    <3>2. ASSUME NEW q \in DOMAIN disk, IsStrictPrefix(e[2], q)
          PROVE  Entry(<<Append(e[1], q[Len(e[2]) + 1]), Append(new, q[Len(e[2]) + 1])>>)
      <4>1. e[1] \in Path /\ e[2] \in Path /\ q \in Path
        BY <2>3 DEF Entry, Types, DiskOK, FilePath
      <4>2. q[Len(e[2]) + 1] \in Names
        BY <3>2, <4>1, BelowFacts
      <4> QED
        BY <4>1, <4>2, OneMoreName DEF Entry
    <3> QED
      BY <2>3, <3>1, <3>2
  <2> QED
    BY <1>1, <2>3, <2>4, <2>5 DEF Types, Control, TodoType, TasksType, Walks, PerFile
<1> QED
  BY <1>2, <1>3

\* What Extract does with row id when it is not the end of the job.
ExtractDone(id) ==
  /\ id \in todo /\ todo' = todo \ {id} /\ id \in DOMAIN rows /\ Live(id)
  /\ UNCHANGED <<script, stage, tasks, index, delete, saved, round>>
  /\ \/ UNCHANGED <<disk, rows, code, faults>>
     \/ /\ Format(id) \in DOMAIN Members /\ ~AlreadyExtracted(id)
        /\ \/ ExtractFails(id)
           \/ Unpacked(id)

\* Extract is such a step, or the end of the job.
LEMMA ExtractStep ==
  ASSUME Types, Extract, todo # {}
  PROVE  \E id \in todo : ExtractDone(id)
<1>1. script = "extract" /\ stage = "work" /\ UNCHANGED <<delete, saved, round>>
  BY DEF Extract
<1>2. PICK id \in todo :
            /\ todo' = todo \ {id}
            /\ IF IsExtractable(id) /\ ~AlreadyExtracted(id)
               THEN ExtractFails(id) \/ ExtractWorks(id)
               ELSE UNCHANGED <<disk, rows, code, faults>>
            /\ UNCHANGED <<script, stage, tasks, index>>
  BY DEF Extract
<1>3. id \in DOMAIN rows /\ Live(id)
  BY <1>1 DEF Types, TodoType
<1>4. CASE IsExtractable(id) /\ ~AlreadyExtracted(id)
  <2>1. Format(id) \in DOMAIN Members
    BY <1>4 DEF IsExtractable
  <2>2. ExtractWorks(id) => Unpacked(id)
    BY <1>1, <1>3, <2>1, ExtractUnpacks
  <2> QED
    BY <1>1, <1>2, <1>3, <1>4, <2>1, <2>2 DEF ExtractDone
<1>5. CASE ~(IsExtractable(id) /\ ~AlreadyExtracted(id))
  BY <1>1, <1>2, <1>3, <1>5 DEF ExtractDone
<1> QED
  BY <1>4, <1>5

\* What a failing extraction command leaves.
LEMMA ExtractFailsFacts ==
  ASSUME Types, script = "extract", stage = "work", NEW id \in DOMAIN rows, Live(id), Format(id) \in DOMAIN Members,
         ExtractFails(id)
  PROVE  /\ UNCHANGED <<rows, code>> /\ faults' \in 0..MaxFaults /\ DiskOK(disk')
         /\ \/ ~Present(rows[id].loc) /\ UNCHANGED <<disk, faults>>
            \/ /\ Present(rows[id].loc) /\ faults' = faults + 1
               /\ \E S \in SUBSET DOMAIN Members[Format(id)] :
                    LET new == {MemberPath(rows[id].loc, n) : n \in S}
                    IN /\ DOMAIN disk' = DOMAIN disk \cup new
                       /\ \A p \in DOMAIN disk \ new : disk'[p] = disk[p]
                       /\ \A n \in S : disk'[MemberPath(rows[id].loc, n)]
                                         = Members[Format(id)][n]
<1>1. UNCHANGED <<rows, code>>
  BY DEF ExtractFails
<1>2. FilePath(rows[id].loc) /\ round \in Nat /\ round > 0 /\ DiskOK(disk) /\ faults \in 0..MaxFaults
  BY TableFacts DEF Types, Control
<1>3. CASE ~Present(rows[id].loc)
  BY <1>1, <1>2, <1>3 DEF ExtractFails
<1>4. CASE Present(rows[id].loc)
  <2>1. Goes("partial")
    BY <1>4 DEF ExtractFails
  <2>2. PICK S \in SUBSET DOMAIN Members[Format(id)] : disk' = Extracted(id, S)
    BY <1>4 DEF ExtractFails
  <2>3. faults' = faults + 1 /\ faults' \in 0..MaxFaults
    <3>1. faults < MaxFaults /\ faults' = faults + 1 /\ MaxFaults \in Nat
      BY <2>1, PackageFilesAssumption DEF Goes
    <3> QED
      BY <1>2, <3>1
  <2> DEFINE e == Extracted(id, S)
             new == {MemberPath(rows[id].loc, n) : n \in S}
  <2>4. /\ DiskOK(e) /\ DOMAIN e = DOMAIN disk \cup new
        /\ \A p \in DOMAIN disk \ new : e[p] = disk[p]
        /\ \A n \in S : e[MemberPath(rows[id].loc, n)] = Members[Format(id)][n]
    BY <1>2, ExtractedOK
  <2>5. disk' = e
    BY <2>2
  <2> HIDE DEF e
  <2> QED
    BY <1>1, <1>4, <2>3, <2>4, <2>5
<1> QED
  BY <1>3, <1>4

\* What is left of an extraction that is cut off, with the files S of the
\* package on disk and rows for those in X.
CutOff(id, S, X) ==
  LET g == rows[id].loc
      c == Format(id)
      new == {MemberPath(g, n) : n \in S}
  IN /\ id \in todo /\ id \in DOMAIN rows /\ Live(id) /\ Present(g) /\ c \in DOMAIN Members
     /\ S \subseteq DOMAIN Members[c] /\ X \subseteq S
     /\ DiskOK(disk') /\ DOMAIN disk' \subseteq DOMAIN disk \cup new
     /\ (DOMAIN disk \cup new) \ {g} \subseteq DOMAIN disk' /\ new \subseteq DOMAIN disk'
     /\ g \in DOMAIN disk' \/ (delete /\ S = DOMAIN Members[c])
     /\ \A p \in DOMAIN disk' \ new : disk'[p] = disk[p]
     /\ \A n \in S : disk'[MemberPath(g, n)] = Members[c][n]
     /\ faults < MaxFaults /\ faults' = faults + 1
     /\ UNCHANGED <<delete, saved, round>>
     /\ \/ /\ stage' = "begin" /\ rows' = saved /\ todo' = {} /\ index' = <<>> /\ code' = 0
           /\ UNCHANGED <<script, tasks>>
        \/ /\ Finish(1)
           /\ rows' \in Seq(SoundRows) /\ DOMAIN rows \subseteq DOMAIN rows'
           /\ \A k \in DOMAIN rows : rows'[k] = rows[k]
           /\ RowsOfMembers(rows, rows', g, c, X)

\* ExtractCutOff is such a step.
LEMMA ExtractCutsOff ==
  ASSUME Types, ExtractCutOff
  PROVE  \E id \in todo : \E S, X : CutOff(id, S, X)
<1>1. /\ script = "extract" /\ stage = "work" /\ UNCHANGED <<delete, saved, round>>
      /\ \E id \in todo :
           LET g     == rows[id].loc
               files == DOMAIN Members[Format(id)]
           IN /\ IsExtractable(id) /\ ~AlreadyExtracted(id) /\ Present(g)
              /\ \E S, X \in SUBSET files, gone \in BOOLEAN :
                   LET d == Extracted(id, S)
                   IN /\ X # {} => S = files
                      /\ gone => delete /\ X = files
                      /\ disk' = IF gone THEN Restrict(d, DOMAIN d \ {g}) ELSE d
                      /\ \/ /\ Goes("crash")
                            /\ stage' = "begin" /\ rows' = saved
                            /\ todo' = {} /\ index' = <<>> /\ code' = 0
                            /\ UNCHANGED <<script, tasks>>
                         \/ /\ Goes("raise")
                            /\ rows' = rows \o Unpacking(id, X)
                            /\ Finish(1)
  BY DEF ExtractCutOff
<1>2. PICK id \in todo :
           LET g     == rows[id].loc
               files == DOMAIN Members[Format(id)]
           IN /\ IsExtractable(id) /\ ~AlreadyExtracted(id) /\ Present(g)
              /\ \E S, X \in SUBSET files, gone \in BOOLEAN :
                   LET d == Extracted(id, S)
                   IN /\ X # {} => S = files
                      /\ gone => delete /\ X = files
                      /\ disk' = IF gone THEN Restrict(d, DOMAIN d \ {g}) ELSE d
                      /\ \/ /\ Goes("crash")
                            /\ stage' = "begin" /\ rows' = saved
                            /\ todo' = {} /\ index' = <<>> /\ code' = 0
                            /\ UNCHANGED <<script, tasks>>
                         \/ /\ Goes("raise")
                            /\ rows' = rows \o Unpacking(id, X)
                            /\ Finish(1)
  BY <1>1
<1> DEFINE g == rows[id].loc
           c == Format(id)
           files == DOMAIN Members[c]
<1>3. PICK S \in SUBSET files, X \in SUBSET files, gone \in BOOLEAN :
                      /\ X # {} => S = files
                      /\ gone => delete /\ X = files
                      /\ disk' = IF gone THEN Restrict(Extracted(id, S), DOMAIN Extracted(id, S) \ {g})
                                 ELSE Extracted(id, S)
                      /\ \/ /\ Goes("crash")
                            /\ stage' = "begin" /\ rows' = saved
                            /\ todo' = {} /\ index' = <<>> /\ code' = 0
                            /\ UNCHANGED <<script, tasks>>
                         \/ /\ Goes("raise")
                            /\ rows' = rows \o Unpacking(id, X)
                            /\ Finish(1)
  BY <1>2
<1> DEFINE full == Extracted(id, S)
           new == {MemberPath(g, n) : n \in S}
<1>4. Present(g) /\ c \in DOMAIN Members
  BY <1>2 DEF IsExtractable
<1>5. id \in DOMAIN rows /\ Live(id)
  BY <1>1 DEF Types, TodoType
<1>6. /\ round \in Nat /\ round > 0 /\ FilePath(g) /\ rows \in Seq(SoundRows) /\ DiskOK(disk)
      /\ delete \in BOOLEAN
  BY <1>1, <1>5, TableFacts DEF Types, Control, Tables
<1>7. /\ DiskOK(full) /\ DOMAIN full = DOMAIN disk \cup new
      /\ \A p \in DOMAIN disk \ new : full[p] = disk[p]
      /\ \A n \in S : full[MemberPath(g, n)] = Members[c][n]
  BY <1>4, <1>5, <1>6, ExtractedOK, ZenonT(60)
<1>8. g \notin new
  <2>1. ASSUME NEW n \in S PROVE MemberPath(g, n) # g
    <3>1. n \in Names /\ n.ext = 0
      BY <1>4, MembersFacts
    <3>2. Len(MemberPath(g, n)) = Len(g) + 1 /\ Len(g) \in Nat
      BY <1>6, <3>1, MemberPathFacts, TargetFacts
    <3> QED
      BY <3>2
  <2> QED
    BY <2>1
<1>9. faults < MaxFaults /\ faults' = faults + 1
  BY <1>3 DEF Goes
<1>10. /\ DiskOK(disk') /\ \A p \in DOMAIN disk' : disk'[p] = full[p]
       /\ DOMAIN disk' = (DOMAIN disk \cup new) \ (IF gone THEN {g} ELSE {})
  <2>0. disk' = IF gone THEN Restrict(full, DOMAIN full \ {g}) ELSE full
    BY <1>3
  <2> HIDE DEF full, new
  <2>1. CASE gone
    <3> DEFINE left == Restrict(full, DOMAIN full \ {g})
    <3>1. DiskOK(left) /\ DOMAIN left = DOMAIN full \ {g} /\ \A q \in DOMAIN left : left[q] = full[q]
      BY <1>7, RestrictOK
    <3>2. disk' = left
      BY <2>0, <2>1
    <3> HIDE DEF left
    <3> QED
      BY <1>7, <2>1, <3>1, <3>2
  <2>2. CASE ~gone
    BY <1>7, <2>0, <2>2
  <2> QED
    BY <2>1, <2>2
<1>11. X \subseteq S /\ (gone => delete /\ S = files)
  BY <1>3
<1>12. /\ DOMAIN disk' \subseteq DOMAIN disk \cup new
       /\ (DOMAIN disk \cup new) \ {g} \subseteq DOMAIN disk' /\ new \subseteq DOMAIN disk'
       /\ g \in DOMAIN disk' \/ (delete /\ S = files)
       /\ \A p \in DOMAIN disk' \ new : disk'[p] = disk[p]
       /\ \A n \in S : disk'[MemberPath(g, n)] = Members[c][n]
  <2>1. /\ DOMAIN disk' \subseteq DOMAIN disk \cup new
        /\ (DOMAIN disk \cup new) \ {g} \subseteq DOMAIN disk' /\ new \subseteq DOMAIN disk'
        /\ \A p \in DOMAIN disk' \ new : disk'[p] = disk[p]
    <3> HIDE DEF full, new, g
    <3> QED
      BY <1>7, <1>8, <1>10
  <2>2. g \in DOMAIN disk' \/ (delete /\ S = files)
    BY <1>4, <1>10, <1>11 DEF Present
  <2>3. \A n \in S : disk'[MemberPath(g, n)] = Members[c][n]
    BY <1>7, <1>10, <2>1
  <2> QED
    BY <2>1, <2>2, <2>3
<1>13. ASSUME rows' = rows \o Unpacking(id, X)
       PROVE  /\ rows' \in Seq(SoundRows) /\ DOMAIN rows \subseteq DOMAIN rows'
              /\ \A k \in DOMAIN rows : rows'[k] = rows[k]
              /\ RowsOfMembers(rows, rows', g, c, X)
  <2> DEFINE T == Unpacking(id, X)
  <2>1. T = [i \in DOMAIN SetToSeq(X) |->
               LET n == SetToSeq(X)[i] IN NewRow(MemberPath(g, n), Members[c][n], "unpacking", g)]
    BY DEF Unpacking, MemberPath
  <2> HIDE DEF T
  <2>2. /\ rows \o T \in Seq(SoundRows) /\ DOMAIN rows \subseteq DOMAIN (rows \o T)
        /\ \A k \in DOMAIN rows : (rows \o T)[k] = rows[k]
        /\ RowsOfMembers(rows, rows \o T, g, c, X)
    <3> HIDE DEF g, c
    <3>1. X \subseteq DOMAIN Members[c]
      OBVIOUS
    <3> QED
      BY <1>4, <1>6, <2>1, <3>1, MemberRows
  <2>3. rows' = rows \o T
    BY <1>13 DEF T
  <2> QED
    BY <2>2, <2>3
<1>14. \/ /\ stage' = "begin" /\ rows' = saved /\ todo' = {} /\ index' = <<>> /\ code' = 0
          /\ UNCHANGED <<script, tasks>>
       \/ /\ Finish(1)
          /\ rows' \in Seq(SoundRows) /\ DOMAIN rows \subseteq DOMAIN rows'
          /\ \A k \in DOMAIN rows : rows'[k] = rows[k]
          /\ RowsOfMembers(rows, rows', g, c, X)
  BY <1>3, <1>13
<1>15. CutOff(id, S, X)
  BY <1>1, <1>4, <1>5, <1>9, <1>10, <1>11, <1>12, <1>14 DEF CutOff
<1> QED
  BY <1>15

\* The types survive it.
LEMMA CutOffTypes ==
  ASSUME Types, ExtractCutOff
  PROVE  Types'
<1>1. PICK id \in todo : \E S, X : CutOff(id, S, X)
  BY ExtractCutsOff
<1>2. PICK S, X : CutOff(id, S, X)
  BY <1>1
<1>3. script = "extract" /\ script \in Scripts
  BY DEF ExtractCutOff, Scripts
<1>4. DiskOK(disk') /\ faults < MaxFaults /\ faults' = faults + 1 /\ UNCHANGED <<delete, saved, round>>
  BY <1>2 DEF CutOff
<1>5. faults' \in 0..MaxFaults
  <2>1. MaxFaults \in Nat /\ faults \in 0..MaxFaults
    BY PackageFilesAssumption DEF Types, Control
  <2> QED
    BY <1>4, <2>1
<1>6. CASE Finish(1) /\ rows' \in Seq(SoundRows)
  <2>1. Tables'
    BY <1>4, <1>6 DEF Types, Tables
  <2> QED
    BY <1>3, <1>4, <1>5, <1>6, <2>1, FinishTypes
<1>7. CASE /\ stage' = "begin" /\ rows' = saved /\ todo' = {} /\ index' = <<>> /\ code' = 0
           /\ UNCHANGED <<script, tasks>>
  <2>1. Tables' /\ TodoType' /\ TasksType'
    BY <1>3, <1>4, <1>7 DEF Types, Tables, TodoType, TasksType, PerFile
  <2>2. Control'
    BY <1>4, <1>5, <1>7 DEF Types, Control
  <2>3. IndexType(index')
    BY <1>7 DEF IndexType
  <2> QED
    BY <1>4, <2>1, <2>2, <2>3 DEF Types
<1> QED
  BY <1>2, <1>6, <1>7 DEF CutOff

\* The types survive the extraction of packages.
LEMMA ExtractTypes ==
  ASSUME Types, Extract
  PROVE  Types'
<1>1. script = "extract" /\ stage = "work" /\ UNCHANGED <<delete, saved, round>>
  BY DEF Extract
<1>2. CASE todo = {}
  <2>1. PICK c : Finish(c) /\ UNCHANGED <<disk, rows, faults>>
    BY <1>2 DEF Extract
  <2> QED
    BY <1>1, <2>1, FinishTypes DEF Types, Control, Tables, Scripts
<1>3. CASE todo # {}
  <2>1. PICK id \in todo : ExtractDone(id)
    BY <1>3, ExtractStep
  <2>2. /\ todo' = todo \ {id} /\ id \in DOMAIN rows /\ Live(id)
        /\ UNCHANGED <<script, stage, tasks, index, delete, saved, round>>
    BY <2>1 DEF ExtractDone
  <2>3. \A k \in todo : k \in DOMAIN rows /\ Live(k)
    BY <1>1 DEF Types, TodoType
  <2>4. CASE UNCHANGED <<disk, rows, code, faults>>
    BY <1>1, <2>2, <2>3, <2>4 DEF Types, Control, Tables, TodoType, TasksType, Walks, PerFile, Live
  <2>5. CASE Format(id) \in DOMAIN Members /\ ExtractFails(id)
    <3>1. UNCHANGED <<rows, code>> /\ faults' \in 0..MaxFaults /\ DiskOK(disk')
      BY <1>1, <2>2, <2>5, ExtractFailsFacts
    <3> QED
      BY <1>1, <2>2, <2>3, <3>1 DEF Types, Control, Tables, TodoType, TasksType, Walks, PerFile, Live
  <2>6. CASE Unpacked(id)
    <3>1. /\ code' = -1 /\ faults' = faults /\ DiskOK(disk') /\ rows' \in Seq(SoundRows)
          /\ DOMAIN rows \subseteq DOMAIN rows'
          /\ \A k \in DOMAIN rows : k # id => rows'[k] = rows[k]
      BY <2>6 DEF Unpacked
    <3>2. \A k \in todo' : k \in DOMAIN rows' /\ ~rows'[k].removed
      BY <2>2, <2>3, <3>1 DEF Live
    <3> QED
      BY <1>1, <2>2, <3>1, <3>2 DEF Types, Control, Tables, TodoType, TasksType, Walks, PerFile, Live
  <2> QED
    BY <2>1, <2>4, <2>5, <2>6 DEF ExtractDone
<1> QED
  BY <1>2, <1>3

\* The types survive the creation of the SIP.
LEMMA SIPTypes ==
  ASSUME Types, CreateSIP \/ CreateSIPAgain
  PROVE  Types'
<1>0. CASE CreateSIPAgain
  <2>1. script = "sip" /\ Finish(0) /\ UNCHANGED <<delete, disk, rows, saved, round, faults>>
    BY <1>0 DEF CreateSIPAgain
  <2> QED
    BY <2>1, FinishTypes DEF Types, Control, Tables, Scripts
<1> SUFFICES ASSUME CreateSIP PROVE Types'
  BY <1>0
<1>1. script = "sip" /\ stage = "work" /\ UNCHANGED <<delete, disk, saved, round, faults>>
  BY DEF CreateSIP
<1>2. CASE todo = {}
  <2>1. Finish(0) /\ UNCHANGED rows
    BY <1>2 DEF CreateSIP
  <2> QED
    BY <1>1, <2>1, FinishTypes DEF Types, Control, Tables, Scripts
<1>3. CASE todo # {}
  <2>1. /\ rows' = [id \in DOMAIN rows |-> IF Live(id) /\ Present(rows[id].loc)
                                           THEN [rows[id] EXCEPT !.sip = TRUE] ELSE rows[id]]
        /\ UNCHANGED <<script, stage, tasks, index, code>>
    BY <1>3 DEF CreateSIP
  <2>2. rows' \in Seq(SoundRows)
    BY <2>1, SipFacts DEF Types, Tables
  <2>3. UNCHANGED <<script, stage, tasks, index, code>>
    BY <2>1
  <2> QED
    BY <1>1, <2>2, <2>3 DEF Types, Control, Tables, TodoType, TasksType, Walks, PerFile
<1> QED
  BY <1>2, <1>3

\* The types survive what goes wrong.
LEMMA FaultTypes ==
  ASSUME Types, Raise \/ Crash
  PROVE  Types'
<1>1. faults' \in 0..MaxFaults
  <2>1. faults < MaxFaults /\ faults' = faults + 1 /\ MaxFaults \in Nat /\ faults \in 0..MaxFaults
    BY PackageFilesAssumption DEF Raise, Crash, Goes, Types, Control
  <2> QED
    BY <2>1
<1>2. CASE Raise
  <2>1. Finish(1) /\ script \in Scripts /\ UNCHANGED <<delete, disk, rows, saved, round>>
    BY <1>2 DEF Raise, Scripts
  <2> QED
    BY <1>1, <2>1, FinishTypes DEF Types, Tables
<1>3. CASE Crash
  <2>1. /\ stage = "work" /\ stage' \in {"begin", "handed"}
        /\ rows' = IF script \in {"assign", "linking"} THEN rows ELSE saved
        /\ todo' = {} /\ index' = <<>> /\ code' = 0
        /\ UNCHANGED <<script, tasks, delete, disk, saved, round>>
    BY <1>3 DEF Crash
  <2>2. rows' = rows \/ rows' = saved
    BY <2>1
  <2>3. TasksType'
    BY <2>1, <2>2 DEF Types, TasksType
  <2>4. IndexType(index')
    BY <2>1 DEF IndexType
  <2> QED
    BY <1>1, <2>1, <2>2, <2>3, <2>4 DEF Types, Control, Tables, TodoType
<1> QED
  BY <1>2, <1>3

\* The types hold at first.
LEMMA InitTypes ==
  ASSUME Init
  PROVE  Types
<1>1. DiskOK(disk)
  <2>1. disk \in Received
    BY DEF Init
  <2>2. ASSUME NEW p \in DOMAIN disk PROVE FilePath(p)
    <3>1. p \in Path /\ p # <<>> /\ \A i \in DOMAIN p : p[i].ext = 0
      BY <2>1, PackageFilesAssumption, GivenNames DEF Path
    <3>2. Len(p) \in DOMAIN p
      BY <3>1, PathFacts
    <3> QED
      BY <3>1, <3>2 DEF FilePath
  <2>3. ASSUME NEW p \in DOMAIN disk PROVE disk[p] \in Content
    <3>1. disk[p] \in Contents(disk)
      BY DEF Contents
    <3> QED
      BY <2>1, <3>1 DEF Content
  <2>4. IsFiniteSet(DOMAIN disk)
    BY <2>1, PackageFilesAssumption
  <2> QED
    BY <2>2, <2>3, <2>4 DEF DiskOK
<1>2. Tables
  <2>1. <<>> \in Seq(SoundRows)
    BY EmptySeq
  <2> QED
    BY <2>1 DEF Init, Tables
<1>3. IndexType(index)
  BY DEF Init, IndexType
<1>4. Control /\ TodoType /\ TasksType
  BY PackageFilesAssumption DEF Init, Control, TodoType, TasksType, Scripts, PerFile
<1> QED
  BY <1>1, <1>2, <1>3, <1>4 DEF Types

\* The types survive every step.
LEMMA TypesStep ==
  ASSUME Types, [Next]_vars
  PROVE  Types'
<1>1. CASE StartHidden \/ StartPerFile \/ StartAssign \/ StartNames \/ StartExtract \/ StartSIP
  BY <1>1, StartTypes
<1>2. CASE RemoveHidden
  BY <1>2, HiddenTypes
<1>3. CASE RemoveUnneeded \/ RemoveUnlinked
  BY <1>3, PerFileTypes
<1>4. CASE AssignChunk
  BY <1>4, AssignTypes
<1>5. CASE ChangeName \/ ChangeNamesEnd
  BY <1>5, WalkTypes
<1>6. CASE HasPackages
  <2>1. PICK c : Finish(c)
    BY <1>6 DEF HasPackages
  <2>2. script \in Scripts /\ UNCHANGED <<delete, disk, rows, saved, round, faults>>
    BY <1>6 DEF HasPackages, Scripts
  <2> QED
    BY <2>1, <2>2, FinishTypes DEF Types, Control, Tables
<1>7. CASE Extract
  BY <1>7, ExtractTypes
<1>8. CASE CreateSIP \/ CreateSIPAgain
  BY <1>8, SIPTypes
<1>9. CASE Raise \/ Crash
  BY <1>9, FaultTypes
<1>11. CASE ExtractCutOff
  BY <1>11, CutOffTypes
<1>10. CASE Stop \/ UNCHANGED vars
  <2>1. UNCHANGED vars
    BY <1>10 DEF Stop
  <2> QED
    BY <2>1 DEF vars, Types, Control, Tables, TodoType, TasksType, Live
<1> QED
  BY <1>1, <1>2, <1>3, <1>4, <1>5, <1>6, <1>7, <1>8, <1>9, <1>10, <1>11 DEF Next, Step

\* The types hold in every state.
LEMMA AlwaysTypes == Spec => []Types
<1>1. Init => Types
  BY InitTypes
<1>2. Types /\ [Next]_vars => Types'
  BY TypesStep
<1> QED
  BY <1>1, <1>2, PTL DEF Spec

\* Every path on disk and in the table is a path of names, and every file that
\* is not removed has a row with a location, whatever raises, crashes or runs
\* again.
THEOREM TypeCorrect == Spec => []TypeOK
<1>1. Types => TypeOK
  <2> SUFFICES ASSUME Types PROVE TypeOK
    OBVIOUS
  <2>1. DOMAIN disk \subseteq Seq(Names)
    BY DEF Types, DiskOK, FilePath, Path
  <2>2. \A id \in DOMAIN rows : rows[id].loc \in Seq(Names) /\ rows[id].removed \in BOOLEAN
    <3>1. \A id \in DOMAIN rows : rows[id] \in Row
      BY TableFacts DEF SoundRows
    <3> QED
      BY <3>1 DEF Row, Path
  <2> QED
    BY <2>1, <2>2 DEF Types, Control, Scripts, TypeOK
<1> QED
  BY <1>1, AlwaysTypes, PTL

-----------------------------------------------------------------------------
(* What keeps a row with its file: the invariant.  d is a disk, R a table, *)
(* ix an index and T the entries the walk has before it.                   *)

\* The rows of the table R whose file is not said to be gone.
Lives(R) == {id \in DOMAIN R : ~R[id].removed}

\* What is at the location of a row is what its UUID was assigned to.
Kept(d, R) == \A id \in Lives(R) : R[id].loc \in DOMAIN d => d[R[id].loc] = R[id].content

\* No name has a date that is still to come.
Dated(p) == \A i \in 1..Len(p) : p[i].ext <= round
RowsDated(R) == \A id \in Lives(R) : Dated(R[id].loc)
DiskDated(d) == \A q \in DOMAIN d : Dated(q)

\* The path has no directory of the present extraction.
Old(p) == \A i \in 1..Len(p) : p[i].ext < round

\* Every name that is not clean is in a directory extracted after r.
Open(d, r) == \A q \in DOMAIN d : \A i \in 1..Len(q) : q[i].form # 0 => OpenTo(q, i, r)

\* Some file of d is at p or below.
In(d, p) == \E q \in DOMAIN d : IsPrefix(p, q)

\* Where the names of such a directory may change, the clean part of a location
\* is in use: change_path does not choose it.
Held(d, R, r) ==
  \A id \in Lives(R) : \A n \in 1..Len(R[id].loc) :
    CleanTo(R[id].loc, n) /\ OpenTo(R[id].loc, n, r) => In(d, SubSeq(R[id].loc, 1, n))

\* There is no such part.
Unheld(R, r) ==
  \A id \in Lives(R) : \A n \in 1..Len(R[id].loc) :
    OpenTo(R[id].loc, n, r) => ~CleanTo(R[id].loc, n)

\* Every file has a clean path.
Tidy(d) == \A q \in DOMAIN d : Clean(q)

Under(T, q) == \E e \in T : IsPrefix(e[2], q)

\* In the walk, the location p is the one the file that is now at q had before.
Stands(ix, T, p, q) ==
  \/ p \in DOMAIN ix /\ ix[p] = q
  \/ \E e \in T : IsPrefix(e[2], q) /\ p = To(e[2], e[1], q)
  \/ p = q /\ p \notin DOMAIN ix /\ ~Under(T, q)

\* An entry of the walk: the directory it is in has been renamed, it has not.
WalkEntry(e) ==
  /\ Len(e[1]) = Len(e[2])
  /\ \A i \in 1..Len(e[1]) : e[1][i].form = 0 => e[2][i] = e[1][i]
  /\ e[1][Len(e[1])] = e[2][Len(e[1])]
  /\ CleanTo(e[2], Len(e[2]) - 1)

WalkTodo(d, T) ==
  /\ \A e \in T : WalkEntry(e) /\ In(d, e[2])
  /\ \A e, f \in T : IsPrefix(e[2], f[2]) => e = f

\* What is not clean is still to come.
WalkDisk(d, T) == \A q \in DOMAIN d : Clean(q) \/ Under(T, q)

\* What is in the index is done.
WalkIndex(d, ix, T) == \A o \in DOMAIN ix : Clean(ix[o]) /\ ix[o] \in DOMAIN d /\ ~Under(T, ix[o])

\* Each row stands for one file at most, the one it was made for, and for the
\* one at its location if there is one.
WalkRows(d, ix, T, R) ==
  \A id \in Lives(R) :
    /\ \A q \in DOMAIN d : Stands(ix, T, R[id].loc, q) => d[q] = R[id].content
    /\ \A p, q \in DOMAIN d : Stands(ix, T, R[id].loc, p) /\ Stands(ix, T, R[id].loc, q) => p = q
    /\ R[id].loc \in DOMAIN d => Stands(ix, T, R[id].loc, R[id].loc)

\* What has been extracted from a package is what it has, on disk and in rows.
FromPackage(d, R) ==
  \A g \in DOMAIN d : Old(g) =>
    /\ \A q \in DOMAIN d : q = MemberPath(g, q[Len(q)]) => d[q] = Members[d[g]][q[Len(q)]]
    /\ \A id \in Lives(R) :
         R[id].loc = MemberPath(g, R[id].loc[Len(R[id].loc)]) =>
           R[id].content = Members[d[g]][R[id].loc[Len(R[id].loc)]]

\* At each script, what its names are.
Before == script \in {"hidden", "unneeded"} => rows = <<>> /\ saved = <<>>

Assigning == script = "assign" => saved = rows /\ \A id \in Lives(rows) : Present(rows[id].loc)

WalkState == WalkTodo(disk, todo) /\ WalkDisk(disk, todo) /\ WalkIndex(disk, index, todo)

Walking ==
  script \in Walks =>
    /\ \E r \in -1..round :
         /\ Open(disk, r) /\ Held(disk, rows, r)
         /\ stage = "work" => Held(disk, saved, r)
    /\ stage = "work" => WalkState /\ WalkRows(disk, index, todo, rows)

Extracting ==
  script = "extract" =>
    /\ \E r \in -1..round :
         /\ Open(disk, r) /\ Unheld(rows, r)
         /\ stage = "work" => r < round /\ Unheld(saved, r)
    /\ stage = "work" =>
         /\ FromPackage(disk, rows)
         /\ \A id \in todo : Old(rows[id].loc)
         /\ \A id \in Lives(saved) : Old(saved[id].loc)

Quiet == script \in {"has", "has2", "unneeded2", "sip", "linking"} => Tidy(disk)

Naming ==
  /\ Kept(disk, rows) /\ RowsDated(rows) /\ DiskDated(disk)
  /\ stage = "work" => Kept(disk, saved) /\ RowsDated(saved)
  /\ stage = "begin" => DOMAIN index = {}
  /\ Before /\ Assigning /\ Walking /\ Extracting /\ Quiet

-----------------------------------------------------------------------------
(* A step of the walk.                                                     *)

\* Two paths to a file are one below the other.
LEMMA Comparable ==
  ASSUME NEW a \in Path, NEW b \in Path, NEW q \in Path, IsPrefix(a, q), IsPrefix(b, q),
         Len(a) <= Len(b)
  PROVE  IsPrefix(a, b)
<1>1. Len(a) \in Nat /\ Len(b) \in Nat
  BY PathFacts
<1>2. (\A i \in 1..Len(a) : a[i] = q[i]) /\ (\A i \in 1..Len(b) : b[i] = q[i])
  BY PrefixFacts
<1>3. \A i \in 1..Len(a) : a[i] = b[i]
  BY <1>1, <1>2
<1> QED
  BY <1>3, PrefixFacts

\* The path itself.
LEMMA PrefixSelf ==
  ASSUME NEW p \in Path
  PROVE  IsPrefix(p, p)
BY PrefixFacts, PathFacts

\* A part of a part.
LEMMA PrefixTrans ==
  ASSUME NEW a \in Path, NEW b \in Path, NEW q \in Path, IsPrefix(a, b), IsPrefix(b, q)
  PROVE  IsPrefix(a, q)
<1>1. Len(a) \in Nat /\ Len(b) \in Nat /\ Len(q) \in Nat
  BY PathFacts
<1>2. /\ Len(a) <= Len(b) /\ Len(b) <= Len(q)
      /\ (\A i \in 1..Len(a) : a[i] = b[i]) /\ (\A i \in 1..Len(b) : b[i] = q[i])
  BY PrefixFacts
<1>3. \A i \in 1..Len(a) : a[i] = q[i]
  BY <1>1, <1>2
<1> QED
  BY <1>1, <1>2, <1>3, PrefixFacts

\* Replacing the first names by themselves.
LEMMA ToSame ==
  ASSUME NEW p \in Path, NEW r \in Path
  PROVE  To(p, p, r) = r
<1>1. CASE ~IsPrefix(p, r)
  BY <1>1, ToFacts
<1>2. CASE IsPrefix(p, r)
  <2> DEFINE x == To(p, p, r)
  <2>1. /\ x \in Path /\ Len(x) = Len(r)
        /\ \A i \in 1..Len(p) : x[i] = p[i]
        /\ \A i \in Len(p) + 1..Len(r) : x[i] = r[i]
    BY <1>2, ToFacts
  <2>2. Len(p) \in Nat /\ Len(r) \in Nat /\ \A i \in 1..Len(p) : p[i] = r[i]
    BY <1>2, PathFacts, PrefixFacts
  <2> HIDE DEF x
  <2>3. \A i \in 1..Len(r) : i \in 1..Len(p) \/ i \in Len(p) + 1..Len(r)
    BY <2>2
  <2>4. \A i \in 1..Len(x) : x[i] = r[i]
    BY <2>1, <2>2, <2>3
  <2> QED
    BY <2>1, <2>4, PathEqual DEF x
<1> QED
  BY <1>1, <1>2

\* A renaming keeps the base names and the dates, and all names but one.
LEMMA MoveKeeps ==
  ASSUME NEW p \in Path, p # <<>>, NEW q, Renames(p, q), NEW r \in Path
  PROVE  LET x == To(p, q, r)
         IN /\ x \in Path /\ Len(x) = Len(r) /\ Len(r) \in Nat /\ Len(p) \in Nat /\ Len(p) > 0
            /\ \A i \in 1..Len(r) : i # Len(p) => x[i] = r[i]
            /\ \A i \in 1..Len(r) : x[i].ext = r[i].ext /\ x[i].base = r[i].base
            /\ IsPrefix(p, r) => IsPrefix(q, x) /\ x[Len(p)] = q[Len(p)] /\ Len(p) \in 1..Len(r)
            /\ ~IsPrefix(p, r) => x = r
            /\ q = p => x = r
<1> DEFINE x == To(p, q, r)
<1>1. /\ q \in Path /\ Len(q) = Len(p) /\ \A i \in 1..Len(p) - 1 : q[i] = p[i]
      /\ q[Len(p)].base = p[Len(p)].base /\ q[Len(p)].ext = p[Len(p)].ext
  BY DEF Renames
<1>2. Len(p) \in Nat /\ Len(p) > 0 /\ Len(r) \in Nat
  BY PathFacts
<1>3. /\ x \in Path /\ Len(x) = Len(r)
      /\ \A i \in Len(p) + 1..Len(r) : x[i] = r[i]
      /\ IsPrefix(p, r) => /\ IsPrefix(q, x)
                           /\ \A i \in 1..Len(p) : x[i] = q[i]
      /\ ~IsPrefix(p, r) => x = r
  BY <1>1, ToFacts
<1>4. q = p => x = r
  BY ToSame
<1> HIDE DEF x
<1>5. CASE IsPrefix(p, r)
  <2>1. Len(p) <= Len(r) /\ \A i \in 1..Len(p) : p[i] = r[i]
    BY <1>5, PrefixFacts
  <2>2. ASSUME NEW i \in 1..Len(r), i # Len(p) PROVE x[i] = r[i]
    <3>1. CASE i < Len(p)
      <4>1. i \in 1..Len(p) /\ i \in 1..Len(p) - 1
        BY <1>2, <3>1
      <4> QED
        BY <4>1, <1>1, <1>3, <1>5, <2>1
    <3>2. CASE i > Len(p)
      BY <1>2, <1>3, <3>2
    <3> QED
      BY <1>2, <2>2, <3>1, <3>2
  <2>3. Len(p) \in 1..Len(p) /\ Len(p) \in 1..Len(r)
    BY <1>2, <2>1
  <2>4. x[Len(p)] = q[Len(p)] /\ r[Len(p)] = p[Len(p)]
    BY <1>3, <1>5, <2>1, <2>3
  <2>5. \A i \in 1..Len(r) : x[i].ext = r[i].ext /\ x[i].base = r[i].base
    BY <1>1, <2>2, <2>4
  <2> QED
    BY <1>2, <1>3, <1>4, <1>5, <2>2, <2>3, <2>4, <2>5 DEF x
<1>6. CASE ~IsPrefix(p, r)
  BY <1>2, <1>3, <1>4, <1>6 DEF x
<1> QED
  BY <1>5, <1>6

\* The entry of the name n in the directory of entry e, once this is at ``new``.
Child(e, new, n) == <<Append(e[1], n), Append(new, n)>>

\* The paths of a file as the walk sees it from a directory and from an entry of it.
LEMMA ChildFacts ==
  ASSUME NEW e, Entry(e), WalkEntry(e), NEW new, Renames(e[2], new), NEW n \in Names
  PROVE  LET c == Child(e, new, n)
             L == Len(e[2])
         IN /\ Entry(c) /\ WalkEntry(c) /\ L \in Nat /\ Len(c[1]) = L + 1 /\ Len(c[2]) = L + 1
            /\ IsPrefix(new, c[2]) /\ c[2][L + 1] = n
            /\ \A q \in Path : IsPrefix(e[2], q) /\ L < Len(q) /\ q[L + 1] = n =>
                 /\ IsPrefix(c[2], To(e[2], new, q))
                 /\ To(c[2], c[1], To(e[2], new, q)) = To(e[2], e[1], q)
<1> DEFINE c1 == Append(e[1], n)
           c2 == Append(new, n)
           L == Len(e[2])
           c == Child(e, new, n)
<1>1. /\ e[1] \in Path /\ e[2] \in Path /\ e[2] # <<>> /\ Len(e[1]) = L
      /\ \A i \in 1..L : e[1][i].form = 0 => e[2][i] = e[1][i]
      /\ e[1][L] = e[2][L]
      /\ CleanTo(e[2], L - 1)
  BY DEF Entry, WalkEntry
<1>2. /\ new \in Path /\ Len(new) = L /\ \A i \in 1..L - 1 : new[i] = e[2][i]
      /\ new[L].form = 0 /\ (new = e[2] \/ e[2][L].form # 0)
  BY DEF Renames
<1>3. L \in Nat /\ L > 0
  BY <1>1, PathFacts
<1>4. /\ c1 \in Path /\ Len(c1) = L + 1 /\ (\A i \in 1..L : c1[i] = e[1][i]) /\ c1[L + 1] = n
      /\ c2 \in Path /\ Len(c2) = L + 1 /\ (\A i \in 1..L : c2[i] = new[i]) /\ c2[L + 1] = n
      /\ c2 # <<>>
  BY <1>1, <1>2, OneMoreName
<1>5. c[1] = c1 /\ c[2] = c2
  BY DEF Child
<1> HIDE DEF c, c1, c2
<1>6. ASSUME NEW i \in 1..L + 1, c1[i].form = 0 PROVE c2[i] = c1[i]
  <2>1. CASE i < L
    BY <1>1, <1>2, <1>3, <1>4, <1>6, <2>1
  <2>2. CASE i = L
    <3>1. L \in 1..L
      BY <1>3
    <3>2. e[1][L].form = 0
      BY <1>4, <1>6, <2>2, <3>1
    <3>3. new = e[2]
      BY <1>1, <1>2, <3>2
    <3> QED
      BY <1>1, <1>4, <2>2, <3>1, <3>3
  <2>3. CASE i = L + 1
    BY <1>4, <2>3
  <2> QED
    BY <1>3, <2>1, <2>2, <2>3
<1>7. CleanTo(c2, L)
  <2>1. ASSUME NEW i \in 1..L PROVE c2[i].form = 0
    <3>1. c2[i] = new[i]
      BY <1>4
    <3>2. CASE i < L
      <4>1. i \in 1..L - 1
        BY <1>3, <3>2
      <4> QED
        BY <4>1, <3>1, <1>1, <1>2 DEF CleanTo
    <3>3. CASE i = L
      BY <1>2, <3>1, <3>3
    <3> QED
      BY <1>3, <3>2, <3>3
  <2> QED
    BY <2>1 DEF CleanTo
<1>8. Entry(c) /\ WalkEntry(c)
  <2>1. Len(c2) - 1 = L
    BY <1>3, <1>4
  <2> QED
    BY <1>4, <1>5, <1>6, <1>7, <2>1 DEF Entry, WalkEntry
<1>9. IsPrefix(new, c2)
  BY <1>2, <1>3, <1>4, PrefixFacts
<1>10. ASSUME NEW q \in Path, IsPrefix(e[2], q), L < Len(q), q[L + 1] = n
       PROVE  IsPrefix(c2, To(e[2], new, q)) /\ To(c2, c1, To(e[2], new, q)) = To(e[2], e[1], q)
  <2> DEFINE x == To(e[2], new, q)
             y == To(e[2], e[1], q)
             z == To(c2, c1, x)
  <2>1. Len(q) \in Nat
    BY PathFacts
  <2>2. /\ x \in Path /\ Len(x) = Len(q) /\ (\A i \in 1..L : x[i] = new[i])
        /\ \A i \in L + 1..Len(q) : x[i] = q[i]
    <3>1. e[2] \in Path /\ new \in Path /\ Len(e[2]) = Len(new)
      BY <1>1, <1>2
    <3>2. /\ x \in Path /\ Len(x) = Len(q)
          /\ IsPrefix(e[2], q) => \A i \in 1..Len(e[2]) : x[i] = new[i]
          /\ \A i \in Len(e[2]) + 1..Len(q) : x[i] = q[i]
      BY ONLY <3>1, q \in Path, ToFacts
    <3> QED
      BY <3>2, <1>10
  <2>3. /\ y \in Path /\ Len(y) = Len(q) /\ (\A i \in 1..L : y[i] = e[1][i])
        /\ \A i \in L + 1..Len(q) : y[i] = q[i]
    <3>1. e[2] \in Path /\ e[1] \in Path /\ Len(e[2]) = Len(e[1])
      BY <1>1
    <3>2. /\ y \in Path /\ Len(y) = Len(q)
          /\ IsPrefix(e[2], q) => \A i \in 1..Len(e[2]) : y[i] = e[1][i]
          /\ \A i \in Len(e[2]) + 1..Len(q) : y[i] = q[i]
      BY ONLY <3>1, q \in Path, ToFacts
    <3> QED
      BY <3>2, <1>10
  <2> HIDE DEF x, y
  <2>4. L + 1 \in L + 1..Len(q)
    BY <1>3, <1>10, <2>1
  <2>5. \A i \in 1..L + 1 : c2[i] = x[i]
    <3>1. \A i \in 1..L + 1 : i \in 1..L \/ i = L + 1
      BY <1>3
    <3> QED
      BY <1>4, <1>10, <2>2, <2>4, <3>1
  <2>6. IsPrefix(c2, x)
    BY <1>3, <1>4, <1>10, <2>1, <2>2, <2>5, PrefixFacts
  <2>7. /\ z \in Path /\ Len(z) = Len(x) /\ (\A i \in 1..L + 1 : z[i] = c1[i])
        /\ \A i \in (L + 1) + 1..Len(x) : z[i] = x[i]
    <3>1. c1 \in Path /\ c2 \in Path /\ Len(c2) = Len(c1) /\ Len(c2) = L + 1
      BY <1>4
    <3>2. x \in Path
      BY <2>2
    <3>3. /\ z \in Path /\ Len(z) = Len(x)
          /\ IsPrefix(c2, x) => \A i \in 1..Len(c2) : z[i] = c1[i]
          /\ \A i \in Len(c2) + 1..Len(x) : z[i] = x[i]
      BY ONLY <3>1, <3>2, ToFacts, ZenonT(60)
    <3> QED
      BY <3>1, <3>3, <2>6
  <2> HIDE DEF z
  <2>8. ASSUME NEW i \in 1..Len(z) PROVE z[i] = y[i]
    <3>1. CASE i \in 1..L
      <4>1. i \in 1..L + 1
        BY <1>3, <3>1
      <4> QED
        BY <1>4, <2>3, <2>7, <3>1, <4>1
    <3>2. CASE i = L + 1
      <4>1. i \in 1..L + 1 /\ i \in L + 1..Len(q)
        BY <1>3, <2>4, <3>2
      <4> QED
        BY <1>4, <1>10, <2>3, <2>7, <3>2, <4>1
    <3>3. CASE i > L + 1
      <4>1. i \in (L + 1) + 1..Len(x) /\ i \in L + 1..Len(q)
        BY <1>3, <2>1, <2>2, <2>7, <3>3
      <4> QED
        BY <2>2, <2>3, <2>7, <4>1
    <3> QED
      BY <1>3, <2>1, <2>2, <2>7, <3>1, <3>2, <3>3
  <2>9. z = y
    BY <2>2, <2>3, <2>7, <2>8, PathEqual
  <2> QED
    BY <2>6, <2>9 DEF x, y, z
<1> HIDE DEF L
<1>11. \A q \in Path : IsPrefix(e[2], q) /\ L < Len(q) /\ q[L + 1] = n =>
         IsPrefix(c2, To(e[2], new, q)) /\ To(c2, c1, To(e[2], new, q)) = To(e[2], e[1], q)
  BY <1>10
<1> QED
  BY <1>3, <1>4, <1>5, <1>8, <1>9, <1>11 DEF c, L

\* A step of the walk that renames the entry e to ``new``.
Turn(e, new) ==
  /\ DiskType /\ DiskType' /\ MovedDisk(e[2], new)
  /\ e \in todo /\ (\A f \in todo : Entry(f) /\ Len(f[1]) <= Len(e[1]))
  /\ Renames(e[2], new)
  /\ WalkState
  /\ \A f : f \in todo' <=>
       \/ f \in todo /\ f # e
       \/ \E q \in DOMAIN disk : /\ IsPrefix(e[2], q) /\ Len(e[2]) < Len(q)
                                 /\ f = Child(e, new, q[Len(e[2]) + 1])

\* ChangeName makes such a step.
LEMMA WalkedTurns ==
  ASSUME Types, script \in Walks, stage = "work", WalkState, NEW e, NEW new, Walked(e, new)
  PROVE  Turn(e, new)
<1>1. DiskType /\ \A f \in todo : Entry(f)
  BY TableFacts DEF Types, TodoType
<1>2. /\ e \in todo /\ Renames(e[2], new) /\ MovedDisk(e[2], new) /\ DiskType'
      /\ \A f \in todo : Len(f[1]) <= Len(e[1])
      /\ todo' = (todo \ {e}) \cup {Child(e, new, q[Len(e[2]) + 1]) :
                                      q \in {r \in DOMAIN disk : IsStrictPrefix(e[2], r)}}
  BY DEF Walked, Child
<1>3. ASSUME NEW q \in DOMAIN disk
      PROVE  IsStrictPrefix(e[2], q) <=> IsPrefix(e[2], q) /\ Len(e[2]) < Len(q)
  <2>1. q \in Path /\ e[2] \in Path
    BY <1>1, <1>2 DEF DiskType, FilePath, Entry
  <2> QED
    BY <2>1, BelowFacts
<1>4. ASSUME NEW f
      PROVE  f \in todo' <=>
               \/ f \in todo /\ f # e
               \/ \E q \in DOMAIN disk : /\ IsPrefix(e[2], q) /\ Len(e[2]) < Len(q)
                                         /\ f = Child(e, new, q[Len(e[2]) + 1])
  BY <1>2, <1>3
<1> QED
  BY <1>1, <1>2, <1>4 DEF Turn

\* Where the entries are in such a step.
LEMMA TurnFacts ==
  ASSUME NEW e, NEW new, Turn(e, new)
  PROVE  /\ Entry(e) /\ WalkEntry(e) /\ new \in Path /\ Len(new) = Len(e[2])
         /\ Len(e[2]) \in Nat /\ Len(e[2]) > 0
         /\ \A x \in DOMAIN disk : x \in Path /\ (IsPrefix(new, x) => new = e[2])
         /\ \A f \in todo : f # e => \A x \in Path :
              IsPrefix(f[2], x) => ~IsPrefix(new, x) /\ ~IsPrefix(e[2], x)
         /\ Clean(new)
<1>1. e \in todo /\ Entry(e) /\ WalkEntry(e)
  BY DEF Turn, WalkState, WalkTodo
<1>2. /\ e[1] \in Path /\ e[2] \in Path /\ e[2] # <<>> /\ Len(e[1]) = Len(e[2])
      /\ CleanTo(e[2], Len(e[2]) - 1)
  BY <1>1 DEF Entry, WalkEntry
<1> DEFINE L == Len(e[2])
<1>3. /\ new \in Path /\ Len(new) = L /\ (\A i \in 1..L - 1 : new[i] = e[2][i])
      /\ new[L].form = 0
      /\ (Exists(new) => new = e[2])
  BY DEF Turn, Renames
<1>4. L \in Nat /\ L > 0
  BY <1>2, PathFacts
<1> HIDE DEF L
<1>5. ASSUME NEW x \in DOMAIN disk PROVE x \in Path /\ (IsPrefix(new, x) => new = e[2])
  BY <1>3 DEF Turn, DiskType, FilePath, Exists
<1>6. ASSUME NEW f \in todo, f # e, NEW x \in Path, IsPrefix(f[2], x)
      PROVE  ~IsPrefix(new, x) /\ ~IsPrefix(e[2], x)
  <2>1. /\ f[2] \in Path /\ Len(f[2]) \in Nat /\ Len(f[2]) <= L /\ In(disk, f[2])
        /\ ~IsPrefix(f[2], e[2])
    <3>1. /\ Entry(f) /\ WalkEntry(f) /\ Len(f[1]) <= Len(e[1]) /\ In(disk, f[2])
          /\ ~IsPrefix(f[2], e[2])
      BY <1>1, <1>6 DEF Turn, WalkState, WalkTodo
    <3> QED
      BY <3>1, <1>2, PathFacts DEF Entry, WalkEntry, L
  <2>2. ~IsPrefix(e[2], x)
    BY <1>2, <1>6, <2>1, Comparable DEF L
  <2>3. ASSUME IsPrefix(new, x) PROVE FALSE
    <3>1. IsPrefix(f[2], new)
      BY <1>3, <1>6, <2>1, <2>3, Comparable
    <3>2. \A i \in 1..Len(f[2]) : f[2][i] = new[i]
      BY <1>3, <2>1, <3>1, PrefixFacts
    <3>3. CASE Len(f[2]) = L
      <4>1. f[2] = new
        BY <1>3, <2>1, <3>2, <3>3, PathEqual
      <4>2. Exists(new)
        BY <2>1, <4>1 DEF In, Exists
      <4> QED
        BY <1>2, <1>3, <2>1, <4>1, <4>2, PrefixSelf
    <3>4. CASE Len(f[2]) # L
      <4>1. \A i \in 1..Len(f[2]) : i \in 1..L - 1
        BY <1>4, <2>1, <3>4
      <4>2. \A i \in 1..Len(f[2]) : f[2][i] = e[2][i]
        BY <1>3, <3>2, <4>1
      <4> QED
        BY <1>2, <2>1, <4>2, PrefixFacts DEF L
    <3> QED
      BY <3>3, <3>4
  <2> QED
    BY <2>2, <2>3
<1>7. Clean(new)
  <2>1. ASSUME NEW i \in 1..L PROVE new[i].form = 0
    <3>1. CASE i = L
      BY <1>3, <3>1
    <3>2. CASE i # L
      <4>1. i \in 1..L - 1
        BY <1>4, <3>2
      <4>2. e[2][i].form = 0
        BY <1>2, <4>1 DEF CleanTo, L
      <4> QED
        BY <1>3, <4>1, <4>2
    <3> QED
      BY <3>1, <3>2
  <2> QED
    BY <1>3, <2>1 DEF Clean, CleanTo
<1> QED
  BY <1>1, <1>3, <1>4, <1>5, <1>6, <1>7 DEF L

\* An entry that comes with a step of the walk.
LEMMA TurnChild ==
  ASSUME NEW e, NEW new, Turn(e, new), NEW q \in DOMAIN disk, IsPrefix(e[2], q), Len(e[2]) < Len(q),
         NEW c, c = Child(e, new, q[Len(e[2]) + 1])
  PROVE  /\ Entry(c) /\ WalkEntry(c) /\ Len(c[1]) = Len(e[2]) + 1 /\ Len(c[2]) = Len(e[2]) + 1
         /\ c[2][Len(e[2]) + 1] = q[Len(e[2]) + 1]
         /\ IsPrefix(c[2], To(e[2], new, q))
         /\ To(c[2], c[1], To(e[2], new, q)) = To(e[2], e[1], q)
         /\ \A x \in Path : IsPrefix(c[2], x) => IsPrefix(new, x)
<1>1. Entry(e) /\ WalkEntry(e) /\ Renames(e[2], new) /\ e[2] \in Path /\ q \in Path /\ new \in Path
  BY TurnFacts DEF Turn, Entry
<1>2. q[Len(e[2]) + 1] \in Names
  <2>1. Len(q) \in Nat /\ Len(e[2]) \in Nat
    BY <1>1, PathFacts
  <2> QED
    BY <1>1, <2>1, PathFacts
<1>3. /\ Entry(c) /\ WalkEntry(c) /\ Len(c[1]) = Len(e[2]) + 1 /\ Len(c[2]) = Len(e[2]) + 1
      /\ IsPrefix(new, c[2]) /\ c[2][Len(e[2]) + 1] = q[Len(e[2]) + 1]
      /\ IsPrefix(c[2], To(e[2], new, q))
      /\ To(c[2], c[1], To(e[2], new, q)) = To(e[2], e[1], q)
  BY <1>1, <1>2, ChildFacts
<1>4. \A x \in Path : IsPrefix(c[2], x) => IsPrefix(new, x)
  BY <1>1, <1>3, PrefixTrans DEF Entry
<1> QED
  BY <1>3, <1>4

\* Files that are not below the entry stay, also for the entries that are left.
LEMMA TurnStays ==
  ASSUME NEW e, NEW new, Turn(e, new), NEW q \in DOMAIN disk, ~IsPrefix(e[2], q)
  PROVE  /\ To(e[2], new, q) = q /\ q \in DOMAIN disk' /\ disk'[q] = disk[q]
         /\ Under(todo', q) <=> Under(todo, q)
<1>1. To(e[2], new, q) = q /\ q \in DOMAIN disk' /\ disk'[q] = disk[q]
  BY DEF Turn, MovedDisk, To
<1>2. ASSUME NEW f \in todo, IsPrefix(f[2], q) PROVE f \in todo'
  BY <1>2 DEF Turn
<1>3. ASSUME NEW f \in todo', IsPrefix(f[2], q) PROVE f \in todo
  <2>1. SUFFICES ASSUME NEW r \in DOMAIN disk, IsPrefix(e[2], r), Len(e[2]) < Len(r),
                        f = Child(e, new, r[Len(e[2]) + 1])
                 PROVE  FALSE
    BY DEF Turn
  <2>2. IsPrefix(new, q)
    BY <1>3, <2>1, TurnChild, TurnFacts
  <2> QED
    BY <2>2, TurnFacts
<1> QED
  BY <1>1, <1>2, <1>3 DEF Under

\* The walk goes on: entries, files and index.
LEMMA TurnState ==
  ASSUME NEW e, NEW new, Turn(e, new), NEW ix, ix = Noted(e[1], new, ~Present(e[2]))
  PROVE  WalkTodo(disk', todo') /\ WalkDisk(disk', todo') /\ WalkIndex(disk', ix, todo')
<1>1. /\ Entry(e) /\ WalkEntry(e) /\ new \in Path /\ Len(new) = Len(e[2])
      /\ Len(e[2]) \in Nat /\ Len(e[2]) > 0 /\ e[2] \in Path /\ Clean(new)
  BY TurnFacts DEF Entry
<1>2. ASSUME NEW f \in todo' PROVE WalkEntry(f) /\ In(disk', f[2])
  <2>1. CASE f \in todo /\ f # e
    <3>1. WalkEntry(f) /\ In(disk, f[2])
      BY <2>1 DEF Turn, WalkState, WalkTodo
    <3>2. PICK q \in DOMAIN disk : IsPrefix(f[2], q)
      BY <3>1 DEF In
    <3>3. ~IsPrefix(e[2], q)
      BY <2>1, <3>2, TurnFacts
    <3> QED
      BY <3>1, <3>2, <3>3, TurnStays DEF In
  <2>2. ASSUME NEW q \in DOMAIN disk, IsPrefix(e[2], q), Len(e[2]) < Len(q),
               f = Child(e, new, q[Len(e[2]) + 1])
        PROVE  WalkEntry(f) /\ In(disk', f[2])
    <3>1. WalkEntry(f) /\ IsPrefix(f[2], To(e[2], new, q))
      BY <2>2, TurnChild
    <3>2. To(e[2], new, q) \in DOMAIN disk'
      BY DEF Turn, MovedDisk
    <3> QED
      BY <3>1, <3>2 DEF In
  <2> QED
    BY <2>1, <2>2 DEF Turn
<1>3. ASSUME NEW f \in todo', NEW g \in todo', IsPrefix(f[2], g[2]) PROVE f = g
  <2>1. ASSUME NEW h \in todo, h # e
        PROVE  /\ h[2] \in Path /\ Len(h[2]) <= Len(e[2])
               /\ \A x \in Path : IsPrefix(h[2], x) => ~IsPrefix(new, x)
    BY <2>1, <1>1, TurnFacts DEF Turn, Entry, WalkEntry, WalkState, WalkTodo
  <2>2. CASE f \in todo /\ f # e /\ g \in todo /\ g # e
    BY <1>3, <2>2 DEF Turn, WalkState, WalkTodo
  <2>3. CASE f \in todo /\ f # e /\ ~(g \in todo /\ g # e)
    <3>1. PICK q \in DOMAIN disk : /\ IsPrefix(e[2], q) /\ Len(e[2]) < Len(q)
                                   /\ g = Child(e, new, q[Len(e[2]) + 1])
      BY <2>3 DEF Turn
    <3>2. g[2] \in Path /\ \A x \in Path : IsPrefix(g[2], x) => IsPrefix(new, x)
      BY <3>1, TurnChild DEF Entry
    <3>3. IsPrefix(new, g[2])
      BY <3>2, PrefixSelf
    <3> QED
      BY <1>3, <2>1, <2>3, <3>2, <3>3
  <2>4. CASE ~(f \in todo /\ f # e) /\ g \in todo /\ g # e
    <3>1. PICK q \in DOMAIN disk : /\ IsPrefix(e[2], q) /\ Len(e[2]) < Len(q)
                                   /\ f = Child(e, new, q[Len(e[2]) + 1])
      BY <2>4 DEF Turn
    <3>2. f[2] \in Path /\ Len(f[2]) = Len(e[2]) + 1
      BY <3>1, TurnChild DEF Entry
    <3>3. g[2] \in Path /\ Len(g[2]) <= Len(e[2]) /\ Len(g[2]) \in Nat
      BY <2>1, <2>4, PathFacts
    <3>4. Len(f[2]) <= Len(g[2])
      BY <1>3, <3>2, <3>3, PrefixFacts
    <3> QED
      BY <1>1, <3>2, <3>3, <3>4
  <2>5. CASE ~(f \in todo /\ f # e) /\ ~(g \in todo /\ g # e)
    <3>1. PICK q \in DOMAIN disk : /\ IsPrefix(e[2], q) /\ Len(e[2]) < Len(q)
                                   /\ f = Child(e, new, q[Len(e[2]) + 1])
      BY <2>5 DEF Turn
    <3>2. PICK r \in DOMAIN disk : /\ IsPrefix(e[2], r) /\ Len(e[2]) < Len(r)
                                   /\ g = Child(e, new, r[Len(e[2]) + 1])
      BY <2>5 DEF Turn
    <3>3. /\ f[2] \in Path /\ Len(f[2]) = Len(e[2]) + 1
          /\ f[2][Len(e[2]) + 1] = q[Len(e[2]) + 1]
      BY <3>1, TurnChild DEF Entry
    <3>4. /\ g[2] \in Path /\ g[2][Len(e[2]) + 1] = r[Len(e[2]) + 1]
      BY <3>2, TurnChild DEF Entry
    <3>5. Len(e[2]) + 1 \in 1..Len(f[2])
      BY <1>1, <3>3
    <3>6. f[2][Len(e[2]) + 1] = g[2][Len(e[2]) + 1]
      BY <1>3, <3>3, <3>4, <3>5, PrefixFacts
    <3> QED
      BY <3>1, <3>2, <3>3, <3>4, <3>6
  <2> QED
    BY <2>2, <2>3, <2>4, <2>5
<1>4. ASSUME NEW x \in DOMAIN disk' PROVE Clean(x) \/ Under(todo', x)
  <2>1. PICK q \in DOMAIN disk : x = To(e[2], new, q)
    BY DEF Turn, MovedDisk
  <2>2. CASE ~IsPrefix(e[2], q)
    <3>1. x = q /\ (Under(todo', q) <=> Under(todo, q))
      BY <2>1, <2>2, TurnStays
    <3> QED
      BY <3>1 DEF Turn, WalkState, WalkDisk
  <2>3. CASE IsPrefix(e[2], q) /\ Len(e[2]) < Len(q)
    <3> DEFINE c == Child(e, new, q[Len(e[2]) + 1])
    <3>1. c \in todo'
      BY <2>3 DEF Turn
    <3>2. IsPrefix(c[2], x)
      BY <2>1, <2>3, TurnChild
    <3> HIDE DEF c
    <3> QED
      BY <3>1, <3>2 DEF Under
  <2>4. CASE IsPrefix(e[2], q) /\ ~(Len(e[2]) < Len(q))
    <3>1. q \in Path /\ Len(q) \in Nat
      BY TurnFacts, PathFacts
    <3>2. Len(q) = Len(e[2])
      BY <1>1, <2>4, <3>1, PrefixFacts
    <3>3. x \in Path /\ Len(x) = Len(q) /\ \A i \in 1..Len(e[2]) : x[i] = new[i]
      <4>1. e[2] \in Path /\ new \in Path /\ Len(e[2]) = Len(new) /\ q \in Path
        BY <1>1, <3>1
      <4>2. /\ To(e[2], new, q) \in Path /\ Len(To(e[2], new, q)) = Len(q)
            /\ IsPrefix(e[2], q) => \A i \in 1..Len(e[2]) : To(e[2], new, q)[i] = new[i]
        BY ONLY <4>1, ToFacts
      <4> QED
        BY <2>1, <2>4, <4>2
    <3>4. x = new
      BY <1>1, <3>2, <3>3, PathEqual
    <3> QED
      BY <1>1, <3>4
  <2> QED
    BY <2>2, <2>3, <2>4
<1>5. WalkIndex(disk', ix, todo')
  <2>1. ASSUME NEW o \in DOMAIN index
        PROVE  Clean(index[o]) /\ index[o] \in DOMAIN disk' /\ ~Under(todo', index[o])
    <3>1. Clean(index[o]) /\ index[o] \in DOMAIN disk /\ ~Under(todo, index[o])
      BY DEF Turn, WalkState, WalkIndex
    <3>2. ~IsPrefix(e[2], index[o])
      BY <3>1 DEF Turn, Under
    <3> QED
      BY <3>1, <3>2, TurnStays
  <2>2. CASE ix = index
    BY <2>1, <2>2 DEF WalkIndex
  <2>3. CASE ix # index
    <3>1. /\ Present(e[2])
          /\ \A o \in DOMAIN ix : ix[o] = new \/ (o \in DOMAIN index /\ ix[o] = index[o])
      <4>1. Present(e[2]) /\ ix = AddFile(e[1], new)
        BY <2>3 DEF Noted
      <4> QED
        BY <4>1, AddFileFacts
    <3>2. To(e[2], new, e[2]) = new
      <4>1. IsPrefix(e[2], e[2])
        BY <1>1, PrefixSelf
      <4> DEFINE x == To(e[2], new, e[2])
      <4>2. x \in Path /\ Len(x) = Len(e[2]) /\ \A i \in 1..Len(e[2]) : x[i] = new[i]
        BY <1>1, <4>1, ToFacts
      <4> HIDE DEF x
      <4>3. x = new
        BY <1>1, <4>2, PathEqual
      <4> QED
        BY <4>3 DEF x
    <3>3. new \in DOMAIN disk'
      BY <3>1, <3>2 DEF Turn, MovedDisk, Present
    <3>4. ASSUME NEW f \in todo', IsPrefix(f[2], new) PROVE FALSE
      <4>1. CASE f \in todo /\ f # e
        BY <1>1, <3>4, <4>1, TurnFacts, PrefixSelf
      <4>2. ASSUME NEW q \in DOMAIN disk, IsPrefix(e[2], q), Len(e[2]) < Len(q),
                   f = Child(e, new, q[Len(e[2]) + 1])
            PROVE  FALSE
        <5>1. f[2] \in Path /\ Len(f[2]) = Len(e[2]) + 1
          BY <4>2, TurnChild DEF Entry
        <5>2. Len(f[2]) <= Len(new)
          BY <1>1, <3>4, <5>1, PrefixFacts
        <5> QED
          BY <1>1, <5>1, <5>2
      <4> QED
        BY <4>1, <4>2 DEF Turn
    <3> QED
      BY <1>1, <2>1, <3>1, <3>3, <3>4 DEF WalkIndex, Under
  <2> QED
    BY <2>2, <2>3
<1> QED
  BY <1>2, <1>3, <1>4, <1>5 DEF WalkTodo, WalkDisk

\* The locations of the rows of a table.
LEMMA LiveLoc ==
  ASSUME NEW R \in Seq(SoundRows), NEW id \in Lives(R)
  PROVE  /\ id \in DOMAIN R /\ R[id] \in SoundRows /\ FilePath(R[id].loc) /\ R[id].loc \in Path
         /\ Len(R[id].loc) \in Nat
<1>1. id \in DOMAIN R /\ R[id] \in SoundRows
  BY LenProperties, ElementOfSeq DEF Lives
<1>2. FilePath(R[id].loc)
  BY <1>1 DEF SoundRows, Sound, Lives
<1> QED
  BY <1>1, <1>2, PathFacts DEF FilePath

\* No row has a location below a name that change_path has just chosen.
LEMMA TurnFresh ==
  ASSUME NEW e, NEW new, Turn(e, new), NEW r \in Int, NEW R \in Seq(SoundRows),
         Open(disk, r), Held(disk, R, r), NEW id \in Lives(R), IsPrefix(new, R[id].loc)
  PROVE  new = e[2]
<1> DEFINE p == R[id].loc
           L == Len(e[2])
<1>1. p \in Path
  BY LiveLoc
<1>2. /\ Entry(e) /\ WalkEntry(e) /\ new \in Path /\ Len(new) = L /\ L \in Nat /\ L > 0
      /\ e[2] \in Path /\ Clean(new)
  BY TurnFacts DEF Entry
<1>3. SUFFICES ASSUME new # e[2] PROVE FALSE
  OBVIOUS
<1>4. /\ e[2][L].form # 0 /\ ~Exists(new)
      /\ (\A i \in 1..L - 1 : new[i] = e[2][i]) /\ new[L].ext = e[2][L].ext
  BY <1>3 DEF Turn, Renames
<1>5. PICK q \in DOMAIN disk : IsPrefix(e[2], q)
  BY DEF Turn, WalkState, WalkTodo, In
<1>6. q \in Path
  BY TurnFacts
<1>7. Len(q) \in Nat /\ L <= Len(q) /\ \A i \in 1..L : e[2][i] = q[i]
  BY <1>2, <1>5, <1>6, PathFacts, PrefixFacts
<1> HIDE DEF L
<1>8. q[L].form # 0 /\ L \in 1..Len(q)
  BY <1>2, <1>4, <1>7
<1>9. OpenTo(q, L, r)
  BY <1>8 DEF Open
<1>10. PICK i \in 1..L : q[i].ext > r
  BY <1>9 DEF OpenTo
<1>11. new[i].ext > r
  <2>1. CASE i = L
    BY <1>4, <1>7, <1>10, <2>1
  <2>2. CASE i # L
    <3>1. i \in 1..L - 1
      BY <1>2, <2>2
    <3> QED
      BY <1>4, <1>7, <1>10, <3>1
  <2> QED
    BY <2>1, <2>2
<1> HIDE DEF p
<1>12. Len(p) \in Nat /\ L <= Len(p) /\ \A j \in 1..L : new[j] = p[j]
  BY <1>1, <1>2, PathFacts, PrefixFacts DEF p
<1>13. OpenTo(p, L, r)
  BY <1>10, <1>11, <1>12 DEF OpenTo
<1>14. CleanTo(p, L)
  BY <1>2, <1>12 DEF Clean, CleanTo
<1>15. L \in 1..Len(p)
  BY <1>2, <1>12
<1>16. In(disk, SubSeq(p, 1, L))
  BY <1>13, <1>14, <1>15 DEF Held, p
<1>17. SubSeq(p, 1, L) = new
  <2>1. L \in 0..Len(p)
    BY <1>2, <1>12
  <2> DEFINE s == SubSeq(p, 1, L)
  <2>2. s \in Path /\ Len(s) = L /\ \A j \in 1..L : s[j] = p[j]
    BY <1>1, <2>1, SubPath
  <2> HIDE DEF s
  <2>3. s = new
    BY <1>2, <1>12, <2>2, PathEqual
  <2> QED
    BY <2>3 DEF s
<1> QED
  BY <1>4, <1>16, <1>17 DEF In, Exists

\* A renaming brings no file to the location of a row.
LEMMA TurnPresent ==
  ASSUME NEW e, NEW new, Turn(e, new), NEW r \in Int, NEW R \in Seq(SoundRows),
         Open(disk, r), Held(disk, R, r), NEW id \in Lives(R), R[id].loc \in DOMAIN disk'
  PROVE  LET p == R[id].loc
         IN p \in DOMAIN disk /\ To(e[2], new, p) = p /\ disk'[p] = disk[p]
<1> DEFINE p == R[id].loc
<1>1. PICK q \in DOMAIN disk : p = To(e[2], new, q) /\ disk'[p] = disk[q]
  BY DEF Turn, MovedDisk
<1>2. To(e[2], new, q) = q
  <2>1. CASE ~IsPrefix(e[2], q)
    BY <2>1 DEF To
  <2>2. CASE IsPrefix(e[2], q)
    <3>1. /\ e[2] \in Path /\ e[2] # <<>> /\ Renames(e[2], new) /\ q \in Path
      BY TurnFacts DEF Turn, Entry
    <3>2. IsPrefix(new, p)
      BY <1>1, <2>2, <3>1, MoveKeeps
    <3>3. new = e[2]
      BY <3>2, TurnFresh
    <3> QED
      BY <3>1, <3>3, MoveKeeps
  <2> QED
    BY <2>1, <2>2
<1> QED
  BY <1>1, <1>2

\* The rows of a table keep their files, and hold their locations.
LEMMA TurnTable ==
  ASSUME NEW e, NEW new, Turn(e, new), NEW r \in Int, NEW R \in Seq(SoundRows),
         Open(disk, r), Held(disk, R, r), Kept(disk, R)
  PROVE  Kept(disk', R) /\ Held(disk', R, r)
<1>1. Kept(disk', R)
  BY TurnPresent DEF Kept
<1>2. ASSUME NEW id \in Lives(R), NEW n \in 1..Len(R[id].loc), CleanTo(R[id].loc, n),
             OpenTo(R[id].loc, n, r)
      PROVE  In(disk', SubSeq(R[id].loc, 1, n))
  <2> DEFINE p == R[id].loc
             s == SubSeq(p, 1, n)
             L == Len(e[2])
  <2>1. p \in Path /\ Len(p) \in Nat
    BY LiveLoc
  <2>2. n \in Nat /\ n \in 0..Len(p)
    BY <2>1
  <2>3. s \in Path /\ Len(s) = n /\ \A i \in 1..n : s[i] = p[i]
    BY <2>1, <2>2, SubPath
  <2>4. PICK q \in DOMAIN disk : IsPrefix(s, q)
    BY <1>2 DEF Held, In
  <2> DEFINE x == To(e[2], new, q)
  <2>5. /\ e[2] \in Path /\ e[2] # <<>> /\ Renames(e[2], new) /\ q \in Path
    BY TurnFacts DEF Turn, Entry
  <2>6. /\ x \in Path /\ Len(x) = Len(q) /\ Len(q) \in Nat /\ L \in Nat /\ L > 0
        /\ \A i \in 1..Len(q) : i # L => x[i] = q[i]
        /\ ~IsPrefix(e[2], q) => x = q
        /\ new = e[2] => x = q
    BY <2>5, MoveKeeps
  <2>7. x \in DOMAIN disk'
    BY DEF Turn, MovedDisk
  <2> HIDE DEF x, s, L, p
  <2>8. n <= Len(q) /\ \A i \in 1..n : s[i] = q[i]
    BY <2>3, <2>4, <2>5, PrefixFacts
  <2>9. \A i \in 1..n : i \in 1..Len(q)
    BY <2>2, <2>6, <2>8
  <2>10. CASE x = q
    BY <2>4, <2>7, <2>10 DEF In, s, p
  <2>11. CASE x # q
    <3>1. /\ IsPrefix(e[2], q) /\ e[2][L].form # 0
      BY <2>6, <2>11 DEF Turn, Renames, L
    <3>2. L \in 1..L /\ \A i \in 1..L : e[2][i] = q[i]
      BY <2>5, <2>6, <3>1, PrefixFacts DEF L
    <3>3. ~(L \in 1..n)
      BY <1>2, <2>3, <2>8, <3>1, <3>2 DEF CleanTo, p
    <3>4. \A i \in 1..n : s[i] = x[i]
      BY <2>6, <2>8, <2>9, <3>3
    <3>5. IsPrefix(s, x)
      BY <2>3, <2>6, <2>8, <3>4, PrefixFacts
    <3> QED
      BY <2>7, <3>5 DEF In, s, p
  <2> QED
    BY <2>10, <2>11
<1> QED
  BY <1>1, <1>2 DEF Held

\* What is not clean stays in the new directories, and the dates stay.
LEMMA TurnNames ==
  ASSUME NEW e, NEW new, Turn(e, new), NEW r \in Int, Open(disk, r), DiskDated(disk), round' = round
  PROVE  Open(disk', r) /\ DiskDated(disk')
<1>1. ASSUME NEW x \in DOMAIN disk'
      PROVE  /\ \A i \in 1..Len(x) : x[i].form # 0 => OpenTo(x, i, r)
             /\ \A i \in 1..Len(x) : x[i].ext <= round
  <2>1. PICK q \in DOMAIN disk : x = To(e[2], new, q)
    BY DEF Turn, MovedDisk
  <2> DEFINE L == Len(e[2])
  <2>2. /\ e[2] \in Path /\ e[2] # <<>> /\ Renames(e[2], new) /\ q \in Path
    BY TurnFacts DEF Turn, Entry
  <2>3. /\ Len(x) = Len(q) /\ Len(q) \in Nat /\ L \in Nat /\ L > 0
        /\ \A i \in 1..Len(q) : i # L => x[i] = q[i]
        /\ \A i \in 1..Len(q) : x[i].ext = q[i].ext
        /\ IsPrefix(e[2], q) => x[L] = new[L]
        /\ ~IsPrefix(e[2], q) => x = q
    <3> DEFINE y == To(e[2], new, q)
    <3>1. /\ Len(y) = Len(q) /\ Len(q) \in Nat /\ L \in Nat /\ L > 0
          /\ \A i \in 1..Len(q) : i # L => y[i] = q[i]
          /\ \A i \in 1..Len(q) : y[i].ext = q[i].ext
          /\ IsPrefix(e[2], q) => y[L] = new[L]
          /\ ~IsPrefix(e[2], q) => y = q
      BY <2>2, MoveKeeps
    <3> HIDE DEF y
    <3> QED
      BY <2>1, <3>1 DEF y
  <2> HIDE DEF L
  <2>4. new[L].form = 0
    BY DEF Turn, Renames, L
  <2>5. ASSUME NEW i \in 1..Len(x), x[i].form # 0 PROVE OpenTo(x, i, r)
    <3>1. i \in 1..Len(q) /\ q[i].form # 0
      BY <2>3, <2>4, <2>5
    <3>2. PICK j \in 1..i : q[j].ext > r
      BY <3>1 DEF Open, OpenTo
    <3>3. j \in 1..Len(q)
      BY <2>3, <3>1
    <3> QED
      BY <2>3, <3>2, <3>3 DEF OpenTo
  <2>6. ASSUME NEW i \in 1..Len(x) PROVE x[i].ext <= round
    BY <2>3, <2>6 DEF DiskDated, Dated
  <2> QED
    BY <2>5, <2>6
<1> QED
  BY <1>1 DEF Open, DiskDated, Dated

\* Replacing all the names.
LEMMA ToWhole ==
  ASSUME NEW p \in Path, NEW q \in Path, Len(p) = Len(q)
  PROVE  To(p, q, p) = q
<1> DEFINE x == To(p, q, p)
<1>1. IsPrefix(p, p)
  BY PrefixSelf
<1>2. x \in Path /\ Len(x) = Len(p) /\ \A i \in 1..Len(p) : x[i] = q[i]
  BY <1>1, ToFacts
<1> HIDE DEF x
<1>3. x = q
  BY <1>2, PathEqual
<1> QED
  BY <1>3 DEF x

\* What has its new name is done with.
LEMMA TurnDone ==
  ASSUME NEW e, NEW new, Turn(e, new)
  PROVE  ~Under(todo', new)
<1>1. /\ new \in Path /\ Len(new) = Len(e[2]) /\ Len(e[2]) \in Nat
  BY TurnFacts
<1>2. ASSUME NEW f \in todo', IsPrefix(f[2], new) PROVE FALSE
  <2>1. CASE f \in todo /\ f # e
    BY <1>1, <1>2, <2>1, TurnFacts, PrefixSelf
  <2>2. ASSUME NEW q \in DOMAIN disk, IsPrefix(e[2], q), Len(e[2]) < Len(q),
               f = Child(e, new, q[Len(e[2]) + 1])
        PROVE  FALSE
    <3>1. f[2] \in Path /\ Len(f[2]) = Len(e[2]) + 1
      BY <2>2, TurnChild DEF Entry
    <3>2. Len(f[2]) <= Len(new)
      BY <1>1, <1>2, <3>1, PrefixFacts
    <3> QED
      BY <1>1, <3>1, <3>2
  <2> QED
    BY <2>1, <2>2 DEF Turn
<1> QED
  BY <1>2 DEF Under

\* A file at the entry itself.
LEMMA TurnAt ==
  ASSUME NEW e, NEW new, Turn(e, new), NEW q \in DOMAIN disk, IsPrefix(e[2], q),
         ~(Len(e[2]) < Len(q))
  PROVE  q = e[2] /\ Present(e[2]) /\ To(e[2], new, q) = new /\ To(e[2], e[1], q) = e[1]
<1>1. /\ e[1] \in Path /\ e[2] \in Path /\ new \in Path /\ Len(new) = Len(e[2]) /\ q \in Path
      /\ Len(e[1]) = Len(e[2]) /\ Len(e[2]) \in Nat /\ Len(q) \in Nat
  BY TurnFacts, PathFacts DEF Entry, WalkEntry
<1>2. Len(e[2]) = Len(q) /\ \A i \in 1..Len(e[2]) : e[2][i] = q[i]
  BY <1>1, PrefixFacts
<1>3. q = e[2]
  BY <1>1, <1>2, PathEqual
<1> QED
  BY <1>1, <1>3, ToWhole DEF Present

\* A row stands for the same file before and after a renaming.
LEMMA TurnStands ==
  ASSUME NamesApart, IndexType(index), NEW e, NEW new, Turn(e, new), NEW ix, ix = Noted(e[1], new, ~Present(e[2])),
         rows \in Seq(SoundRows), NEW r \in Int, Open(disk, r), Held(disk, rows, r),
         WalkRows(disk, index, todo, rows), NEW id \in Lives(rows), NEW q \in DOMAIN disk
  PROVE  Stands(index, todo, rows[id].loc, q) <=> Stands(ix, todo', rows[id].loc, To(e[2], new, q))
<1> DEFINE p == rows[id].loc
           L == Len(e[2])
           x == To(e[2], new, q)
<1>1. /\ \A a, b \in DOMAIN disk : Stands(index, todo, p, a) /\ Stands(index, todo, p, b) => a = b
      /\ p \in DOMAIN disk => Stands(index, todo, p, p)
  BY DEF WalkRows
<1>2. /\ e \in todo /\ e[1] \in Path /\ e[2] \in Path /\ e[2] # <<>> /\ Renames(e[2], new)
      /\ Len(e[1]) = L /\ L \in Nat /\ q \in Path /\ new \in Path /\ Len(new) = L
      /\ DiskType
  BY TurnFacts DEF Turn, Entry, WalkEntry
<1>3. /\ x \in Path /\ Len(x) = Len(q) /\ Len(q) \in Nat
      /\ \A i \in 1..Len(q) : i # L => x[i] = q[i]
      /\ IsPrefix(e[2], q) => IsPrefix(new, x)
      /\ ~IsPrefix(e[2], q) => x = q
  BY <1>2, MoveKeeps
<1>4. \/ ix = index /\ (~Present(e[2]) \/ new = e[1])
      \/ /\ Present(e[2]) /\ new # e[1] /\ DOMAIN ix = DOMAIN index \cup {e[1]} /\ ix[e[1]] = new
         /\ \A o \in DOMAIN index : o # e[1] => ix[o] = index[o]
  <2>1. CASE ~Present(e[2]) \/ new = e[1]
    BY <2>1 DEF Noted
  <2>2. CASE Present(e[2]) /\ new # e[1]
    <3>1. ix = [o \in DOMAIN index \cup {e[1]} |-> IF o = e[1] THEN new ELSE index[o]]
      BY <1>2, <2>2, AddFileApart DEF Noted
    <3> QED
      BY <2>2, <3>1
  <2> QED
    BY <2>1, <2>2
<1>5. \A o \in DOMAIN index : index[o] \in DOMAIN disk /\ ~Under(todo, index[o])
                              /\ ~IsPrefix(e[2], index[o])
  BY <1>2 DEF Turn, WalkState, WalkIndex, Under
<1>6. ASSUME Present(e[2]) PROVE Stands(index, todo, e[1], e[2]) /\ e[2] \in DOMAIN disk
  <2>1. To(e[2], e[1], e[2]) = e[1] /\ IsPrefix(e[2], e[2])
    BY <1>2, ToWhole, PrefixSelf
  <2> QED
    BY <1>2, <1>6, <2>1 DEF Stands, Present
<1>7. IsPrefix(e[2], e[2])
  BY <1>2, PrefixSelf
<1>8. ~IsPrefix(e[2], q) => (Under(todo', q) <=> Under(todo, q))
  BY TurnStays
<1>9. \A f : f \in todo' <=>
       \/ f \in todo /\ f # e
       \/ \E s \in DOMAIN disk : /\ IsPrefix(e[2], s) /\ L < Len(s)
                                 /\ f = Child(e, new, s[L + 1])
  BY DEF Turn
<1>17. Stands(index, todo, p, q) <=>
         \/ p \in DOMAIN index /\ index[p] = q
         \/ \E f \in todo : IsPrefix(f[2], q) /\ p = To(f[2], f[1], q)
         \/ p = q /\ p \notin DOMAIN index /\ ~Under(todo, q)
  BY DEF Stands
<1>18. Stands(ix, todo', p, x) <=>
         \/ p \in DOMAIN ix /\ ix[p] = x
         \/ \E f \in todo' : IsPrefix(f[2], x) /\ p = To(f[2], f[1], x)
         \/ p = x /\ p \notin DOMAIN ix /\ ~Under(todo', x)
  BY DEF Stands
<1> HIDE DEF p, x, L
<1>10. ASSUME p \in DOMAIN index, index[p] = q
       PROVE  Stands(ix, todo', p, x)
  <2>1. ~IsPrefix(e[2], q) /\ x = q /\ Stands(index, todo, p, q)
    BY <1>3, <1>5, <1>10, <1>17
  <2>2. ASSUME p = e[1], Present(e[2]) PROVE FALSE
    BY <1>1, <1>6, <1>7, <2>1, <2>2
  <2> QED
    BY <1>4, <1>10, <1>18, <2>1, <2>2
<1>11. ASSUME NEW f \in todo, IsPrefix(f[2], q), p = To(f[2], f[1], q)
       PROVE  Stands(ix, todo', p, x)
  <2>1. CASE f # e
    <3>1. ~IsPrefix(e[2], q) /\ f \in todo'
      BY <1>2, <1>9, <1>11, <2>1, TurnFacts
    <3>2. x = q
      BY <1>3, <3>1
    <3> QED
      BY <1>11, <1>18, <3>1, <3>2
  <2>2. CASE f = e /\ L < Len(q)
    <3> DEFINE c == Child(e, new, q[L + 1])
    <3>1. c \in todo'
      BY <1>9, <1>11, <2>2
    <3>2. IsPrefix(c[2], x) /\ To(c[2], c[1], x) = To(e[2], e[1], q)
      BY <1>11, <2>2, TurnChild DEF L, x
    <3> HIDE DEF c
    <3> QED
      BY <1>11, <1>18, <2>2, <3>1, <3>2
  <2>3. CASE f = e /\ ~(L < Len(q))
    <3>1. q = e[2] /\ Present(e[2]) /\ x = new /\ p = e[1]
      BY <1>11, <2>3, TurnAt DEF L, x
    <3>2. CASE new # e[1]
      BY <1>4, <1>18, <3>1, <3>2
    <3>3. CASE new = e[1]
      <4>1. ix = index
        BY <1>4, <3>3
      <4>2. p \notin DOMAIN index
        <5>1. SUFFICES ASSUME p \in DOMAIN index PROVE FALSE
          OBVIOUS
        <5>2. Stands(index, todo, p, index[p])
          BY <5>1 DEF Stands
        <5>3. index[p] = e[2]
          BY <1>1, <1>5, <1>6, <3>1, <5>1, <5>2
        <5> QED
          BY <1>5, <1>7, <5>1, <5>3
      <4>3. ~Under(todo', new)
        BY TurnDone
      <4> QED
        BY <1>18, <3>1, <3>3, <4>1, <4>2, <4>3
    <3> QED
      BY <3>2, <3>3
  <2> QED
    BY <2>1, <2>2, <2>3
<1>12. ASSUME p = q, p \notin DOMAIN index, ~Under(todo, q)
       PROVE  Stands(ix, todo', p, x)
  <2>1. ~IsPrefix(e[2], q) /\ x = q /\ ~Under(todo', q) /\ Stands(index, todo, p, q)
    BY <1>2, <1>3, <1>8, <1>12, <1>17 DEF Under
  <2>2. ASSUME p = e[1], Present(e[2]) PROVE FALSE
    BY <1>1, <1>6, <1>7, <2>1, <2>2
  <2>3. p \notin DOMAIN ix
    BY <1>4, <1>12, <2>2
  <2> QED
    BY <1>12, <1>18, <2>1, <2>3
<1>13. ASSUME p \in DOMAIN ix, ix[p] = x
       PROVE  Stands(index, todo, p, q)
  <2>1. CASE p = e[1] /\ Present(e[2]) /\ new # e[1]
    <3>1. To(e[2], new, e[2]) = new /\ x = new
      BY <1>2, <1>4, <1>13, <2>1, ToWhole DEF L
    <3>2. q = e[2]
      BY <1>2, <1>6, <2>1, <3>1, ToInjective DEF x
    <3> QED
      BY <1>6, <2>1, <3>2
  <2>2. CASE ~(p = e[1] /\ Present(e[2]) /\ new # e[1])
    <3>1. p \in DOMAIN index /\ index[p] = x
      BY <1>4, <1>13, <2>2
    <3>2. x \in DOMAIN disk /\ ~IsPrefix(e[2], x)
      BY <1>5, <3>1
    <3>3. To(e[2], new, x) = x
      BY <3>2 DEF To
    <3>4. q = x
      BY <1>2, <3>2, <3>3, ToInjective DEF x
    <3> QED
      BY <1>17, <3>1, <3>4
  <2> QED
    BY <2>1, <2>2
<1>14. ASSUME NEW f \in todo', IsPrefix(f[2], x), p = To(f[2], f[1], x)
       PROVE  Stands(index, todo, p, q)
  <2>1. CASE f \in todo /\ f # e
    <3>1. ~IsPrefix(new, x)
      BY <1>3, <1>14, <2>1, TurnFacts
    <3>2. x = q
      BY <1>3, <3>1
    <3> QED
      BY <1>14, <1>17, <2>1, <3>2
  <2>2. ASSUME NEW s \in DOMAIN disk, IsPrefix(e[2], s), L < Len(s), f = Child(e, new, s[L + 1])
        PROVE  Stands(index, todo, p, q)
    <3>1. /\ f[2] \in Path /\ Len(f[2]) = L + 1 /\ f[2][L + 1] = s[L + 1]
          /\ \A y \in Path : IsPrefix(f[2], y) => IsPrefix(new, y)
      BY <2>2, TurnChild DEF Entry, L
    <3>2. IsPrefix(new, x)
      BY <1>3, <1>14, <3>1
    <3>3. IsPrefix(e[2], q)
      <4>1. SUFFICES ASSUME ~IsPrefix(e[2], q) PROVE FALSE
        OBVIOUS
      <4>2. x = q
        BY <1>3, <4>1
      <4>3. new = e[2]
        BY <3>2, <4>2, TurnFacts
      <4> QED
        BY <3>2, <4>1, <4>2, <4>3
    <3>4. Len(f[2]) <= Len(x) /\ \A i \in 1..Len(f[2]) : f[2][i] = x[i]
      BY <1>3, <1>14, <3>1, PrefixFacts
    <3>5. L + 1 \in 1..Len(f[2]) /\ L + 1 \in 1..Len(q) /\ L + 1 # L /\ L < Len(q)
      BY <1>2, <1>3, <3>1, <3>4
    <3>6. q[L + 1] = s[L + 1]
      BY <1>3, <3>1, <3>4, <3>5
    <3>7. f = Child(e, new, q[L + 1])
      BY <2>2, <3>6
    <3>8. To(f[2], f[1], x) = To(e[2], e[1], q)
      BY <3>3, <3>5, <3>7, TurnChild DEF L, x
    <3> QED
      BY <1>2, <1>14, <1>17, <3>3, <3>8
  <2> QED
    BY <1>9, <2>1, <2>2
<1>15. ASSUME p = x, p \notin DOMAIN ix, ~Under(todo', x)
       PROVE  Stands(index, todo, p, q)
  <2>1. CASE ~IsPrefix(e[2], q)
    <3>1. x = q /\ ~Under(todo, q) /\ p \notin DOMAIN index
      BY <1>3, <1>4, <1>8, <1>15, <2>1
    <3> QED
      BY <1>15, <1>17, <3>1
  <2>2. CASE IsPrefix(e[2], q) /\ L < Len(q)
    <3> DEFINE c == Child(e, new, q[L + 1])
    <3>1. c \in todo'
      BY <1>9, <2>2
    <3>2. IsPrefix(c[2], x)
      BY <2>2, TurnChild DEF L, x
    <3> HIDE DEF c
    <3> QED
      BY <1>15, <3>1, <3>2 DEF Under
  <2>3. CASE IsPrefix(e[2], q) /\ ~(L < Len(q))
    <3>1. q = e[2] /\ x = new
      BY <2>3, TurnAt DEF L, x
    <3>2. IsPrefix(new, p)
      BY <1>2, <1>15, <3>1, PrefixSelf
    <3>3. new = e[2]
      BY <3>2, TurnFresh DEF p
    <3> QED
      BY <1>1, <1>15, <3>1, <3>3
  <2> QED
    BY <2>1, <2>2, <2>3
<1>16. Stands(index, todo, p, q) => Stands(ix, todo', p, x)
  BY <1>10, <1>11, <1>12, <1>17
<1>19. Stands(ix, todo', p, x) => Stands(index, todo, p, q)
  BY <1>13, <1>14, <1>15, <1>18
<1> QED
  BY <1>16, <1>19 DEF p, x

\* The rows during the walk, after a renaming.
LEMMA TurnRows ==
  ASSUME NamesApart, IndexType(index), NEW e, NEW new, Turn(e, new), NEW ix, ix = Noted(e[1], new, ~Present(e[2])),
         rows \in Seq(SoundRows), NEW r \in Int, Open(disk, r), Held(disk, rows, r),
         WalkRows(disk, index, todo, rows)
  PROVE  WalkRows(disk', ix, todo', rows)
<1>1. \A x \in DOMAIN disk' : \E q \in DOMAIN disk : x = To(e[2], new, q) /\ disk'[x] = disk[q]
  BY DEF Turn, MovedDisk
<1> SUFFICES ASSUME NEW id \in Lives(rows)
             PROVE  LET p == rows[id].loc
                    IN /\ \A x \in DOMAIN disk' : Stands(ix, todo', p, x) => disk'[x] = rows[id].content
                       /\ \A x, y \in DOMAIN disk' :
                            Stands(ix, todo', p, x) /\ Stands(ix, todo', p, y) => x = y
                       /\ p \in DOMAIN disk' => Stands(ix, todo', p, p)
  BY DEF WalkRows
<1> DEFINE p == rows[id].loc
<1>2. /\ \A q \in DOMAIN disk : Stands(index, todo, p, q) => disk[q] = rows[id].content
      /\ \A a, b \in DOMAIN disk : Stands(index, todo, p, a) /\ Stands(index, todo, p, b) => a = b
      /\ p \in DOMAIN disk => Stands(index, todo, p, p)
  BY DEF WalkRows
<1>3. \A q \in DOMAIN disk : Stands(index, todo, p, q) <=> Stands(ix, todo', p, To(e[2], new, q))
  BY TurnStands
<1>4. p \in DOMAIN disk' => p \in DOMAIN disk /\ To(e[2], new, p) = p
  BY TurnPresent
<1> HIDE DEF p
<1>5. ASSUME NEW x \in DOMAIN disk', Stands(ix, todo', p, x) PROVE disk'[x] = rows[id].content
  BY <1>1, <1>2, <1>3, <1>5
<1>6. ASSUME NEW x \in DOMAIN disk', NEW y \in DOMAIN disk', Stands(ix, todo', p, x),
             Stands(ix, todo', p, y)
      PROVE  x = y
  BY <1>1, <1>2, <1>3, <1>6
<1>7. ASSUME p \in DOMAIN disk' PROVE Stands(ix, todo', p, p)
  BY <1>2, <1>3, <1>4, <1>7
<1> QED
  BY <1>5, <1>6, <1>7 DEF p

\* The rows stand for the same files once an index is applied to the table.
LEMMA FlushStands ==
  ASSUME NamesApart, rows \in Seq(SoundRows), NEW ix, IndexType(ix), NEW d, NEW T, WalkIndex(d, ix, T),
         \A e \in T : Entry(e) /\ WalkEntry(e), \A q \in DOMAIN d : q \in Path,
         WalkRows(d, ix, T, rows), NEW id \in Lives(rows), NEW q \in DOMAIN d
  PROVE  Stands(ix, T, rows[id].loc, q) <=> Stands(<<>>, T, FileUpdates(ix)[id].loc, q)
<1> DEFINE p == rows[id].loc
           n == FileUpdates(ix)[id].loc
<1>1. id \in DOMAIN rows /\ Live(id)
  BY DEF Lives, Live
<1>2. n = IF p \in DOMAIN ix THEN ix[p] ELSE p
  BY <1>1, FileUpdatesApart
<1>3. DOMAIN (<<>>) = {}
  OBVIOUS
<1>4. \A a, b \in DOMAIN d : Stands(ix, T, p, a) /\ Stands(ix, T, p, b) => a = b
  BY DEF WalkRows
<1> HIDE DEF p, n
<1>5. Stands(ix, T, p, q) <=>
         \/ p \in DOMAIN ix /\ ix[p] = q
         \/ \E f \in T : IsPrefix(f[2], q) /\ p = To(f[2], f[1], q)
         \/ p = q /\ p \notin DOMAIN ix /\ ~Under(T, q)
  BY DEF Stands
<1>6. Stands(<<>>, T, n, q) <=>
         \/ \E f \in T : IsPrefix(f[2], q) /\ n = To(f[2], f[1], q)
         \/ n = q /\ ~Under(T, q)
  BY <1>3 DEF Stands
<1>7. CASE p \notin DOMAIN ix
  BY <1>2, <1>5, <1>6, <1>7 DEF p, n
<1>8. CASE p \in DOMAIN ix
  <2>1. n = ix[p] /\ Clean(n) /\ n \in DOMAIN d /\ ~Under(T, n) /\ n \in Path
    BY <1>2, <1>8 DEF WalkIndex
  <2>2. Stands(ix, T, p, n)
    BY <1>8, <2>1 DEF Stands
  <2>3. ASSUME Stands(ix, T, p, q) PROVE Stands(<<>>, T, n, q)
    BY <1>4, <1>6, <2>1, <2>2, <2>3
  <2>4. ASSUME NEW f \in T, IsPrefix(f[2], q), n = To(f[2], f[1], q) PROVE FALSE
    <3>1. /\ f[1] \in Path /\ f[2] \in Path /\ Len(f[1]) = Len(f[2]) /\ q \in Path
          /\ \A i \in 1..Len(f[1]) : f[1][i].form = 0 => f[2][i] = f[1][i]
      BY DEF Entry, WalkEntry
    <3> DEFINE x == To(f[2], f[1], q)
    <3>2. f[2] \in Path /\ f[1] \in Path /\ Len(f[2]) = Len(f[1]) /\ q \in Path
      BY <3>1
    <3>3. /\ Len(x) = Len(q) /\ IsPrefix(f[2], q) => \A i \in 1..Len(f[2]) : x[i] = f[1][i]
      BY ONLY <3>2, ToFacts
    <3>4. Len(f[2]) <= Len(q) /\ Len(q) \in Nat /\ Len(f[2]) \in Nat
      BY <2>4, <3>1, PathFacts, PrefixFacts
    <3> HIDE DEF x
    <3>5. n = x
      BY <2>4 DEF x
    <3>6. Len(x) = Len(q) /\ \A i \in 1..Len(f[2]) : x[i] = f[1][i]
      <4>1. Len(x) = Len(q)
        BY <3>2, ToFacts DEF x
      <4> QED
        BY <2>4, <3>3, <4>1
    <3>7. \A i \in 1..Len(f[2]) : i \in 1..Len(x)
      BY <3>4, <3>6
    <3>8. \A i \in 1..Len(f[2]) : f[1][i].form = 0
      BY <2>1, <3>5, <3>6, <3>7 DEF Clean, CleanTo
    <3>9. \A i \in 1..Len(f[2]) : f[2][i] = f[1][i]
      BY <3>1, <3>8
    <3>10. f[1] = f[2]
      BY <3>1, <3>9, PathEqual
    <3>11. n = q
      BY <2>4, <3>1, <3>10, ToSame
    <3> QED
      BY <2>1, <2>4, <3>11 DEF Under
  <2>5. ASSUME Stands(<<>>, T, n, q) PROVE Stands(ix, T, p, q)
    BY <1>6, <2>2, <2>4, <2>5
  <2> QED
    BY <2>3, <2>5 DEF p, n
<1> QED
  BY <1>7, <1>8 DEF p, n

\* The rows once an index is applied to the table.
LEMMA FlushRows ==
  ASSUME NamesApart, rows \in Seq(SoundRows), NEW ix, IndexType(ix), NEW d, NEW T, WalkIndex(d, ix, T),
         \A e \in T : Entry(e) /\ WalkEntry(e), \A q \in DOMAIN d : q \in Path,
         WalkRows(d, ix, T, rows), Kept(d, rows)
  PROVE  /\ WalkRows(d, <<>>, T, FileUpdates(ix)) /\ Kept(d, FileUpdates(ix))
         /\ Lives(FileUpdates(ix)) = Lives(rows)
<1> DEFINE U == FileUpdates(ix)
<1>1. /\ U \in Seq(SoundRows) /\ DOMAIN U = DOMAIN rows
      /\ \A id \in DOMAIN rows :
           /\ U[id].removed = rows[id].removed /\ U[id].content = rows[id].content
           /\ U[id].loc = IF Live(id) /\ rows[id].loc \in DOMAIN ix
                          THEN ix[rows[id].loc] ELSE rows[id].loc
  BY FileUpdatesFacts, FileUpdatesApart
<1>2. Lives(U) = Lives(rows)
  BY <1>1 DEF Lives
<1>3. ASSUME NEW id \in Lives(rows), NEW q \in DOMAIN d
      PROVE  Stands(ix, T, rows[id].loc, q) <=> Stands(<<>>, T, U[id].loc, q)
  BY FlushStands
<1> HIDE DEF U
<1>4. ASSUME NEW id \in Lives(rows)
      PROVE  /\ \A q \in DOMAIN d : Stands(<<>>, T, U[id].loc, q) => d[q] = U[id].content
             /\ \A a, b \in DOMAIN d :
                  Stands(<<>>, T, U[id].loc, a) /\ Stands(<<>>, T, U[id].loc, b) => a = b
             /\ U[id].loc \in DOMAIN d => Stands(<<>>, T, U[id].loc, U[id].loc)
  <2>1. /\ \A q \in DOMAIN d : Stands(ix, T, rows[id].loc, q) => d[q] = rows[id].content
        /\ \A a, b \in DOMAIN d :
             Stands(ix, T, rows[id].loc, a) /\ Stands(ix, T, rows[id].loc, b) => a = b
        /\ rows[id].loc \in DOMAIN d => Stands(ix, T, rows[id].loc, rows[id].loc)
    BY DEF WalkRows
  <2>2. id \in DOMAIN rows /\ Live(id) /\ U[id].content = rows[id].content
    BY <1>1 DEF Lives, Live
  <2>3. CASE rows[id].loc \in DOMAIN ix
    <3>1. U[id].loc = ix[rows[id].loc]
      BY <1>1, <2>2, <2>3
    <3>2. U[id].loc \in DOMAIN d => Stands(ix, T, rows[id].loc, U[id].loc)
      BY <2>3, <3>1 DEF Stands
    <3> QED
      BY <1>3, <2>1, <2>2, <3>2
  <2>4. CASE rows[id].loc \notin DOMAIN ix
    <3>1. U[id].loc = rows[id].loc
      BY <1>1, <2>2, <2>4
    <3> QED
      BY <1>3, <2>1, <2>2, <3>1
  <2> QED
    BY <2>3, <2>4
<1>5. WalkRows(d, <<>>, T, U)
  BY <1>2, <1>4 DEF WalkRows
<1>6. Kept(d, U)
  BY <1>5 DEF Kept, WalkRows
<1> QED
  BY <1>2, <1>5, <1>6 DEF U

\* Locations of an index are those of files.
LEMMA FlushHeld ==
  ASSUME rows \in Seq(SoundRows), NEW ix, IndexType(ix), NEW d, NEW T, WalkIndex(d, ix, T),
         NEW r \in Int, Held(d, rows, r), RowsDated(rows), DiskDated(d)
  PROVE  Held(d, FileUpdates(ix), r) /\ RowsDated(FileUpdates(ix))
<1> DEFINE U == FileUpdates(ix)
<1>1. /\ U \in Seq(SoundRows) /\ DOMAIN U = DOMAIN rows
      /\ \A id \in DOMAIN rows :
           /\ U[id].removed = rows[id].removed
           /\ U[id].loc = rows[id].loc \/ \E q \in DOMAIN ix : U[id].loc = ix[q]
  BY FileUpdatesFacts
<1> HIDE DEF U
<1>2. \A id \in Lives(U) : /\ id \in Lives(rows)
                           /\ U[id].loc = rows[id].loc \/ U[id].loc \in DOMAIN d
  BY <1>1 DEF Lives, WalkIndex
<1>3. ASSUME NEW id \in Lives(U), U[id].loc \in DOMAIN d, NEW n \in 1..Len(U[id].loc)
      PROVE  In(d, SubSeq(U[id].loc, 1, n))
  <2> DEFINE p == U[id].loc
             s == SubSeq(p, 1, n)
  <2>1. p \in Path /\ Len(p) \in Nat
    BY <1>1, LiveLoc
  <2>2. n \in 0..Len(p) /\ n <= Len(p)
    BY <2>1
  <2>3. s \in Path /\ Len(s) = n /\ \A i \in 1..n : s[i] = p[i]
    BY <2>1, <2>2, SubPath
  <2> HIDE DEF s, p
  <2>4. IsPrefix(s, p)
    BY <2>1, <2>2, <2>3, PrefixFacts
  <2> QED
    BY <1>3, <2>4 DEF In, s, p
<1>4. Held(d, U, r)
  BY <1>2, <1>3 DEF Held
<1>5. RowsDated(U)
  BY <1>2 DEF RowsDated, DiskDated
<1> QED
  BY <1>4, <1>5 DEF U

-----------------------------------------------------------------------------
(* The invariant, script by script.                                        *)

\* Where a script of this run may go.
LEMMA AfterFacts ==
  ASSUME script \in Scripts, NEW c, Finish(c)
  PROVE  /\ stage' = "begin" /\ DOMAIN index' = {} /\ todo' = {} /\ tasks' = {}
         /\ script = "hidden" => script' = "unneeded"
         /\ script = "unneeded" => script' = "assign"
         /\ script = "assign" => script' = (IF c = 0 THEN "names" ELSE "failed")
         /\ script = "names" => script' = (IF c = 0 THEN "has" ELSE "failed")
         /\ script = "has" => script' \in {"extract", "sip"}
         /\ script = "extract" => script' = (IF c = 0 THEN "names2" ELSE "failed")
         /\ script = "names2" => script' = "unneeded2"
         /\ script = "unneeded2" => script' = "has2"
         /\ script = "has2" => script' \in {"extract", "sip"}
         /\ script = "sip" => script' = (IF c = 0 THEN "linking" ELSE "failed")
         /\ script = "linking" => script' \in Ended
<1>1. script' \in After(script, c) /\ stage' = "begin" /\ index' = <<>> /\ todo' = {} /\ tasks' = {}
  BY DEF Finish
<1>2. DOMAIN (<<>>) = {}
  OBVIOUS
<1> QED
  BY <1>1, <1>2
     DEF After, AfterHidden, AfterUnneeded, AfterAssign, AfterNames, AfterHas, AfterExtract,
         AfterNames2, AfterUnneeded2, AfterHas2, AfterSIP, AfterLinking, Ended, Scripts

\* Fewer files on disk.
LEMMA FewerFiles ==
  ASSUME NEW d, NEW x, x = d \/ \E p : x = Restrict(d, DOMAIN d \ {p})
  PROVE  /\ DOMAIN x \subseteq DOMAIN d /\ \A q \in DOMAIN x : x[q] = d[q]
         /\ DiskDated(d) => DiskDated(x)
         /\ Tidy(d) => Tidy(x)
         /\ \A R : Kept(d, R) => Kept(x, R)
<1>1. DOMAIN x \subseteq DOMAIN d /\ \A q \in DOMAIN x : x[q] = d[q]
  BY DEF Restrict
<1>2. \A R : Kept(d, R) => Kept(x, R)
  BY <1>1 DEF Kept
<1> QED
  BY <1>1, <1>2 DEF DiskDated, Tidy

\* Rows that are as they were, or gone.
LEMMA FewerRows ==
  ASSUME NEW d, NEW R, NEW U, \A id \in Lives(U) : id \in Lives(R) /\ U[id] = R[id]
  PROVE  /\ Kept(d, R) => Kept(d, U)
         /\ RowsDated(R) => RowsDated(U)
BY DEF Kept, RowsDated

\* Nothing in an empty table.
LEMMA EmptyTable ==
  ASSUME NEW d
  PROVE  Kept(d, <<>>) /\ RowsDated(<<>>) /\ Lives(<<>>) = {}
<1>1. Lives(<<>>) = {}
  BY DEF Lives
<1> QED
  BY <1>1 DEF Kept, RowsDated

\* The parts of the invariant that no script changes.
Basis ==
  /\ Kept(disk, rows) /\ RowsDated(rows) /\ DiskDated(disk)
  /\ stage = "work" => Kept(disk, saved) /\ RowsDated(saved)
  /\ stage = "begin" => DOMAIN index = {}

\* The invariant holds in states of processing that has ended.
LEMMA EndNaming ==
  ASSUME Basis', script' \in Ended
  PROVE  Naming'
BY DEF Naming, Basis, Ended, Before, Assigning, Walking, Extracting, Quiet, Walks

\* The basis when a job ends that changed nothing in the last step.
LEMMA FinishBasis ==
  ASSUME Naming, script \in Scripts, NEW c, Finish(c), UNCHANGED <<disk, rows, round>>
  PROVE  Basis'
BY AfterFacts DEF Naming, Basis, RowsDated, DiskDated, Dated

\* The basis when a script starts.
LEMMA StartBasis ==
  ASSUME Naming, NEW S, Start(S), UNCHANGED round
  PROVE  /\ Basis' /\ stage' = "work" /\ todo' = S /\ saved' = rows
         /\ UNCHANGED <<script, disk, rows, index>> /\ DOMAIN index = {}
BY DEF Start, Naming, Basis, RowsDated, DiskDated, Dated

\* The scripts that walk or extract nothing start.
LEMMA StartNaming ==
  ASSUME Naming, StartHidden \/ StartPerFile \/ StartAssign \/ StartSIP
  PROVE  Naming'
<1>1. PICK S : Start(S)
  BY DEF StartHidden, StartPerFile, StartAssign, StartSIP
<1>2. /\ UNCHANGED round
      /\ script \in {"hidden", "unneeded", "unneeded2", "linking", "assign", "sip"}
  BY DEF StartHidden, StartPerFile, StartAssign, StartSIP
<1>3. /\ Basis' /\ stage' = "work" /\ saved' = rows /\ UNCHANGED <<script, disk, rows, index>>
  BY <1>1, <1>2, StartBasis
<1> QED
  BY <1>2, <1>3
     DEF Naming, Basis, Before, Assigning, Walking, Extracting, Quiet, Walks, Lives, Present, Tidy

\* Hidden files are removed.
LEMMA HiddenNaming ==
  ASSUME Types, Naming, RemoveHidden
  PROVE  Naming'
<1>1. /\ script = "hidden" /\ stage = "work" /\ UNCHANGED <<rows, saved, round>>
      /\ rows = <<>> /\ saved = <<>>
  BY DEF RemoveHidden, Naming, Before
<1>2. CASE todo = {}
  <2>1. Finish(0) /\ disk' = disk
    BY <1>2 DEF RemoveHidden
  <2>2. Basis' /\ script' = "unneeded"
    BY <1>1, <2>1, FinishBasis, AfterFacts DEF Scripts
  <2> QED
    BY <1>1, <2>2 DEF Naming, Basis, Before, Assigning, Walking, Extracting, Quiet, Walks
<1>3. CASE todo # {}
  <2>1. PICK p \in todo : /\ disk' = Restrict(disk, DOMAIN disk \ {p})
                          /\ UNCHANGED <<script, stage, index>>
    BY <1>3 DEF RemoveHidden
  <2>2. DiskDated(disk')
    BY <2>1, FewerFiles DEF Naming
  <2>3. Basis'
    BY <1>1, <2>1, <2>2, EmptyTable DEF Basis, DiskDated, RowsDated, Dated
  <2> QED
    BY <1>1, <2>1, <2>3 DEF Naming, Basis, Before, Assigning, Walking, Extracting, Quiet, Walks
<1> QED
  BY <1>2, <1>3

\* What the task of a file leaves of the rows.
LEMMA TaskRows ==
  ASSUME Types, script \in PerFile, stage = "work", NEW t \in todo, TaskDone(t)
  PROVE  /\ \A id \in Lives(rows') : id \in Lives(rows) /\ rows'[id] = rows[id]
         /\ rows = <<>> => rows' = rows
         /\ disk' = disk \/ \E p : disk' = Restrict(disk, DOMAIN disk \ {p})
         /\ DOMAIN rows' = DOMAIN rows
         /\ \A id \in DOMAIN rows : rows'[id].first = rows[id].first /\ rows'[id].content = rows[id].content
<1>1. rows' = rows \/ (t[1] # 0 /\ rows' = Gone(rows, t[1]))
  BY DEF TaskDone
<1>2. disk' = disk \/ \E p : disk' = Restrict(disk, DOMAIN disk \ {p})
  BY DEF TaskDone
<1>3. CASE rows' = rows
  BY <1>2, <1>3 DEF Lives
<1>4. CASE t[1] # 0 /\ rows' = Gone(rows, t[1])
  <2>1. rows \in Seq(SoundRows) /\ t[1] \in DOMAIN rows
    BY <1>4 DEF Types, Tables, TasksType
  <2>2. /\ DOMAIN rows' = DOMAIN rows
        /\ rows'[t[1]].removed /\ rows'[t[1]].first = rows[t[1]].first
        /\ rows'[t[1]].content = rows[t[1]].content
        /\ \A k \in DOMAIN rows : k # t[1] => rows'[k] = rows[k]
    BY <1>4, <2>1, RemovedFacts
  <2>3. rows # <<>>
    BY <2>1
  <2> QED
    BY <1>2, <2>2, <2>3 DEF Lives
<1> QED
  BY <1>1, <1>3, <1>4

\* The scripts that run once per file.
LEMMA PerFileNaming ==
  ASSUME Types, Naming, RemoveUnneeded \/ RemoveUnlinked
  PROVE  Naming'
<1>1. /\ script \in PerFile /\ script \in Scripts /\ stage = "work" /\ UNCHANGED <<saved, round>>
      /\ script = "unneeded" => rows = <<>> /\ saved = <<>>
      /\ script \in {"unneeded2", "linking"} => Tidy(disk)
  BY DEF RemoveUnneeded, RemoveUnlinked, PerFile, Scripts, Naming, Before, Quiet
<1>2. CASE todo = {}
  <2>1. PICK c : Finish(c) /\ UNCHANGED <<disk, rows>>
    BY <1>2 DEF RemoveUnneeded, RemoveUnlinked
  <2>2. Basis'
    BY <1>1, <2>1, FinishBasis
  <2>3. CASE script = "unneeded"
    <3>1. script' = "assign" /\ rows' = <<>> /\ saved' = <<>>
      BY <1>1, <2>1, <2>3, AfterFacts
    <3> QED
      BY <2>2, <3>1, EmptyTable
         DEF Naming, Basis, Before, Assigning, Walking, Extracting, Quiet, Walks
  <2>4. CASE script = "unneeded2"
    <3>1. script' = "has2" /\ Tidy(disk')
      BY <1>1, <2>1, <2>4, AfterFacts
    <3> QED
      BY <2>2, <3>1 DEF Naming, Basis, Before, Assigning, Walking, Extracting, Quiet, Walks
  <2>5. CASE script = "linking"
    BY <1>1, <2>1, <2>2, <2>5, AfterFacts, EndNaming
  <2> QED
    BY <1>1, <2>3, <2>4, <2>5 DEF PerFile
<1>3. CASE todo # {}
  <2>1. PICK t \in todo : TaskDone(t)
    BY <1>3, UnneededTask, UnlinkedTask
  <2>2. UNCHANGED <<script, stage, index>>
    BY <2>1 DEF TaskDone
  <2>3. /\ \A id \in Lives(rows') : id \in Lives(rows) /\ rows'[id] = rows[id]
        /\ rows = <<>> => rows' = rows
        /\ disk' = disk \/ \E p : disk' = Restrict(disk, DOMAIN disk \ {p})
    BY <1>1, <2>1, TaskRows
  <2>4. /\ DiskDated(disk') /\ (Tidy(disk) => Tidy(disk'))
        /\ Kept(disk', rows) /\ Kept(disk', saved)
    <3>1. Kept(disk, rows) /\ Kept(disk, saved) /\ DiskDated(disk)
      BY <1>1 DEF Naming
    <3> QED
      BY <2>3, <3>1, FewerFiles
  <2>5. Kept(disk', rows') /\ RowsDated(rows')
    BY <2>3, <2>4, FewerRows DEF Naming
  <2>6. Basis'
    BY <1>1, <2>2, <2>4, <2>5 DEF Basis, Naming, RowsDated, DiskDated, Dated
  <2> QED
    BY <1>1, <2>2, <2>3, <2>4, <2>6
       DEF PerFile, Naming, Basis, Before, Assigning, Walking, Extracting, Quiet, Walks
<1> QED
  BY <1>2, <1>3

\* A location that is there, with all that is above it.
LEMMA PresentIn ==
  ASSUME NEW d, NEW p \in Path, p \in DOMAIN d, NEW n \in 1..Len(p)
  PROVE  In(d, SubSeq(p, 1, n))
<1> DEFINE s == SubSeq(p, 1, n)
<1>1. Len(p) \in Nat /\ n \in 0..Len(p) /\ n <= Len(p)
  BY PathFacts
<1>2. s \in Path /\ Len(s) = n /\ \A i \in 1..n : s[i] = p[i]
  BY <1>1, SubPath
<1> HIDE DEF s
<1>3. IsPrefix(s, p)
  BY <1>1, <1>2, PrefixFacts
<1> QED
  BY <1>3 DEF In, s

\* UUIDs are assigned.
LEMMA AssignNaming ==
  ASSUME Types, Naming, AssignChunk
  PROVE  Naming'
<1>1. /\ script = "assign" /\ stage = "work" /\ UNCHANGED <<disk, round>>
      /\ saved = rows /\ \A id \in Lives(rows) : Present(rows[id].loc)
  BY DEF AssignChunk, Naming, Assigning
<1>2. CASE todo = {}
  <2>1. Finish(0) /\ UNCHANGED <<rows, saved>>
    BY <1>2 DEF AssignChunk
  <2>2. Basis' /\ script' = "names" /\ stage' = "begin"
    BY <1>1, <2>1, FinishBasis, AfterFacts DEF Scripts
  <2>3. Open(disk, -1)
    <3>1. ASSUME NEW q \in DOMAIN disk, NEW i \in 1..Len(q) PROVE OpenTo(q, i, -1)
      <4>1. q \in Path
        BY DEF Types, DiskOK, FilePath
      <4>2. q[i] \in Names /\ i \in Nat /\ i \in 1..i
        BY <4>1, PathFacts
      <4>3. q[i].ext > -1
        BY <4>2, NameType
      <4> QED
        BY <4>2, <4>3 DEF OpenTo
    <3> QED
      BY <3>1 DEF Open
  <2>4. Held(disk, rows, -1)
    <3>1. rows \in Seq(SoundRows)
      BY DEF Types, Tables
    <3> QED
      BY <1>1, <3>1, LiveLoc, PresentIn DEF Held, Present
  <2>5. -1 \in -1..round'
    BY <1>1 DEF Types, Control
  <2>6. Walking'
    BY <1>1, <2>1, <2>2, <2>3, <2>4, <2>5 DEF Walking
  <2> QED
    BY <2>2, <2>6 DEF Naming, Basis, Before, Assigning, Extracting, Quiet
<1>3. CASE todo # {}
  <2>1. PICK chunk \in SUBSET todo : Assigned(chunk)
    BY <1>3, AssignChunkAssigns
  <2>2. /\ chunk \subseteq todo /\ DOMAIN rows \subseteq DOMAIN rows'
        /\ \A k \in DOMAIN rows : rows'[k] = rows[k]
        /\ \A k \in DOMAIN rows' \ DOMAIN rows :
             \E p \in chunk : rows'[k] = NewRow(p, disk[p], "ingestion", NoFile)
        /\ saved' = rows' /\ UNCHANGED <<script, stage, index>>
    BY <2>1 DEF Assigned
  <2>3. chunk \subseteq DOMAIN disk
    BY <1>1, <2>2 DEF Types, TodoType
  <2>4. ASSUME NEW id \in Lives(rows')
        PROVE  /\ rows'[id].loc \in DOMAIN disk /\ disk[rows'[id].loc] = rows'[id].content
               /\ Dated(rows'[id].loc)
    <3>1. CASE id \in DOMAIN rows
      <4>1. id \in Lives(rows) /\ rows'[id] = rows[id]
        BY <2>2, <2>4, <3>1 DEF Lives
      <4> QED
        BY <1>1, <4>1 DEF Naming, Kept, RowsDated, Present
    <3>2. CASE id \notin DOMAIN rows
      <4>1. PICK p \in chunk : rows'[id] = NewRow(p, disk[p], "ingestion", NoFile)
        BY <2>2, <2>4, <3>2 DEF Lives
      <4>2. rows'[id].loc = p /\ rows'[id].content = disk[p]
        BY <4>1 DEF NewRow
      <4> QED
        BY <2>3, <4>2 DEF Naming, DiskDated
    <3> QED
      BY <3>1, <3>2
  <2>5. Basis'
    BY <1>1, <2>2, <2>4 DEF Basis, Naming, Kept, RowsDated, DiskDated, Dated
  <2>6. Assigning'
    BY <1>1, <2>2, <2>4 DEF Assigning, Present
  <2> QED
    BY <1>1, <2>2, <2>5, <2>6 DEF Naming, Basis, Before, Walking, Extracting, Quiet, Walks
<1> QED
  BY <1>2, <1>3

\* hasPackages says how the workflow goes on.
LEMMA HasNaming ==
  ASSUME Types, Naming, HasPackages
  PROVE  Naming'
<1>1. PICK c : Finish(c)
  BY DEF HasPackages
<1>2. script \in {"has", "has2"} /\ script \in Scripts /\ UNCHANGED <<disk, rows, saved, round>>
  BY DEF HasPackages, Scripts
<1>3. Basis' /\ script' \in {"extract", "sip"} /\ stage' = "begin"
  BY <1>1, <1>2, FinishBasis, AfterFacts
<1>4. Tidy(disk)
  BY <1>2 DEF Naming, Quiet
<1>5. Open(disk, round)
  BY <1>4 DEF Open, Tidy, Clean, CleanTo
<1>6. Unheld(rows, round)
  <2>1. ASSUME NEW id \in Lives(rows), NEW n \in 1..Len(rows[id].loc), OpenTo(rows[id].loc, n, round)
        PROVE  FALSE
    <3> DEFINE p == rows[id].loc
    <3>1. rows \in Seq(SoundRows)
      BY DEF Types, Tables
    <3>2. p \in Path /\ Len(p) \in Nat
      BY <3>1, LiveLoc
    <3>3. Dated(p)
      BY DEF Naming, RowsDated
    <3> HIDE DEF p
    <3>4. PICK i \in 1..n : p[i].ext > round
      BY <2>1 DEF OpenTo, p
    <3>5. i \in 1..Len(p) /\ n \in 1..Len(p)
      BY <3>2 DEF p
    <3>6. p[i] \in Names /\ p[i].ext <= round
      BY <3>2, <3>3, <3>5, PathFacts DEF Dated
    <3>7. p[i].ext \in Nat /\ round \in Nat
      BY <3>6, NameType DEF Types, Control
    <3> QED
      BY <3>4, <3>6, <3>7
  <2> QED
    BY <2>1 DEF Unheld
<1>7. round' \in -1..round'
  BY <1>2 DEF Types, Control
<1>8. Extracting'
  BY <1>2, <1>3, <1>5, <1>6, <1>7 DEF Extracting
<1>9. Quiet'
  BY <1>2, <1>4 DEF Quiet
<1> QED
  BY <1>3, <1>8, <1>9 DEF Naming, Basis, Before, Assigning, Walking, Walks

\* The SIP is created.
LEMMA SIPNaming ==
  ASSUME Types, Naming, CreateSIP \/ CreateSIPAgain
  PROVE  Naming'
<1>0. CASE CreateSIPAgain
  <2>1. /\ script = "sip" /\ script \in Scripts /\ Finish(0) /\ UNCHANGED <<disk, rows, round>>
        /\ Tidy(disk)
    BY <1>0 DEF CreateSIPAgain, Naming, Quiet, Scripts
  <2>2. Basis' /\ script' = "linking" /\ Tidy(disk')
    BY <2>1, FinishBasis, AfterFacts
  <2> QED
    BY <2>2 DEF Naming, Basis, Before, Assigning, Walking, Extracting, Quiet, Walks
<1> SUFFICES ASSUME CreateSIP PROVE Naming'
  BY <1>0
<1>1. /\ script = "sip" /\ script \in Scripts /\ stage = "work" /\ UNCHANGED <<disk, saved, round>>
      /\ Tidy(disk)
  BY DEF CreateSIP, Naming, Quiet, Scripts
<1>2. CASE todo = {}
  <2>1. Finish(0) /\ UNCHANGED rows
    BY <1>2 DEF CreateSIP
  <2>2. Basis' /\ script' = "linking" /\ Tidy(disk')
    BY <1>1, <2>1, FinishBasis, AfterFacts
  <2> QED
    BY <2>2 DEF Naming, Basis, Before, Assigning, Walking, Extracting, Quiet, Walks
<1>3. CASE todo # {}
  <2>1. /\ rows' = [id \in DOMAIN rows |-> IF Live(id) /\ Present(rows[id].loc)
                                           THEN [rows[id] EXCEPT !.sip = TRUE] ELSE rows[id]]
        /\ UNCHANGED <<script, stage, index>>
    BY <1>3 DEF CreateSIP
  <2>2. /\ DOMAIN rows' = DOMAIN rows
        /\ \A id \in DOMAIN rows :
             /\ rows'[id].removed = rows[id].removed
             /\ rows'[id].content = rows[id].content /\ rows'[id].loc = rows[id].loc
    BY <2>1, SipFacts DEF Types, Tables
  <2>3. UNCHANGED <<script, stage, index>>
    BY <2>1
  <2>4. Kept(disk', rows') /\ RowsDated(rows')
    BY <1>1, <2>2 DEF Naming, Kept, RowsDated, Lives
  <2>5. Basis'
    BY <1>1, <2>3, <2>4 DEF Basis, Naming, RowsDated, DiskDated, Dated
  <2> QED
    BY <1>1, <2>3, <2>5 DEF Naming, Basis, Before, Assigning, Walking, Extracting, Quiet, Walks
<1> QED
  BY <1>2, <1>3

\* The walk starts at the top.
LEMMA NamesStart ==
  ASSUME Types, Naming, StartNames
  PROVE  Naming'
<1>1. /\ script \in Walks /\ Start(Children(<<>>, <<>>)) /\ UNCHANGED round
  BY DEF StartNames, Children, Entries, Walks
<1> DEFINE T == Children(<<>>, <<>>)
<1>2. /\ Basis' /\ stage' = "work" /\ todo' = T /\ saved' = rows
      /\ UNCHANGED <<script, disk, rows, index>> /\ DOMAIN index = {}
  BY <1>1, StartBasis
<1>3. <<>> \in Path /\ Len(<<>>) = 0 /\ DiskType
  BY EmptySeq, TableFacts DEF Path
<1>4. ASSUME NEW e \in T
      PROVE  \E n \in Names : /\ e[1] = e[2] /\ e[2] \in Path /\ Len(e[2]) = 1 /\ e[2][1] = n
                              /\ \E q \in DOMAIN disk : IsPrefix(e[2], q)
  <2>1. PICK q \in DOMAIN disk :
          /\ q \in Path /\ 0 < Len(q) /\ q[1] \in Names
          /\ e[1] = Append(<<>>, q[1]) /\ e[2] = Append(<<>>, q[1])
    <3>1. /\ \E q \in DOMAIN disk :
               /\ q \in Path /\ IsPrefix(<<>>, q) /\ Len(<<>>) < Len(q) /\ q[Len(<<>>) + 1] \in Names
               /\ e[1] = Append(<<>>, q[Len(<<>>) + 1]) /\ e[2] = Append(<<>>, q[Len(<<>>) + 1])
      BY <1>3, ChildrenFacts
    <3>2. Len(<<>>) + 1 = 1
      BY <1>3
    <3> QED
      BY <1>3, <3>1, <3>2
  <2>2. e[2] \in Path /\ Len(e[2]) = 1 /\ e[2][1] = q[1]
    <3> DEFINE s == Append(<<>>, q[1])
    <3>0. s \in Path /\ Len(s) = Len(<<>>) + 1 /\ s[Len(<<>>) + 1] = q[1]
      BY <1>3, <2>1, OneMoreName
    <3> HIDE DEF s
    <3>1. e[2] \in Path /\ Len(e[2]) = Len(<<>>) + 1 /\ e[2][Len(<<>>) + 1] = q[1]
      BY <2>1, <3>0 DEF s
    <3> QED
      BY <1>3, <3>1
  <2>3. IsPrefix(e[2], q)
    <3>1. Len(q) \in Nat /\ \A i \in 1..1 : i = 1
      BY <2>1, PathFacts
    <3> QED
      BY <2>1, <2>2, <3>1, PrefixFacts
  <2> QED
    BY <2>1, <2>2, <2>3
<1>5. ASSUME NEW q \in DOMAIN disk PROVE Under(T, q)
  <2>1. q \in Path /\ q # <<>>
    BY DEF Types, DiskOK, FilePath
  <2>2. Len(q) \in Nat /\ Len(q) > 0 /\ q[1] \in Names
    BY <2>1, PathFacts
  <2>3. IsStrictPrefix(<<>>, q)
    <3>1. IsPrefix(<<>>, q)
      BY <1>3, <2>1, <2>2, PrefixFacts
    <3> QED
      BY <1>3, <2>1, <2>2, <3>1, BelowFacts
  <2> DEFINE s == Append(<<>>, q[1])
  <2>4. <<s, s>> \in T
    <3>1. Len(<<>>) + 1 = 1
      BY <1>3
    <3>2. <<Append(<<>>, q[Len(<<>>) + 1]), Append(<<>>, q[Len(<<>>) + 1])>> \in T
      BY <2>3 DEF Children
    <3> QED
      BY <3>1, <3>2
  <2>5. s \in Path /\ Len(s) = 1 /\ s[1] = q[1]
    <3>1. s \in Path /\ Len(s) = Len(<<>>) + 1 /\ s[Len(<<>>) + 1] = q[1]
      BY <1>3, <2>2, OneMoreName
    <3> QED
      BY <1>3, <3>1
  <2>6. <<s, s>>[2] = s
    OBVIOUS
  <2> HIDE DEF s, T
  <2>7. IsPrefix(s, q)
    <3>1. \A i \in 1..1 : i = 1
      OBVIOUS
    <3> QED
      BY <2>1, <2>2, <2>5, <3>1, PrefixFacts, SMTT(60)
  <2> QED
    BY <2>4, <2>6, <2>7 DEF Under
<1> HIDE DEF T
<1>6. WalkTodo(disk, T)
  <2>1. ASSUME NEW e \in T PROVE WalkEntry(e) /\ In(disk, e[2])
    BY <1>4, SMTT(60) DEF WalkEntry, CleanTo, In
  <2>2. ASSUME NEW e \in T, NEW f \in T, IsPrefix(e[2], f[2]) PROVE e = f
    <3>1. /\ e[2] \in Path /\ f[2] \in Path /\ Len(e[2]) = 1 /\ Len(f[2]) = 1
          /\ e[1] = e[2] /\ f[1] = f[2]
      BY <1>4
    <3>2. \A i \in 1..Len(e[2]) : e[2][i] = f[2][i]
      BY <2>2, <3>1, PrefixFacts
    <3>3. e[2] = f[2]
      BY <3>1, <3>2, PathEqual
    <3>4. e = <<e[1], e[2]>> /\ f = <<f[1], f[2]>>
      BY DEF T, Children
    <3> QED
      BY <3>1, <3>3, <3>4
  <2> QED
    BY <2>1, <2>2 DEF WalkTodo
<1>7. WalkDisk(disk, T) /\ WalkIndex(disk, index, T)
  BY <1>2, <1>5 DEF WalkDisk, WalkIndex
<1>8. ASSUME NEW p, NEW q \in DOMAIN disk
      PROVE  Stands(index, T, p, q) <=> p = q
  <2>1. \A e \in T : To(e[2], e[1], q) = q
    <3>1. q \in Path
      BY <1>3 DEF DiskType, FilePath
    <3> QED
      BY <1>4, <3>1, ToSame
  <2>2. \E e \in T : IsPrefix(e[2], q)
    BY <1>5 DEF Under
  <2> QED
    BY <1>2, <2>1, <2>2 DEF Stands, Under
<1>9. WalkRows(disk, index, T, rows)
  BY <1>8 DEF WalkRows, Naming, Kept
<1>10. WalkState' /\ WalkRows(disk, index, todo, rows)'
  BY <1>2, <1>6, <1>7, <1>9 DEF WalkState
<1>11. Walking'
  BY <1>1, <1>2, <1>10 DEF Naming, Walking
<1> QED
  BY <1>1, <1>2, <1>11 DEF Naming, Basis, Before, Assigning, Extracting, Quiet, Walks

\* The walk goes on.
LEMMA NamesStep ==
  ASSUME NamesApart, Types, Naming, ChangeName
  PROVE  Naming'
<1>1. script \in Walks /\ stage = "work" /\ WalkState /\ WalkRows(disk, index, todo, rows)
  BY DEF ChangeName, Walks, Naming, Walking
<1>2. PICK r \in -1..round : Open(disk, r) /\ Held(disk, rows, r) /\ Held(disk, saved, r)
  BY <1>1 DEF Naming, Walking
<1>3. /\ rows \in Seq(SoundRows) /\ saved \in Seq(SoundRows) /\ r \in Int /\ round \in Nat
      /\ Kept(disk, rows) /\ Kept(disk, saved) /\ RowsDated(rows) /\ RowsDated(saved)
      /\ DiskDated(disk)
  BY <1>1, <1>2 DEF Types, Tables, Control, Naming
<1>4. PICK e \in todo : \E new \in Path : Walked(e, new)
  BY ChangeNameWalks
<1>5. PICK new \in Path : Walked(e, new)
  BY <1>4
<1> DEFINE ix == Noted(e[1], new, ~Present(e[2]))
<1>6. /\ IndexType(ix)
      /\ \/ rows' = FileUpdates(ix) /\ index' = <<>>
         \/ index' = ix /\ rows' = rows
      /\ UNCHANGED <<script, stage, saved, round>>
  BY <1>5 DEF Walked
<1>7. Turn(e, new)
  BY <1>1, <1>5, WalkedTurns
<1>8. WalkTodo(disk', todo') /\ WalkDisk(disk', todo') /\ WalkIndex(disk', ix, todo')
  BY <1>7, TurnState
<1>9. WalkRows(disk', ix, todo', rows)
  BY <1>1, <1>2, <1>3, <1>7, TurnRows DEF Types
<1>10. /\ Kept(disk', rows) /\ Held(disk', rows, r)
       /\ Kept(disk', saved) /\ Held(disk', saved, r)
  BY <1>2, <1>3, <1>7, TurnTable
<1>11. Open(disk', r) /\ DiskDated(disk')
  BY <1>2, <1>3, <1>6, <1>7, TurnNames
<1> HIDE DEF ix
<1>12. /\ WalkRows(disk', index', todo', rows') /\ WalkIndex(disk', index', todo')
       /\ Kept(disk', rows') /\ Held(disk', rows', r) /\ RowsDated(rows')
  <2>1. CASE index' = ix /\ rows' = rows
    BY <1>3, <1>8, <1>9, <1>10, <2>1
  <2>2. CASE rows' = FileUpdates(ix) /\ index' = <<>>
    <3>1. \A f \in todo' : Entry(f) /\ WalkEntry(f)
      <4>1. \A f \in todo' : Entry(f)
        BY <1>1, <1>6, TypesStep DEF Types, TodoType, Next, Step
      <4> QED
        BY <1>8, <4>1 DEF WalkTodo
    <3>2. \A q \in DOMAIN disk' : q \in Path
      BY <1>7 DEF Turn, DiskType, FilePath
    <3>3. WalkRows(disk', <<>>, todo', FileUpdates(ix)) /\ Kept(disk', FileUpdates(ix))
      BY <1>3, <1>6, <1>8, <1>9, <1>10, <3>1, <3>2, FlushRows
    <3>4. Held(disk', FileUpdates(ix), r) /\ RowsDated(FileUpdates(ix))
      BY <1>3, <1>6, <1>8, <1>10, <1>11, FlushHeld
    <3>5. WalkIndex(disk', <<>>, todo')
      BY DEF WalkIndex
    <3> QED
      BY <2>2, <3>3, <3>4, <3>5
  <2> QED
    BY <1>6, <2>1, <2>2
<1>13. Basis'
  BY <1>1, <1>3, <1>6, <1>10, <1>11, <1>12 DEF Basis, RowsDated, DiskDated, Dated
<1>14. Walking'
  BY <1>1, <1>2, <1>6, <1>8, <1>10, <1>11, <1>12 DEF Walking, WalkState
<1> QED
  BY <1>1, <1>6, <1>13, <1>14 DEF Naming, Basis, Before, Assigning, Extracting, Quiet, Walks

\* The walk ends: every name is clean.
LEMMA NamesEnd ==
  ASSUME NamesApart, Types, Naming, ChangeNamesEnd
  PROVE  Naming'
<1>1. /\ script \in Walks /\ script \in Scripts /\ stage = "work" /\ todo = {}
      /\ WalkState /\ WalkRows(disk, index, todo, rows)
      /\ rows' = FileUpdates(index) /\ Finish(0) /\ UNCHANGED <<disk, saved, round>>
  BY DEF ChangeNamesEnd, Walks, Naming, Walking, Scripts
<1>2. PICK r \in -1..round : Open(disk, r) /\ Held(disk, rows, r)
  BY <1>1 DEF Naming, Walking
<1>3. /\ rows \in Seq(SoundRows) /\ r \in Int /\ round \in Nat /\ IndexType(index)
      /\ Kept(disk, rows) /\ RowsDated(rows) /\ DiskDated(disk)
      /\ \A q \in DOMAIN disk : q \in Path
  BY <1>2 DEF Types, Tables, Control, Naming, DiskOK, FilePath
<1>4. WalkIndex(disk, index, todo) /\ WalkDisk(disk, todo)
  BY <1>1 DEF WalkState
<1>5. \A f \in todo : Entry(f) /\ WalkEntry(f)
  BY <1>1
<1>6. Kept(disk, rows')
  BY <1>1, <1>3, <1>4, <1>5, FlushRows
<1>7. RowsDated(rows')
  BY <1>1, <1>2, <1>3, <1>4, FlushHeld
<1>8. Tidy(disk)
  BY <1>1, <1>4 DEF WalkDisk, Tidy, Under
<1>9. stage' = "begin" /\ DOMAIN index' = {} /\ script' \in {"has", "unneeded2"}
  BY <1>1, AfterFacts DEF Walks
<1>10. Basis'
  BY <1>1, <1>3, <1>6, <1>7, <1>9 DEF Basis, RowsDated, DiskDated, Dated
<1> QED
  BY <1>1, <1>8, <1>9, <1>10 DEF Naming, Basis, Before, Assigning, Walking, Extracting, Quiet, Walks

\* Members of different packages, or with different names, are extracted to
\* different paths.
LEMMA MemberInjective ==
  ASSUME round \in Nat, round > 0, NEW g, NEW h, FilePath(g), FilePath(h), NEW n \in Names, NEW m \in Names,
         n.ext = 0, m.ext = 0, MemberPath(g, n) = MemberPath(h, m)
  PROVE  g = h /\ n = m
<1> DEFINE x == MemberPath(g, n)
           t == ExtractionTarget(g)
           y == MemberPath(h, m)
           u == ExtractionTarget(h)
           L == Len(g)
<1>1. Len(x) = Len(g) + 1 /\ x[Len(g) + 1] = n /\ \A i \in 1..Len(g) : x[i] = t[i]
  BY MemberPathFacts
<1>2. Len(y) = Len(h) + 1 /\ y[Len(h) + 1] = m /\ \A i \in 1..Len(h) : y[i] = u[i]
  BY MemberPathFacts
<1>3. /\ \A i \in 1..L - 1 : t[i] = g[i]
      /\ t[L].form = g[L].form + 1 /\ t[L].base = g[L].base /\ t[L].num = g[L].num
      /\ g[L] \in Names /\ L \in Nat /\ L > 0
  BY TargetFacts
<1>4. /\ \A i \in 1..Len(h) - 1 : u[i] = h[i]
      /\ u[Len(h)].form = h[Len(h)].form + 1 /\ u[Len(h)].base = h[Len(h)].base
      /\ u[Len(h)].num = h[Len(h)].num
      /\ h[Len(h)] \in Names /\ Len(h) \in Nat /\ Len(h) > 0
  BY TargetFacts
<1>5. x = y
  OBVIOUS
<1> HIDE DEF x, y, t, u, L
<1>6. Len(h) = L /\ n = m
  BY <1>1, <1>2, <1>3, <1>4, <1>5 DEF L
<1>7. \A i \in 1..L : t[i] = u[i]
  BY <1>1, <1>2, <1>5, <1>6 DEF L
<1>8. g \in Path /\ h \in Path /\ g[L].ext = 0 /\ h[L].ext = 0
  BY <1>6 DEF FilePath, L
<1>9. g[L] = h[L]
  <2>1. L \in 1..L
    BY <1>3
  <2>2. t[L] = u[L]
    BY <1>7, <2>1
  <2>3. /\ g[L].form + 1 = h[L].form + 1 /\ g[L].base = h[L].base /\ g[L].num = h[L].num
        /\ g[L] \in Names /\ h[L] \in Names
    BY <1>3, <1>4, <1>6, <2>2
  <2> DEFINE a == g[L]
             b == h[L]
  <2>4. a \in Names /\ b \in Names /\ a.base = b.base /\ a.num = b.num /\ a.ext = b.ext
        /\ a.form + 1 = b.form + 1
    BY <1>8, <2>3
  <2> HIDE DEF a, b
  <2>5. a.form = b.form
    BY <2>4, NameType
  <2>6. a = b
    <3>1. a \in Record /\ b \in Record
      BY <2>4, NameType
    <3> QED
      BY <2>4, <2>5, <3>1 DEF Record
  <2> QED
    BY <2>6 DEF a, b
<1>10. ASSUME NEW i \in 1..L PROVE g[i] = h[i]
  <2>1. CASE i = L
    BY <1>9, <2>1
  <2>2. CASE i # L
    <3>1. i \in 1..L - 1
      BY <1>3, <2>2
    <3> QED
      BY <1>3, <1>4, <1>6, <1>7, <3>1
  <2> QED
    BY <2>1, <2>2
<1>11. g = h
  BY <1>6, <1>8, <1>10, PathEqual DEF L
<1> QED
  BY <1>6, <1>11

\* The last name of the path of a file.
LEMMA FileName ==
  ASSUME NEW p, FilePath(p)
  PROVE  p \in Path /\ Len(p) \in Nat /\ Len(p) > 0 /\ p[Len(p)] \in Names /\ p[Len(p)].ext = 0
<1>1. p \in Path /\ p # <<>> /\ p[Len(p)].ext = 0
  BY DEF FilePath
<1> QED
  BY <1>1, PathFacts

\* The path of a member is that of no file that was there before.
LEMMA MemberNotOld ==
  ASSUME round \in Nat, round > 0, NEW g, FilePath(g), NEW n \in Names, n.ext = 0
  PROVE  /\ ~Old(MemberPath(g, n))
         /\ FilePath(MemberPath(g, n)) /\ MemberPath(g, n)[Len(MemberPath(g, n))] = n
         /\ \A r \in Int : (\A i \in 1..Len(g) : g[i].form # 0 => OpenTo(g, i, r)) /\ r < round =>
              \A i \in 1..Len(g) + 1 :
                MemberPath(g, n)[i].form # 0 => OpenTo(MemberPath(g, n), i, r)
         /\ \A r \in Int : (\A i \in 1..Len(g) : OpenTo(g, i, r) => ~CleanTo(g, i)) =>
              \A i \in 1..Len(g) + 1 :
                OpenTo(MemberPath(g, n), i, r) => ~CleanTo(MemberPath(g, n), i)
         /\ Dated(g) => Dated(MemberPath(g, n))
<1> DEFINE m == MemberPath(g, n)
           t == ExtractionTarget(g)
           L == Len(g)
<1>1. FilePath(m) /\ Len(m) = L + 1 /\ m[L + 1] = n /\ \A i \in 1..L : m[i] = t[i]
  BY MemberPathFacts
<1>2. /\ \A i \in 1..L - 1 : t[i] = g[i]
      /\ t[L].ext = round /\ t[L].form = g[L].form + 1
      /\ g[L] \in Names /\ L \in Nat /\ L > 0
  BY TargetFacts
<1> HIDE DEF m, t, L
<1>3. \A i \in 1..L - 1 : i \in 1..L
  BY <1>2
<1>4. /\ \A i \in 1..L - 1 : m[i] = g[i]
      /\ m[L].ext = round /\ m[L].form = g[L].form + 1 /\ L \in 1..L
  BY <1>1, <1>2, <1>3
<1>5. m[L].form # 0
  BY <1>2, <1>4, NameType
<1>6. ~Old(m)
  <2>1. L \in 1..Len(m)
    BY <1>1, <1>2
  <2> QED
    BY <1>4, <2>1 DEF Old
<1>7. ASSUME NEW r \in Int, \A i \in 1..L : g[i].form # 0 => OpenTo(g, i, r), r < round,
             NEW i \in 1..L + 1, m[i].form # 0
      PROVE  OpenTo(m, i, r)
  <2>1. CASE i < L
    <3>1. i \in 1..L - 1 /\ i \in 1..L
      BY <1>2, <2>1
    <3>2. PICK j \in 1..i : g[j].ext > r
      BY <1>4, <1>7, <3>1 DEF OpenTo
    <3>3. j \in 1..L - 1
      BY <1>2, <3>1
    <3> QED
      BY <1>4, <3>2, <3>3 DEF OpenTo
  <2>2. CASE i >= L
    <3>1. L \in 1..i
      BY <1>2, <2>2
    <3> QED
      BY <1>4, <1>7, <3>1 DEF OpenTo
  <2> QED
    BY <1>2, <2>1, <2>2
<1>8. ASSUME NEW r \in Int, \A i \in 1..L : OpenTo(g, i, r) => ~CleanTo(g, i),
             NEW i \in 1..L + 1, OpenTo(m, i, r), CleanTo(m, i)
      PROVE  FALSE
  <2>1. CASE i < L
    <3>1. i \in 1..L - 1 /\ i \in 1..L
      BY <1>2, <2>1
    <3>2. \A j \in 1..i : j \in 1..L - 1
      BY <1>2, <3>1
    <3>3. OpenTo(g, i, r) /\ CleanTo(g, i)
      BY <1>4, <1>8, <3>2 DEF OpenTo, CleanTo
    <3> QED
      BY <1>8, <3>1, <3>3
  <2>2. CASE i >= L
    <3>1. L \in 1..i
      BY <1>2, <2>2
    <3> QED
      BY <1>5, <1>8, <3>1 DEF CleanTo
  <2> QED
    BY <1>2, <2>1, <2>2
<1>9. ASSUME Dated(g) PROVE Dated(m)
  <2>1. ASSUME NEW i \in 1..Len(m) PROVE m[i].ext <= round
    <3>1. CASE i < L
      <4>1. i \in 1..L - 1 /\ i \in 1..L
        BY <1>2, <3>1
      <4> QED
        BY <1>4, <1>9, <4>1 DEF Dated, L
    <3>2. CASE i = L
      BY <1>4, <3>2
    <3>3. CASE i = L + 1
      BY <1>1, <3>3
    <3> QED
      BY <1>1, <1>2, <3>1, <3>2, <3>3
  <2> QED
    BY <2>1 DEF Dated
<1>10. m[Len(m)] = n
  BY <1>1
<1> QED
  BY <1>1, <1>6, <1>7, <1>8, <1>9, <1>10 DEF m, L

\* No file and no row has the date of an extraction that is to come.
LEMMA NoneYet ==
  ASSUME round \in Nat, NEW s \in Nat, s > round, NEW g, FilePath(g), NEW q, FilePath(q), Dated(q)
  PROVE  q # Append(TargetAt(g, s), q[Len(q)])
<1> DEFINE t == TargetAt(g, s)
           n == q[Len(q)]
           L == Len(g)
<1>1. t \in Path /\ Len(t) = L /\ t[L].ext = s /\ L \in Nat /\ L > 0
  <2>1. s > 0
    OBVIOUS
  <2> QED
    BY <2>1, TargetAtFacts
<1>2. n \in Names /\ q \in Path
  BY FileName
<1>3. SUFFICES ASSUME q = Append(t, n) PROVE FALSE
  OBVIOUS
<1> HIDE DEF t, n, L
<1>4. Len(q) = L + 1 /\ \A i \in 1..L : q[i] = t[i]
  BY <1>1, <1>2, <1>3, OneMoreName
<1>5. L \in 1..L /\ L \in 1..Len(q)
  BY <1>1, <1>4
<1>6. q[L].ext <= round
  BY <1>5 DEF Dated
<1> QED
  BY <1>1, <1>4, <1>5, <1>6

\* Extraction starts: nothing has been extracted yet.
LEMMA ExtractStart ==
  ASSUME Types, Naming, StartExtract
  PROVE  Naming'
<1> DEFINE S == {id \in DOMAIN rows : Live(id)}
<1>1. script = "extract" /\ Start(S) /\ round' = round + 1
  BY DEF StartExtract
<1>2. /\ stage = "begin" /\ stage' = "work" /\ todo' = S /\ saved' = rows
      /\ UNCHANGED <<script, disk, rows, index>>
  BY <1>1 DEF Start
<1>3. /\ Kept(disk, rows) /\ RowsDated(rows) /\ DiskDated(disk) /\ DOMAIN index = {}
      /\ round \in Nat /\ rows \in Seq(SoundRows) /\ DiskOK(disk)
  BY <1>2 DEF Naming, Types, Control, Tables
<1>4. PICK r \in -1..round : Open(disk, r) /\ Unheld(rows, r)
  BY <1>1 DEF Naming, Extracting
<1>5. r \in -1..round' /\ r < round' /\ round' \in Nat
  BY <1>1, <1>3, <1>4
<1>6. ASSUME NEW p \in Path, Dated(p), NEW i \in 1..Len(p)
      PROVE  p[i].ext <= round' /\ p[i].ext < round'
  <2>1. p[i] \in Names /\ p[i].ext <= round
    BY <1>6, PathFacts DEF Dated
  <2>2. p[i].ext \in Nat
    BY <2>1, NameType
  <2> QED
    BY <1>1, <1>3, <2>1, <2>2
<1>7. ASSUME NEW id \in Lives(rows) PROVE FilePath(rows[id].loc) /\ Dated(rows[id].loc) /\ rows[id].loc \in Path
  BY <1>3, LiveLoc DEF RowsDated
<1>8. ASSUME NEW q \in DOMAIN disk PROVE FilePath(q) /\ Dated(q) /\ q \in Path
  BY <1>3 DEF DiskOK, DiskDated, FilePath
<1>9. RowsDated(rows)' /\ DiskDated(disk)'
  <2>1. \A id \in Lives(rows) : \A i \in 1..Len(rows[id].loc) : rows[id].loc[i].ext <= round'
    BY <1>6, <1>7
  <2>2. \A q \in DOMAIN disk : \A i \in 1..Len(q) : q[i].ext <= round'
    BY <1>6, <1>8
  <2> QED
    BY <1>2, <2>1, <2>2 DEF RowsDated, DiskDated, Dated
<1>10. Basis'
  BY <1>2, <1>3, <1>9 DEF Basis, RowsDated, Dated
<1>11. FromPackage(disk, rows)'
  <2>1. ASSUME NEW g \in DOMAIN disk, NEW q, FilePath(q), Dated(q)
        PROVE  q # MemberPath(g, q[Len(q)])'
    <3>1. round' > round
      BY <1>1, <1>3
    <3>2. q # Append(TargetAt(g, round'), q[Len(q)])
      BY <1>3, <1>5, <1>8, <2>1, <3>1, NoneYet
    <3> QED
      BY <3>2 DEF MemberPath, ExtractionTarget, TargetAt
  <2>2. \A g \in DOMAIN disk : \A q \in DOMAIN disk : q # MemberPath(g, q[Len(q)])'
    BY <1>8, <2>1
  <2>3. \A g \in DOMAIN disk : \A id \in Lives(rows) :
          rows[id].loc # Append(TargetAt(g, round'), rows[id].loc[Len(rows[id].loc)])
    BY <1>7, <2>1 DEF MemberPath, ExtractionTarget, TargetAt
  <2> QED
    BY <1>2, <2>2, <2>3 DEF FromPackage, MemberPath, ExtractionTarget, TargetAt
<1>12. \A id \in Lives(rows) : \A i \in 1..Len(rows[id].loc) : rows[id].loc[i].ext < round'
  BY <1>6, <1>7
<1>13. Extracting'
  <2>1. (\A id \in todo : Old(rows[id].loc))' /\ (\A id \in Lives(saved) : Old(saved[id].loc))'
    BY <1>2, <1>12 DEF Lives, Live, Old
  <2>2. Open(disk', r) /\ Unheld(rows', r) /\ Unheld(saved', r)
    BY <1>2, <1>4
  <2> QED
    BY <1>5, <1>11, <2>1, <2>2 DEF Extracting
<1> QED
  BY <1>1, <1>2, <1>10, <1>13 DEF Naming, Basis, Before, Assigning, Walking, Quiet, Walks

\* The disk x is the present one with files S of the package with content c at
\* g extracted, and perhaps without the package.
Unpacks(g, c, S, x) ==
  LET new == {MemberPath(g, n) : n \in S}
  IN /\ g \in DOMAIN disk /\ c \in DOMAIN Members /\ S \subseteq DOMAIN Members[c]
     /\ DOMAIN x \subseteq DOMAIN disk \cup new /\ DOMAIN disk \ {g} \subseteq DOMAIN x
     /\ new \subseteq DOMAIN x
     /\ \A p \in DOMAIN x \ new : x[p] = disk[p]
     /\ \A n \in S : x[MemberPath(g, n)] = Members[c][n]

\* The state in which row id is the next to be looked at.
Looks(id) ==
  /\ Types /\ script = "extract" /\ stage = "work"
  /\ id \in todo /\ id \in DOMAIN rows /\ Live(id)

AtRow(id) == Looks(id) /\ Naming

\* Nothing is overwritten by an extraction, and no location comes to be that of
\* another file.
LEMMA UnpacksDisk ==
  ASSUME NEW id, AtRow(id), NEW S, NEW x, Unpacks(rows[id].loc, rows[id].content, S, x)
  PROVE  /\ \A p \in DOMAIN x \cap DOMAIN disk : x[p] = disk[p]
         /\ \A r \in Int : Open(disk, r) /\ r < round => Open(x, r)
         /\ DiskDated(x)
         /\ \A p \in DOMAIN x : Old(p) => p \in DOMAIN disk
         /\ Kept(x, saved) /\ Kept(x, rows) /\ FromPackage(x, rows)
<1> DEFINE g == rows[id].loc
           c == rows[id].content
           new == {MemberPath(g, n) : n \in S}
<1>1. /\ g \in DOMAIN disk /\ c \in DOMAIN Members /\ S \subseteq DOMAIN Members[c]
      /\ DOMAIN x \subseteq DOMAIN disk \cup new /\ DOMAIN disk \ {g} \subseteq DOMAIN x
      /\ \A p \in DOMAIN x \ new : x[p] = disk[p]
      /\ \A n \in S : x[MemberPath(g, n)] = Members[c][n]
  BY DEF Unpacks
<1>2. /\ round \in Nat /\ round > 0 /\ FilePath(g) /\ Old(g) /\ Dated(g) /\ disk[g] = c /\ FromPackage(disk, rows)
      /\ Kept(disk, rows) /\ Kept(disk, saved) /\ DiskDated(disk)
      /\ \A k \in Lives(saved) : Old(saved[k].loc)
      /\ \A q \in DOMAIN disk : FilePath(q)
      /\ rows \in Seq(SoundRows)
  <2>1. /\ round \in Nat /\ round > 0 /\ FromPackage(disk, rows) /\ Kept(disk, rows) /\ Kept(disk, saved)
        /\ DiskDated(disk) /\ Old(g) /\ \A k \in Lives(saved) : Old(saved[k].loc)
    BY DEF AtRow, Looks, Types, Control, Naming, Extracting
  <2>2. id \in Lives(rows) /\ DiskOK(disk) /\ rows \in Seq(SoundRows)
    BY DEF AtRow, Looks, Lives, Live, Types, Tables
  <2> QED
    BY <1>1, <2>1, <2>2 DEF Kept, DiskOK, DiskDated
<1>3. ASSUME NEW n \in S
      PROVE  /\ n \in Names /\ n.ext = 0
             /\ MemberPath(g, n)[Len(MemberPath(g, n))] = n /\ FilePath(MemberPath(g, n))
             /\ ~Old(MemberPath(g, n)) /\ Dated(MemberPath(g, n))
  <2>1. n \in Names /\ n.ext = 0
    BY <1>1, MembersFacts
  <2> QED
    BY <1>2, <2>1, MemberNotOld
<1> HIDE DEF g, c
<1>4. ASSUME NEW n \in S, MemberPath(g, n) \in DOMAIN disk
      PROVE  disk[MemberPath(g, n)] = Members[c][n]
  BY <1>1, <1>2, <1>3, <1>4 DEF FromPackage
<1>5. ASSUME NEW n \in S, NEW k \in Lives(rows), rows[k].loc = MemberPath(g, n)
      PROVE  rows[k].content = Members[c][n]
  BY <1>1, <1>2, <1>3, <1>5 DEF FromPackage
<1>6. ASSUME NEW p \in DOMAIN x \cap DOMAIN disk PROVE x[p] = disk[p]
  BY <1>1, <1>4
<1>7. ASSUME NEW p \in DOMAIN x, Old(p) PROVE p \in DOMAIN disk
  BY <1>1, <1>3, <1>7
<1>8. DiskDated(x)
  BY <1>1, <1>2, <1>3 DEF DiskDated
<1>9. ASSUME NEW r \in Int, Open(disk, r), r < round PROVE Open(x, r)
  <2>1. ASSUME NEW n \in S, NEW i \in 1..Len(MemberPath(g, n)), MemberPath(g, n)[i].form # 0
        PROVE  OpenTo(MemberPath(g, n), i, r)
    <3>1. \A j \in 1..Len(g) : g[j].form # 0 => OpenTo(g, j, r)
      BY <1>1, <1>9 DEF Open
    <3>2. Len(MemberPath(g, n)) = Len(g) + 1
      BY <1>2, <1>3, MemberPathFacts
    <3> QED
      BY <1>2, <1>3, <1>9, <2>1, <3>1, <3>2, MemberNotOld
  <2> QED
    BY <1>1, <1>9, <2>1 DEF Open
<1>10. Kept(x, saved)
  BY <1>2, <1>6, <1>7 DEF Kept
<1>11. Kept(x, rows)
  <2>1. ASSUME NEW k \in Lives(rows), rows[k].loc \in DOMAIN x
        PROVE  x[rows[k].loc] = rows[k].content
    <3>1. CASE rows[k].loc \in DOMAIN disk
      BY <1>2, <1>6, <2>1, <3>1 DEF Kept
    <3>2. CASE rows[k].loc \notin DOMAIN disk
      BY <1>1, <1>5, <2>1, <3>2
    <3> QED
      BY <3>1, <3>2
  <2> QED
    BY <2>1 DEF Kept
<1>12. FromPackage(x, rows)
  <2>1. ASSUME NEW h \in DOMAIN x, Old(h)
        PROVE  h \in DOMAIN disk /\ x[h] = disk[h]
    BY <1>6, <1>7, <2>1
  <2>2. ASSUME NEW h \in DOMAIN x, Old(h), NEW q \in DOMAIN x, q = MemberPath(h, q[Len(q)])
        PROVE  x[q] = Members[x[h]][q[Len(q)]]
    <3>1. h \in DOMAIN disk /\ x[h] = disk[h]
      BY <2>1, <2>2
    <3>2. CASE q \in DOMAIN disk
      BY <1>2, <1>6, <2>2, <3>1, <3>2 DEF FromPackage
    <3>3. CASE q \notin DOMAIN disk
      <4>1. PICK n \in S : q = MemberPath(g, n)
        BY <1>1, <3>3
      <4>2. q[Len(q)] = n
        BY <1>3, <4>1
      <4>3. MemberPath(h, n) = MemberPath(g, n)
        BY <2>2, <4>1, <4>2
      <4>4. FilePath(h) /\ n \in Names /\ n.ext = 0
        BY <1>2, <1>3, <3>1
      <4>5. h = g
        BY <1>2, <4>3, <4>4, MemberInjective
      <4> QED
        BY <1>1, <1>2, <3>1, <4>1, <4>2, <4>5
    <3> QED
      BY <3>2, <3>3
  <2>3. ASSUME NEW h \in DOMAIN x, Old(h), NEW k \in Lives(rows),
               rows[k].loc = MemberPath(h, rows[k].loc[Len(rows[k].loc)])
        PROVE  rows[k].content = Members[x[h]][rows[k].loc[Len(rows[k].loc)]]
    BY <1>2, <2>1, <2>3 DEF FromPackage
  <2> QED
    BY <2>2, <2>3 DEF FromPackage
<1> QED
  BY <1>6, <1>7, <1>8, <1>9, <1>10, <1>11, <1>12

\* The rows in U are those in R, or some of them, and rows of members S of the
\* package with content c at g.
MemberTable(R, U, g, c, S) ==
  \A k \in Lives(U) :
    \/ k \in Lives(R) /\ U[k] = R[k]
    \/ \E n \in S : U[k] = NewRow(MemberPath(g, n), Members[c][n], "unpacking", g)

\* The rows of the members stand for them.
LEMMA UnpacksRows ==
  ASSUME NEW id, AtRow(id), NEW S, NEW x, Unpacks(rows[id].loc, rows[id].content, S, x),
         NEW U, MemberTable(rows, U, rows[id].loc, rows[id].content, S)
  PROVE  /\ Kept(x, U) /\ RowsDated(U) /\ FromPackage(x, U)
         /\ \A r \in Int : Unheld(rows, r) => Unheld(U, r)
<1> DEFINE g == rows[id].loc
           c == rows[id].content
<1>1. /\ c \in DOMAIN Members /\ S \subseteq DOMAIN Members[c] /\ g \in DOMAIN disk
      /\ \A n \in S : x[MemberPath(g, n)] = Members[c][n]
  BY DEF Unpacks
<1>2. /\ \A p \in DOMAIN x \cap DOMAIN disk : x[p] = disk[p]
      /\ \A p \in DOMAIN x : Old(p) => p \in DOMAIN disk
      /\ Kept(x, rows) /\ FromPackage(x, rows)
  BY UnpacksDisk, ZenonT(60)
<1>3. /\ round \in Nat /\ round > 0 /\ FilePath(g) /\ Dated(g) /\ disk[g] = c /\ RowsDated(rows)
      /\ \A q \in DOMAIN disk : FilePath(q)
      /\ id \in Lives(rows)
  <2>1. round \in Nat /\ round > 0 /\ Kept(disk, rows) /\ DiskDated(disk) /\ RowsDated(rows)
    BY DEF AtRow, Looks, Types, Control, Naming
  <2>2. id \in Lives(rows) /\ DiskOK(disk)
    BY DEF AtRow, Looks, Lives, Live, Types
  <2> QED
    BY <1>1, <2>1, <2>2 DEF Kept, DiskOK, DiskDated
<1>4. ASSUME NEW k \in Lives(U)
      PROVE  \/ k \in Lives(rows) /\ U[k] = rows[k]
             \/ \E n \in S : U[k].loc = MemberPath(g, n) /\ U[k].content = Members[c][n]
  <2>1. \A p, v, h : NewRow(p, v, "unpacking", h).loc = p /\ NewRow(p, v, "unpacking", h).content = v
    BY DEF NewRow
  <2> QED
    BY <2>1 DEF MemberTable
<1>5. ASSUME NEW n \in S
      PROVE  /\ n \in Names /\ n.ext = 0 /\ Dated(MemberPath(g, n))
             /\ MemberPath(g, n)[Len(MemberPath(g, n))] = n
             /\ Len(MemberPath(g, n)) = Len(g) + 1
             /\ \A r \in Int : (\A i \in 1..Len(g) : OpenTo(g, i, r) => ~CleanTo(g, i)) =>
                  \A i \in 1..Len(g) + 1 :
                    OpenTo(MemberPath(g, n), i, r) => ~CleanTo(MemberPath(g, n), i)
  <2>1. n \in Names /\ n.ext = 0
    BY <1>1, MembersFacts
  <2> QED
    BY <1>3, <2>1, MemberNotOld, MemberPathFacts
<1>6. ASSUME NEW r \in Int, Unheld(rows, r) PROVE Unheld(U, r)
  <2>1. \A i \in 1..Len(g) : OpenTo(g, i, r) => ~CleanTo(g, i)
    BY <1>3, <1>6 DEF Unheld
  <2> HIDE DEF g, c
  <2> QED
    BY <1>4, <1>5, <1>6, <2>1 DEF Unheld
<1> HIDE DEF g, c
<1>7. Kept(x, U)
  BY <1>1, <1>2, <1>4 DEF Kept
<1>8. RowsDated(U)
  BY <1>3, <1>4, <1>5 DEF RowsDated
<1>9. FromPackage(x, U)
  <2>1. ASSUME NEW h \in DOMAIN x, Old(h), NEW k \in Lives(U),
               U[k].loc = MemberPath(h, U[k].loc[Len(U[k].loc)])
        PROVE  U[k].content = Members[x[h]][U[k].loc[Len(U[k].loc)]]
    <3>1. CASE k \in Lives(rows) /\ U[k] = rows[k]
      BY <1>2, <2>1, <3>1 DEF FromPackage
    <3>2. CASE ~(k \in Lives(rows) /\ U[k] = rows[k])
      <4>1. PICK n \in S : U[k].loc = MemberPath(g, n) /\ U[k].content = Members[c][n]
        BY <1>4, <3>2
      <4>2. U[k].loc[Len(U[k].loc)] = n /\ n \in Names /\ n.ext = 0
        BY <1>5, <4>1
      <4>3. MemberPath(h, n) = MemberPath(g, n)
        BY <2>1, <4>1, <4>2
      <4>4. h \in DOMAIN disk /\ x[h] = disk[h]
        BY <1>2, <2>1
      <4>5. FilePath(h)
        BY <1>3, <4>4
      <4>6. h = g
        BY <1>3, <4>2, <4>3, <4>5, MemberInjective
      <4> QED
        BY <1>3, <4>1, <4>2, <4>4, <4>6
    <3> QED
      BY <3>1, <3>2
  <2> QED
    BY <1>2, <2>1 DEF FromPackage
<1> QED
  BY <1>6, <1>7, <1>8, <1>9

\* No row of R is lost in U, and what is new is the rows of members S of the
\* package with content c at g.
WholeTable(R, U, g, c, S) ==
  \A k \in DOMAIN U :
    \/ k \in DOMAIN R /\ U[k].first = R[k].first /\ U[k].content = R[k].content
    \/ \E n \in S : U[k] = NewRow(MemberPath(g, n), Members[c][n], "unpacking", g)

\* The row says of the file at its location what it is.
LEMMA FormatKept ==
  ASSUME NEW id, AtRow(id)
  PROVE  Format(id) = rows[id].content
<1>1. id \in Lives(rows) /\ Kept(disk, rows)
  BY DEF AtRow, Looks, Lives, Live, Naming
<1> QED
  BY <1>1 DEF Kept, Format, Present

\* A step of the extraction that changes something, as one of disk and table:
\* the package is gone only if the user said so and all its files are there.
LEMMA ExtractUnpacksSome ==
  ASSUME NEW id, Looks(id), ExtractDone(id)
  PROVE  \/ UNCHANGED <<disk, rows>>
         \/ \E S : /\ Unpacks(rows[id].loc, Format(id), S, disk')
                   /\ MemberTable(rows, rows', rows[id].loc, Format(id), S)
                   /\ WholeTable(rows, rows', rows[id].loc, Format(id), S)
                   /\ \/ rows[id].loc \in DOMAIN disk'
                      \/ delete /\ S = DOMAIN Members[Format(id)]
<1> DEFINE g == rows[id].loc
           c == Format(id)
<1>1. /\ Types /\ id \in DOMAIN rows /\ Live(id) /\ script = "extract" /\ stage = "work"
  BY DEF Looks
<1>2. CASE c \in DOMAIN Members /\ ExtractFails(id)
  <2>1. UNCHANGED rows
    BY <1>1, <1>2, ExtractFailsFacts
  <2>2. CASE ~Present(g)
    BY <1>1, <1>2, <2>1, <2>2, ExtractFailsFacts
  <2>3. CASE Present(g)
    <3>1. PICK S \in SUBSET DOMAIN Members[c] :
            /\ DOMAIN disk' = DOMAIN disk \cup {MemberPath(g, n) : n \in S}
            /\ \A p \in DOMAIN disk \ {MemberPath(g, n) : n \in S} : disk'[p] = disk[p]
            /\ \A n \in S : disk'[MemberPath(g, n)] = Members[c][n]
      BY <1>1, <1>2, <2>3, ExtractFailsFacts
    <3>2. Unpacks(g, c, S, disk')
      BY <1>2, <2>3, <3>1 DEF Unpacks, Present
    <3>3. MemberTable(rows, rows', g, c, S) /\ WholeTable(rows, rows', g, c, S)
      BY <2>1 DEF MemberTable, WholeTable
    <3>4. g \in DOMAIN disk'
      BY <2>3, <3>1 DEF Present
    <3> QED
      BY <3>2, <3>3, <3>4
  <2> QED
    BY <2>2, <2>3
<1>3. CASE c \in DOMAIN Members /\ Unpacked(id)
  <2> DEFINE S == DOMAIN Members[c]
             new == {MemberPath(g, n) : n \in S}
  <2>1. /\ Present(g)
        /\ DOMAIN disk' = (DOMAIN disk \cup new) \ (IF delete THEN {g} ELSE {})
        /\ \A p \in DOMAIN disk' \ new : disk'[p] = disk[p]
        /\ \A n \in S : MemberPath(g, n) \in DOMAIN disk' /\ disk'[MemberPath(g, n)] = Members[c][n]
        /\ DOMAIN rows \subseteq DOMAIN rows'
        /\ \A k \in DOMAIN rows : k # id => rows'[k] = rows[k]
        /\ rows'[id].first = rows[id].first /\ rows'[id].content = rows[id].content
        /\ IF delete THEN rows'[id].removed ELSE rows'[id] = rows[id]
        /\ RowsOfMembers(rows, rows', g, c, S)
    BY <1>1, <1>3 DEF Unpacked
  <2>2. Unpacks(g, c, S, disk')
    <3>1. DOMAIN disk' \subseteq DOMAIN disk \cup new /\ DOMAIN disk \ {g} \subseteq DOMAIN disk'
      <4> HIDE DEF g, new
      <4> QED
        BY <2>1
    <3>2. new \subseteq DOMAIN disk'
      BY <2>1
    <3> QED
      BY <1>3, <2>1, <3>1, <3>2 DEF Unpacks, Present
  <2>3. MemberTable(rows, rows', g, c, S)
    <3>1. ASSUME NEW k \in Lives(rows')
          PROVE  \/ k \in Lives(rows) /\ rows'[k] = rows[k]
                 \/ \E n \in S : rows'[k] = NewRow(MemberPath(g, n), Members[c][n], "unpacking", g)
      <4>1. CASE k \notin DOMAIN rows
        BY <2>1, <4>1 DEF RowsOfMembers, Lives
      <4>2. CASE k \in DOMAIN rows
        BY <2>1, <4>2 DEF Lives
      <4> QED
        BY <4>1, <4>2
    <3> QED
      BY <3>1 DEF MemberTable
  <2>4. WholeTable(rows, rows', g, c, S)
    BY <1>1, <2>1 DEF WholeTable, RowsOfMembers
  <2>5. g \in DOMAIN disk' \/ delete
    BY <2>1 DEF Present
  <2> QED
    BY <2>2, <2>3, <2>4, <2>5
<1> QED
  BY <1>1, <1>2, <1>3 DEF ExtractDone

\* So is one that is cut off, but that the table may be an earlier one.
LEMMA CutOffUnpacksSome ==
  ASSUME NEW id, Looks(id), NEW S, NEW X, CutOff(id, S, X)
  PROVE  /\ Unpacks(rows[id].loc, Format(id), S, disk')
         /\ rows' = saved \/ MemberTable(rows, rows', rows[id].loc, Format(id), S)
         /\ rows[id].loc \in DOMAIN disk' \/ (delete /\ S = DOMAIN Members[Format(id)])
<1> DEFINE g == rows[id].loc
           c == Format(id)
           new == {MemberPath(g, n) : n \in S}
<1>2. /\ Present(g) /\ c \in DOMAIN Members /\ S \subseteq DOMAIN Members[c] /\ X \subseteq S
      /\ DOMAIN disk' \subseteq DOMAIN disk \cup new
      /\ (DOMAIN disk \cup new) \ {g} \subseteq DOMAIN disk' /\ new \subseteq DOMAIN disk'
      /\ \A p \in DOMAIN disk' \ new : disk'[p] = disk[p]
      /\ \A n \in S : disk'[MemberPath(g, n)] = Members[c][n]
      /\ g \in DOMAIN disk' \/ (delete /\ S = DOMAIN Members[c])
      /\ \/ rows' = saved
         \/ /\ DOMAIN rows \subseteq DOMAIN rows' /\ \A k \in DOMAIN rows : rows'[k] = rows[k]
            /\ RowsOfMembers(rows, rows', g, c, X)
  BY DEF CutOff
<1>3. Unpacks(g, c, S, disk')
  <2>1. DOMAIN disk \ {g} \subseteq DOMAIN disk'
    <3> HIDE DEF new, g
    <3> QED
      BY <1>2
  <2> QED
    BY <1>2, <2>1 DEF Unpacks, Present
<1>4. ASSUME DOMAIN rows \subseteq DOMAIN rows', \A k \in DOMAIN rows : rows'[k] = rows[k],
             RowsOfMembers(rows, rows', g, c, X)
      PROVE  MemberTable(rows, rows', g, c, S)
  <2>1. ASSUME NEW k \in Lives(rows')
        PROVE  \/ k \in Lives(rows) /\ rows'[k] = rows[k]
               \/ \E n \in S : rows'[k] = NewRow(MemberPath(g, n), Members[c][n], "unpacking", g)
    <3>1. CASE k \notin DOMAIN rows
      BY <1>2, <1>4, <3>1 DEF RowsOfMembers, Lives
    <3>2. CASE k \in DOMAIN rows
      BY <1>4, <3>2 DEF Lives
    <3> QED
      BY <3>1, <3>2
  <2> QED
    BY <2>1 DEF MemberTable
<1> QED
  BY <1>2, <1>3, <1>4

\* Packages are extracted.
LEMMA ExtractNaming ==
  ASSUME Types, Naming, Extract
  PROVE  Naming'
<1>1. script = "extract" /\ script \in Scripts /\ stage = "work" /\ UNCHANGED <<saved, round>>
  BY DEF Extract, Scripts
<1>2. PICK r \in -1..round : Open(disk, r) /\ Unheld(rows, r) /\ r < round /\ Unheld(saved, r)
  BY <1>1 DEF Naming, Extracting
<1>3. r \in Int /\ round \in Nat
  BY <1>2 DEF Types, Control
<1>4. CASE todo = {}
  <2>1. PICK c : Finish(c) /\ UNCHANGED <<disk, rows>>
    BY <1>4 DEF Extract
  <2>2. Basis' /\ stage' = "begin" /\ script' \in {"names2", "failed"}
    BY <1>1, <2>1, FinishBasis, AfterFacts
  <2>3. Held(disk, rows, r)
    BY <1>2 DEF Unheld, Held
  <2>4. Walking'
    BY <1>1, <1>2, <2>1, <2>2, <2>3 DEF Walking
  <2> QED
    BY <2>2, <2>4 DEF Naming, Basis, Before, Assigning, Extracting, Quiet, Walks, Ended
<1>5. CASE todo # {}
  <2>1. PICK id \in todo : ExtractDone(id)
    BY <1>5, ExtractStep
  <2>2. /\ todo' = todo \ {id} /\ id \in DOMAIN rows /\ Live(id)
        /\ UNCHANGED <<script, stage, index, saved, round>>
    BY <2>1 DEF ExtractDone
  <2>3. AtRow(id)
    BY <1>1, <2>1, <2>2 DEF AtRow, Looks
  <2>4. /\ Kept(disk, rows) /\ Kept(disk, saved) /\ RowsDated(rows) /\ RowsDated(saved)
        /\ DiskDated(disk) /\ FromPackage(disk, rows)
        /\ \A k \in todo : Old(rows[k].loc)
        /\ \A k \in Lives(saved) : Old(saved[k].loc)
    BY <1>1 DEF Naming, Extracting
  <2>5. /\ Kept(disk', rows') /\ Kept(disk', saved) /\ DiskDated(disk') /\ RowsDated(rows')
        /\ Open(disk', r) /\ Unheld(rows', r) /\ FromPackage(disk', rows')
    <3>1. CASE UNCHANGED <<disk, rows>>
      <4>1. disk' = disk /\ rows' = rows
        BY <3>1
      <4> QED
        BY ONLY <1>2, <2>4, <4>1
    <3>2. CASE ~UNCHANGED <<disk, rows>>
      <4> DEFINE x == disk'
                 U == rows'
      <4>1. PICK S : /\ Unpacks(rows[id].loc, rows[id].content, S, x)
                     /\ MemberTable(rows, U, rows[id].loc, rows[id].content, S)
        BY <2>1, <2>3, <3>2, FormatKept, ExtractUnpacksSome DEF AtRow
      <4> HIDE DEF x, U
      <4>2. /\ \A s \in Int : Open(disk, s) /\ s < round => Open(x, s)
            /\ DiskDated(x) /\ Kept(x, saved)
        BY <2>3, <4>1, UnpacksDisk
      <4>3. /\ Kept(x, U) /\ RowsDated(U) /\ FromPackage(x, U)
            /\ \A s \in Int : Unheld(rows, s) => Unheld(U, s)
        BY <2>3, <4>1, UnpacksRows
      <4> QED
        BY <1>2, <1>3, <4>2, <4>3 DEF x, U
    <3> QED
      BY <3>1, <3>2
  <2>6. \A k \in todo' : rows'[k] = rows[k]
    <3>1. \A k \in todo : k \in DOMAIN rows
      BY <1>1 DEF Types, TodoType
    <3>2. UNCHANGED rows \/ Unpacked(id)
      BY <1>1, <2>1, <2>2, ExtractFailsFacts DEF ExtractDone
    <3> QED
      BY <2>2, <3>1, <3>2 DEF Unpacked
  <2>7. Basis'
    BY <1>1, <2>2, <2>4, <2>5 DEF Basis, RowsDated, DiskDated, Dated
  <2>8. FromPackage(disk, rows)'
    BY <2>2, <2>5 DEF FromPackage, MemberPath, ExtractionTarget, Old
  <2>9. (\A k \in todo : Old(rows[k].loc))' /\ (\A k \in Lives(saved) : Old(saved[k].loc))'
    BY <2>2, <2>4, <2>6 DEF Old
  <2>10. Extracting'
    BY <1>1, <1>2, <2>2, <2>5, <2>8, <2>9 DEF Extracting
  <2> QED
    BY <1>1, <2>2, <2>7, <2>10 DEF Naming, Basis, Before, Assigning, Walking, Quiet, Walks
<1> QED
  BY <1>4, <1>5

\* The extraction of a package is cut off.
LEMMA CutOffNaming ==
  ASSUME Types, Naming, ExtractCutOff
  PROVE  Naming'
<1>1. script = "extract" /\ script \in Scripts /\ stage = "work"
  BY DEF ExtractCutOff, Scripts
<1>2. PICK id \in todo : \E S, X : CutOff(id, S, X)
  BY ExtractCutsOff
<1>3. PICK S, X : CutOff(id, S, X)
  BY <1>2
<1>4. AtRow(id)
  BY <1>1, <1>3 DEF AtRow, Looks, CutOff
<1>5. /\ UNCHANGED <<saved, round>>
      /\ \/ stage' = "begin" /\ rows' = saved /\ index' = <<>> /\ UNCHANGED script
         \/ Finish(1)
  BY <1>3 DEF CutOff
<1> DEFINE x == disk'
           U == rows'
<1>6. /\ Unpacks(rows[id].loc, rows[id].content, S, x)
      /\ U = saved \/ MemberTable(rows, U, rows[id].loc, rows[id].content, S)
  BY <1>3, <1>4, FormatKept, CutOffUnpacksSome DEF AtRow
<1> HIDE DEF x, U
<1>7. /\ \A s \in Int : Open(disk, s) /\ s < round => Open(x, s)
      /\ DiskDated(x) /\ Kept(x, saved)
  BY <1>4, <1>6, UnpacksDisk
<1>8. RowsDated(saved) /\ DOMAIN (<<>>) = {}
  BY <1>1 DEF Naming
<1>9. Kept(x, U) /\ RowsDated(U)
  <2>1. CASE U = saved
    BY <1>7, <1>8, <2>1
  <2>2. CASE MemberTable(rows, U, rows[id].loc, rows[id].content, S)
    BY <1>4, <1>6, <2>2, UnpacksRows
  <2> QED
    BY <1>6, <2>1, <2>2
<1>10. (RowsDated(rows) /\ DiskDated(disk) /\ Kept(disk, rows))'
  BY <1>5, <1>7, <1>9 DEF RowsDated, DiskDated, Dated, x, U
<1>11. CASE Finish(1)
  <2>1. stage' = "begin" /\ script' = "failed" /\ DOMAIN index' = {}
    BY <1>1, <1>11, AfterFacts
  <2>2. Basis'
    BY <1>10, <2>1 DEF Basis
  <2> QED
    BY <2>1, <2>2, EndNaming DEF Ended
<1>12. CASE stage' = "begin" /\ rows' = saved /\ index' = <<>> /\ UNCHANGED script
  <2>1. PICK r \in -1..round : Open(disk, r) /\ r < round /\ Unheld(saved, r)
    BY <1>1 DEF Naming, Extracting
  <2>2. r \in Int
    BY <2>1 DEF Types, Control
  <2>3. Open(disk', r) /\ Unheld(rows', r)
    BY <1>7, <1>12, <2>1, <2>2 DEF x
  <2>4. Extracting'
    BY <1>5, <1>12, <2>1, <2>3 DEF Extracting
  <2>5. DOMAIN index' = {}
    BY <1>8, <1>12
  <2>6. Basis'
    BY <1>10, <1>12, <2>5 DEF Basis
  <2> QED
    BY <1>1, <1>12, <2>4, <2>6 DEF Naming, Basis, Before, Assigning, Walking, Quiet, Walks
<1> QED
  BY <1>5, <1>11, <1>12

\* A script is interrupted: by an exception, but for the second walk, or by the
\* end of the worker.
LEMMA FaultNaming ==
  ASSUME Types, Naming, Raise \/ Crash, ~(Raise /\ script = "names2")
  PROVE  Naming'
<1>1. CASE Raise
  <2>1. /\ Finish(1) /\ script \in Scripts /\ UNCHANGED <<disk, rows, round>>
        /\ script \in {"hidden", "assign", "names", "extract", "sip"} /\ stage = "work"
    BY <1>1 DEF Raise, Scripts
  <2>2. Basis' /\ stage' = "begin" /\ script' \in {"unneeded", "failed"}
        /\ (script' = "unneeded" => script = "hidden")
    BY <2>1, FinishBasis, AfterFacts
  <2>3. UNCHANGED <<rows, saved>>
    BY <1>1 DEF Raise
  <2> QED
    BY <2>2, <2>3 DEF Naming, Basis, Before, Assigning, Walking, Extracting, Quiet, Walks, Ended
<1>2. CASE Crash
  <2>1. /\ stage = "work" /\ stage' \in {"begin", "handed"}
        /\ rows' = IF script \in {"assign", "linking"} THEN rows ELSE saved
        /\ index' = <<>> /\ UNCHANGED <<script, disk, saved, round>>
    BY <1>2 DEF Crash
  <2>2. /\ Kept(disk, rows) /\ RowsDated(rows) /\ DiskDated(disk) /\ Kept(disk, saved)
        /\ RowsDated(saved)
    BY <2>1 DEF Naming
  <2>3. DOMAIN index' = {}
    BY <2>1
  <2>4. rows' = rows \/ rows' = saved
    BY <2>1
  <2>5. Kept(disk, rows') /\ RowsDated(rows')
    BY <2>2, <2>4
  <2>6. Basis'
    BY <2>1, <2>2, <2>3, <2>5 DEF Basis, RowsDated, DiskDated, Dated
  <2>7. Before' /\ Assigning' /\ Quiet'
    BY <2>1 DEF Naming, Before, Assigning, Quiet, Present
  <2>8. Walking'
    <3>1. CASE script \in Walks
      <4>1. PICK r \in -1..round : Open(disk, r) /\ Held(disk, saved, r)
        BY <2>1, <3>1 DEF Naming, Walking
      <4>2. rows' = saved
        BY <2>1, <3>1 DEF Walks
      <4> QED
        BY <2>1, <4>1, <4>2 DEF Walking
    <3>2. CASE script \notin Walks
      BY <2>1, <3>2 DEF Walking
    <3> QED
      BY <3>1, <3>2
  <2>9. Extracting'
    <3>1. CASE script = "extract"
      <4>1. PICK r \in -1..round : Open(disk, r) /\ Unheld(saved, r)
        BY <2>1, <3>1 DEF Naming, Extracting
      <4>2. rows' = saved
        BY <2>1, <3>1
      <4> QED
        BY <2>1, <4>1, <4>2 DEF Extracting
    <3>2. CASE script # "extract"
      BY <2>1, <3>2 DEF Extracting
    <3> QED
      BY <3>1, <3>2
  <2> QED
    BY <2>6, <2>7, <2>8, <2>9 DEF Naming, Basis
<1> QED
  BY <1>1, <1>2

\* The invariant holds at first.
LEMMA InitNaming ==
  ASSUME Init
  PROVE  Naming
<1>1. /\ script = "hidden" /\ stage = "begin" /\ rows = <<>> /\ saved = <<>> /\ index = <<>>
      /\ round = 0 /\ disk \in Received
  BY DEF Init
<1>2. DiskDated(disk)
  <2>1. ASSUME NEW p \in DOMAIN disk, NEW i \in 1..Len(p) PROVE p[i].ext <= round
    <3>1. p \in Path /\ \A j \in DOMAIN p : p[j].ext = 0
      BY <1>1, PackageFilesAssumption, GivenNames DEF Path
    <3>2. p[i].ext = 0
      BY <3>1, PathFacts
    <3> QED
      BY <1>1, <3>2
  <2> QED
    BY <2>1 DEF DiskDated, Dated
<1>3. Kept(disk, rows) /\ RowsDated(rows) /\ DOMAIN index = {}
  BY <1>1, EmptyTable
<1> QED
  BY <1>1, <1>2, <1>3 DEF Naming, Before, Assigning, Walking, Extracting, Quiet, Walks

\* Every step preserves the invariant, but for an exception in the second walk.
LEMMA NamingStep ==
  ASSUME NamesApart, Types, Naming, [Next]_vars, ~(Raise /\ script = "names2")
  PROVE  Naming'
<1>1. CASE UNCHANGED vars
  BY <1>1 DEF vars, Naming, Kept, RowsDated, DiskDated, Dated, Before, Assigning, Walking, Extracting,
              Quiet, WalkState, FromPackage, MemberPath, ExtractionTarget, Old, Present
<1>2. CASE StartHidden \/ StartPerFile \/ StartAssign \/ StartSIP
  BY <1>2, StartNaming
<1>3. CASE RemoveHidden
  BY <1>3, HiddenNaming
<1>4. CASE RemoveUnneeded \/ RemoveUnlinked
  BY <1>4, PerFileNaming
<1>5. CASE AssignChunk
  BY <1>5, AssignNaming
<1>6. CASE StartNames
  BY <1>6, NamesStart
<1>7. CASE ChangeName
  BY <1>7, NamesStep
<1>8. CASE ChangeNamesEnd
  BY <1>8, NamesEnd
<1>9. CASE HasPackages
  BY <1>9, HasNaming
<1>10. CASE StartExtract
  BY <1>10, ExtractStart
<1>11. CASE Extract
  BY <1>11, ExtractNaming
<1>12. CASE CreateSIP \/ CreateSIPAgain
  BY <1>12, SIPNaming
<1>13. CASE Raise \/ Crash
  BY <1>13, FaultNaming
<1>14. CASE ExtractCutOff
  BY <1>14, CutOffNaming
<1> QED
  BY <1>1, <1>2, <1>3, <1>4, <1>5, <1>6, <1>7, <1>8, <1>9, <1>10, <1>11, <1>12, <1>13, <1>14
     DEF Next, Step, Stop

\* The second walk is not left half-way by an exception: changeObjectNames
\* after an extraction ends, or its worker dies.
WalkEnds == "walk" \notin Faults

\* Then names are as the invariant says.
LEMMA AlwaysNaming ==
  ASSUME WalkEnds, NamesApart
  PROVE  Spec => []Naming
<1>1. Init => Naming
  BY InitNaming
<1>2. ~(Raise /\ script = "names2")
  BY DEF WalkEnds, Raise, Goes
<1>3. Types /\ Naming /\ [Next]_vars => Naming'
  BY <1>2, NamingStep
<1> QED
  BY <1>1, <1>3, AlwaysTypes, PTL DEF Spec

\* A row never comes to stand for another file than the one it was made for,
\* whatever crashes, runs again, is extracted in part or raises, but for an
\* exception in the walk that changes the names of extracted files, when the
\* transfer and its packages have no two names that are equal in NFC.
THEOREM RowsKeepContent ==
  ASSUME WalkEnds, NamesApart
  PROVE  Spec => []RowKeepsContent
<1>1. Naming => RowKeepsContent
  BY DEF Naming, Kept, Lives, RowKeepsContent, Live, Present
<1> QED
  BY <1>1, AlwaysNaming, PTL

-----------------------------------------------------------------------------
(* The dates of extractions, whatever the names and whatever goes wrong.   *)

\* What has been extracted from a package is what it has, on disk.
FilesFrom(d) ==
  \A g \in DOMAIN d : Old(g) =>
    \A q \in DOMAIN d : q = MemberPath(g, q[Len(q)]) => d[q] = Members[d[g]][q[Len(q)]]

Dating ==
  /\ Before /\ RowsDated(rows) /\ DiskDated(disk)
  /\ \A o \in DOMAIN index : Dated(index[o])
  /\ stage = "work" => RowsDated(saved)
  /\ script = "extract" /\ stage = "work" => FilesFrom(disk) /\ \A id \in todo : Old(rows[id].loc)

\* Outside extraction it is the dates that matter.
LEMMA DatingNext ==
  ASSUME UNCHANGED round, RowsDated(rows'), DiskDated(disk'), \A o \in DOMAIN index' : Dated(index'[o]),
         stage' = "work" => RowsDated(saved'),
         script' \in {"hidden", "unneeded"} => rows' = <<>> /\ saved' = <<>>,
         script' # "extract" \/ stage' # "work"
  PROVE  Dating'
BY DEF Dating, Before, RowsDated, DiskDated, Dated

\* A job ends.
LEMMA FinishDating ==
  ASSUME Dating, script \in Scripts, NEW c, Finish(c), UNCHANGED <<saved, round>>,
         RowsDated(rows'), DiskDated(disk'), script = "hidden" => UNCHANGED rows
  PROVE  Dating'
<1>1. /\ stage' = "begin" /\ DOMAIN index' = {} /\ (script' = "unneeded" => script = "hidden")
      /\ script' # "hidden"
  BY AfterFacts DEF Scripts, Ended
<1>2. script' \in {"hidden", "unneeded"} => rows' = <<>> /\ saved' = <<>>
  BY <1>1 DEF Dating, Before
<1> QED
  BY <1>1, <1>2, DatingNext

\* A script starts that does not extract.
LEMMA StartDating ==
  ASSUME Dating, NEW S, Start(S), UNCHANGED round, script # "extract"
  PROVE  Dating'
<1>1. UNCHANGED <<script, disk, rows, index>> /\ saved' = rows
  BY DEF Start
<1>2. RowsDated(rows) /\ DiskDated(disk) /\ \A o \in DOMAIN index : Dated(index[o])
  BY DEF Dating
<1>3. script \in {"hidden", "unneeded"} => rows = <<>>
  BY DEF Dating, Before
<1> QED
  BY <1>1, <1>2, <1>3, DatingNext

\* Files are removed.
LEMMA RemoveDating ==
  ASSUME Types, Dating, RemoveHidden \/ RemoveUnneeded \/ RemoveUnlinked
  PROVE  Dating'
<1>1. /\ script \in {"hidden", "unneeded", "unneeded2", "linking"} /\ script \in Scripts
      /\ stage = "work" /\ UNCHANGED <<saved, round>>
  BY DEF RemoveHidden, RemoveUnneeded, RemoveUnlinked, Scripts
<1>2. /\ RowsDated(rows) /\ RowsDated(saved) /\ DiskDated(disk)
      /\ \A o \in DOMAIN index : Dated(index[o])
      /\ script \in {"hidden", "unneeded"} => rows = <<>> /\ saved = <<>>
  BY <1>1 DEF Dating, Before
<1>3. CASE todo = {}
  <2>1. PICK c : Finish(c) /\ UNCHANGED <<disk, rows>>
    BY <1>3 DEF RemoveHidden, RemoveUnneeded, RemoveUnlinked
  <2> QED
    BY <1>1, <1>2, <2>1, FinishDating
<1>4. CASE todo # {}
  <2>1. /\ \A id \in Lives(rows') : id \in Lives(rows) /\ rows'[id] = rows[id]
        /\ rows = <<>> => rows' = rows
        /\ disk' = disk \/ \E p : disk' = Restrict(disk, DOMAIN disk \ {p})
        /\ UNCHANGED <<script, stage, index>>
    <3>1. CASE RemoveHidden
      BY <1>4, <3>1 DEF RemoveHidden, Lives
    <3>2. CASE RemoveUnneeded \/ RemoveUnlinked
      <4>1. PICK t \in todo : TaskDone(t)
        BY <1>4, <3>2, UnneededTask, UnlinkedTask
      <4>2. script \in PerFile
        BY <3>2 DEF RemoveUnneeded, RemoveUnlinked, PerFile
      <4> QED
        BY <1>1, <4>1, <4>2, TaskRows DEF TaskDone
    <3> QED
      BY <3>1, <3>2
  <2>2. RowsDated(rows') /\ DiskDated(disk')
    BY <1>2, <2>1, FewerRows, FewerFiles
  <2> QED
    BY <1>1, <1>2, <2>1, <2>2, DatingNext
<1> QED
  BY <1>3, <1>4

\* A new row has the path of a file.
LEMMA AssignDating ==
  ASSUME Types, Dating, AssignChunk
  PROVE  Dating'
<1>1. /\ script = "assign" /\ script \in Scripts /\ stage = "work" /\ UNCHANGED <<disk, round>>
      /\ RowsDated(rows) /\ DiskDated(disk) /\ \A o \in DOMAIN index : Dated(index[o])
  BY DEF AssignChunk, Scripts, Dating
<1>2. CASE todo = {}
  <2>1. Finish(0) /\ UNCHANGED <<rows, saved>>
    BY <1>2 DEF AssignChunk
  <2> QED
    BY <1>1, <2>1, FinishDating
<1>3. CASE todo # {}
  <2>1. PICK chunk \in SUBSET todo : Assigned(chunk)
    BY <1>3, AssignChunkAssigns
  <2>2. /\ chunk \subseteq DOMAIN disk /\ saved' = rows' /\ UNCHANGED <<script, stage, index>>
        /\ \A k \in DOMAIN rows : rows'[k] = rows[k]
        /\ \A k \in DOMAIN rows' \ DOMAIN rows :
             \E p \in chunk : rows'[k] = NewRow(p, disk[p], "ingestion", NoFile)
    BY <1>1, <2>1 DEF Assigned, Types, TodoType
  <2>3. ASSUME NEW k \in Lives(rows') PROVE Dated(rows'[k].loc)
    <3>1. CASE k \in DOMAIN rows
      BY <1>1, <2>2, <2>3, <3>1 DEF Lives, RowsDated
    <3>2. CASE k \notin DOMAIN rows
      <4>1. PICK p \in chunk : rows'[k] = NewRow(p, disk[p], "ingestion", NoFile)
        BY <2>2, <2>3, <3>2 DEF Lives
      <4> QED
        BY <1>1, <2>2, <4>1 DEF NewRow, DiskDated
    <3> QED
      BY <3>1, <3>2
  <2>4. RowsDated(rows')
    BY <2>3 DEF RowsDated
  <2> QED
    BY <1>1, <2>2, <2>4, DatingNext
<1> QED
  BY <1>2, <1>3

\* A renaming leaves the dates.
LEMMA NamesDating ==
  ASSUME Types, Dating, ChangeName \/ ChangeNamesEnd
  PROVE  Dating'
<1>1. /\ script \in Walks /\ script \in Scripts /\ stage = "work" /\ UNCHANGED <<saved, round>>
      /\ RowsDated(rows) /\ RowsDated(saved) /\ DiskDated(disk) /\ rows \in Seq(SoundRows)
      /\ \A o \in DOMAIN index : Dated(index[o])
  BY DEF ChangeName, ChangeNamesEnd, Walks, Scripts, Dating, Types, Tables
<1>2. ASSUME NEW ix, IndexType(ix), \A o \in DOMAIN ix : Dated(ix[o])
      PROVE  RowsDated(FileUpdates(ix))
  <2> DEFINE U == FileUpdates(ix)
  <2>1. /\ DOMAIN U = DOMAIN rows
        /\ \A id \in DOMAIN rows :
             /\ U[id].removed = rows[id].removed
             /\ U[id].loc = rows[id].loc \/ \E q \in DOMAIN ix : U[id].loc = ix[q]
    BY <1>1, <1>2, FileUpdatesFacts
  <2> HIDE DEF U
  <2>2. RowsDated(U)
    BY <1>1, <1>2, <2>1 DEF RowsDated, Lives
  <2> QED
    BY <2>2 DEF U
<1>3. CASE ChangeNamesEnd
  <2>1. Finish(0) /\ UNCHANGED disk /\ rows' = FileUpdates(index) /\ IndexType(index)
    BY <1>3 DEF ChangeNamesEnd, Types
  <2>2. RowsDated(rows')
    BY <1>1, <1>2, <2>1
  <2> QED
    BY <1>1, <2>1, <2>2, FinishDating DEF Walks
<1>4. CASE ChangeName
  <2>1. PICK e \in todo : \E new \in Path : Walked(e, new)
    BY <1>4, ChangeNameWalks
  <2>2. PICK new \in Path : Walked(e, new)
    BY <2>1
  <2> DEFINE ix == Noted(e[1], new, ~Present(e[2]))
  <2>3. /\ Entry(e) /\ Renames(e[2], new) /\ MovedDisk(e[2], new) /\ IndexType(ix)
        /\ \/ rows' = FileUpdates(ix) /\ index' = <<>>
           \/ index' = ix /\ rows' = rows
        /\ UNCHANGED <<script, stage>>
    BY <2>2 DEF Walked
  <2>4. e[2] \in Path /\ e[2] # <<>> /\ \A q \in DOMAIN disk : q \in Path /\ Dated(q)
    BY <1>1, <2>3 DEF Entry, Types, DiskOK, FilePath, DiskDated
  <2>5. ASSUME NEW q \in DOMAIN disk PROVE Dated(To(e[2], new, q))
    <3>1. /\ Len(To(e[2], new, q)) = Len(q)
          /\ \A i \in 1..Len(q) : To(e[2], new, q)[i].ext = q[i].ext
      BY <2>3, <2>4, MoveKeeps
    <3> QED
      BY <2>4, <3>1 DEF Dated
  <2>6. DiskDated(disk')
    BY <2>3, <2>5 DEF MovedDisk, DiskDated
  <2>7. \A o \in DOMAIN ix : Dated(ix[o])
    <3>1. CASE ~Present(e[2]) \/ new = e[1]
      BY <1>1, <3>1 DEF Noted
    <3>2. CASE Present(e[2]) /\ new # e[1]
      <4>1. Dated(new)
        <5>1. IsPrefix(e[2], e[2]) /\ Len(new) = Len(e[2])
          BY <2>3, <2>4, PrefixSelf DEF Renames
        <5>2. To(e[2], new, e[2]) = new
          BY <2>3, <2>4, <5>1, ToWhole
        <5> QED
          BY <2>5, <3>2, <5>2 DEF Present
      <4>2. ix = AddFile(e[1], new)
        BY <3>2 DEF Noted
      <4>3. /\ ix[e[1]] = new
            /\ \A p \in DOMAIN ix : p # e[1] => p \in DOMAIN index /\ ix[p] = index[p]
        BY <4>2, AddFileFacts
      <4> QED
        BY <1>1, <4>1, <4>3
    <3> QED
      BY <3>1, <3>2
  <2> HIDE DEF ix
  <2>8. RowsDated(rows') /\ \A o \in DOMAIN index' : Dated(index'[o])
    BY <1>1, <1>2, <2>3, <2>7
  <2> QED
    BY <1>1, <2>3, <2>6, <2>8, DatingNext DEF Walks
<1> QED
  BY <1>3, <1>4

\* The SIP has the files as they are.
LEMMA SIPDating ==
  ASSUME Types, Dating, CreateSIP
  PROVE  Dating'
<1>1. /\ script = "sip" /\ script \in Scripts /\ stage = "work" /\ UNCHANGED <<disk, saved, round>>
      /\ RowsDated(rows) /\ RowsDated(saved) /\ DiskDated(disk)
      /\ \A o \in DOMAIN index : Dated(index[o])
  BY DEF CreateSIP, Scripts, Dating
<1>2. CASE todo = {}
  <2>1. Finish(0) /\ UNCHANGED rows
    BY <1>2 DEF CreateSIP
  <2> QED
    BY <1>1, <2>1, FinishDating
<1>3. CASE todo # {}
  <2>1. /\ rows' = [id \in DOMAIN rows |-> IF Live(id) /\ Present(rows[id].loc)
                                           THEN [rows[id] EXCEPT !.sip = TRUE] ELSE rows[id]]
        /\ UNCHANGED <<script, stage, index>>
    BY <1>3 DEF CreateSIP
  <2>2. DOMAIN rows' = DOMAIN rows /\ \A id \in DOMAIN rows :
          rows'[id].removed = rows[id].removed /\ rows'[id].loc = rows[id].loc
    BY <2>1, SipFacts DEF Types, Tables
  <2>3. RowsDated(rows')
    BY <1>1, <2>2 DEF RowsDated, Lives
  <2> QED
    BY <1>1, <2>1, <2>3, DatingNext
<1> QED
  BY <1>2, <1>3

\* The next extraction has a date of its own.
LEMMA StartExtractDating ==
  ASSUME Types, Dating, StartExtract
  PROVE  Dating'
<1> DEFINE S == {id \in DOMAIN rows : Live(id)}
<1>1. script = "extract" /\ Start(S) /\ round' = round + 1
  BY DEF StartExtract
<1>2. stage' = "work" /\ todo' = S /\ saved' = rows /\ UNCHANGED <<script, disk, rows, index>>
  BY <1>1 DEF Start
<1>3. /\ RowsDated(rows) /\ DiskDated(disk) /\ round \in Nat /\ rows \in Seq(SoundRows)
      /\ DiskOK(disk) /\ stage = "begin" /\ \A o \in DOMAIN index : Dated(index[o])
  BY <1>1 DEF Dating, Types, Control, Tables, Start
<1>4. round' \in Nat /\ round' > round
  BY <1>1, <1>3
<1>5. ASSUME NEW p \in Path, Dated(p), NEW i \in 1..Len(p)
      PROVE  p[i].ext <= round' /\ p[i].ext < round'
  <2>1. p[i] \in Names /\ p[i].ext <= round
    BY <1>5, PathFacts DEF Dated
  <2>2. p[i].ext \in Nat
    BY <2>1, NameType
  <2> QED
    BY <1>1, <1>3, <2>1, <2>2
<1>6. \A id \in Lives(rows) : rows[id].loc \in Path /\ Dated(rows[id].loc)
  BY <1>3, LiveLoc DEF RowsDated
<1>7. \A q \in DOMAIN disk : FilePath(q) /\ Dated(q) /\ q \in Path
  BY <1>3 DEF DiskOK, DiskDated, FilePath
<1>8. \A o \in DOMAIN index : index[o] \in Path
  BY DEF Types, IndexType, FilePath
<1>9. RowsDated(rows)' /\ DiskDated(disk)' /\ RowsDated(saved)' /\ (\A o \in DOMAIN index : Dated(index[o]))'
  <2>1. \A id \in Lives(rows) : \A i \in 1..Len(rows[id].loc) : rows[id].loc[i].ext <= round'
    BY <1>5, <1>6
  <2>2. \A q \in DOMAIN disk : \A i \in 1..Len(q) : q[i].ext <= round'
    BY <1>5, <1>7
  <2>3. \A o \in DOMAIN index : \A i \in 1..Len(index[o]) : index[o][i].ext <= round'
    BY <1>3, <1>5, <1>8
  <2> QED
    BY <1>2, <2>1, <2>2, <2>3 DEF RowsDated, DiskDated, Dated
<1>10. FilesFrom(disk)'
  <2>1. ASSUME NEW g \in DOMAIN disk, NEW q \in DOMAIN disk
        PROVE  q # Append(TargetAt(g, round'), q[Len(q)])
    BY <1>3, <1>4, <1>7, NoneYet
  <2> QED
    BY <1>2, <2>1 DEF FilesFrom, MemberPath, ExtractionTarget, TargetAt
<1>11. (\A id \in todo : Old(rows[id].loc))'
  <2>1. \A id \in Lives(rows) : \A i \in 1..Len(rows[id].loc) : rows[id].loc[i].ext < round'
    BY <1>5, <1>6
  <2> QED
    BY <1>2, <2>1 DEF Lives, Live, Old
<1>12. Before'
  BY <1>1, <1>2 DEF Before
<1> QED
  BY <1>9, <1>10, <1>11, <1>12 DEF Dating

\* Extraction overwrites nothing.
LEMMA UnpacksDated ==
  ASSUME NEW id, Looks(id), Dating, NEW S, NEW x, Unpacks(rows[id].loc, Format(id), S, x)
  PROVE  /\ \A p \in DOMAIN x \cap DOMAIN disk : x[p] = disk[p]
         /\ DiskDated(x) /\ FilesFrom(x)
         /\ \A U : MemberTable(rows, U, rows[id].loc, Format(id), S) => RowsDated(U)
<1> DEFINE g == rows[id].loc
           c == Format(id)
           new == {MemberPath(g, n) : n \in S}
<1>1. /\ g \in DOMAIN disk /\ c \in DOMAIN Members /\ S \subseteq DOMAIN Members[c]
      /\ DOMAIN x \subseteq DOMAIN disk \cup new
      /\ \A p \in DOMAIN x \ new : x[p] = disk[p]
      /\ \A n \in S : x[MemberPath(g, n)] = Members[c][n]
  BY DEF Unpacks
<1>2. /\ round \in Nat /\ round > 0 /\ FilePath(g) /\ Old(g) /\ Dated(g) /\ disk[g] = c
      /\ FilesFrom(disk) /\ DiskDated(disk) /\ RowsDated(rows)
      /\ \A q \in DOMAIN disk : FilePath(q)
  <2>1. /\ round \in Nat /\ round > 0 /\ FilesFrom(disk) /\ DiskDated(disk) /\ RowsDated(rows) /\ Old(g)
    BY DEF Looks, Types, Control, Dating
  <2>2. DiskOK(disk) /\ disk[g] = c
    BY <1>1 DEF Looks, Types, Format, Present
  <2> QED
    BY <1>1, <2>1, <2>2 DEF DiskOK, DiskDated
<1>3. ASSUME NEW n \in S
      PROVE  /\ n \in Names /\ n.ext = 0
             /\ MemberPath(g, n)[Len(MemberPath(g, n))] = n
             /\ ~Old(MemberPath(g, n)) /\ Dated(MemberPath(g, n))
  <2>1. n \in Names /\ n.ext = 0
    BY <1>1, MembersFacts
  <2> QED
    BY <1>2, <2>1, MemberNotOld
<1> HIDE DEF g, c
<1>4. ASSUME NEW n \in S, MemberPath(g, n) \in DOMAIN disk
      PROVE  disk[MemberPath(g, n)] = Members[c][n]
  BY <1>1, <1>2, <1>3, <1>4 DEF FilesFrom
<1>5. ASSUME NEW p \in DOMAIN x \cap DOMAIN disk PROVE x[p] = disk[p]
  BY <1>1, <1>4
<1>6. DiskDated(x)
  BY <1>1, <1>2, <1>3 DEF DiskDated
<1>7. ASSUME NEW h \in DOMAIN x, Old(h), NEW q \in DOMAIN x, q = MemberPath(h, q[Len(q)])
      PROVE  x[q] = Members[x[h]][q[Len(q)]]
  <2>1. h \in DOMAIN disk /\ x[h] = disk[h]
    BY <1>1, <1>3, <1>5, <1>7
  <2>2. CASE q \in DOMAIN disk
    BY <1>2, <1>5, <1>7, <2>1, <2>2 DEF FilesFrom
  <2>3. CASE q \notin DOMAIN disk
    <3>1. PICK n \in S : q = MemberPath(g, n)
      BY <1>1, <2>3
    <3>2. q[Len(q)] = n
      BY <1>3, <3>1
    <3>3. MemberPath(h, n) = MemberPath(g, n)
      BY <1>7, <3>1, <3>2
    <3>4. FilePath(h) /\ n \in Names /\ n.ext = 0
      BY <1>2, <1>3, <2>1
    <3>5. h = g
      BY <1>2, <3>3, <3>4, MemberInjective
    <3> QED
      BY <1>1, <1>2, <2>1, <3>1, <3>2, <3>5
  <2> QED
    BY <2>2, <2>3
<1>8. FilesFrom(x)
  BY <1>7 DEF FilesFrom
<1>9. ASSUME NEW U, MemberTable(rows, U, g, c, S) PROVE RowsDated(U)
  <2>1. \A p, v, h : NewRow(p, v, "unpacking", h).loc = p
    BY DEF NewRow
  <2>2. \A k \in Lives(U) : (k \in Lives(rows) /\ U[k] = rows[k]) \/ \E n \in S : U[k].loc = MemberPath(g, n)
    BY <1>9, <2>1 DEF MemberTable
  <2> QED
    BY <1>2, <1>3, <2>2 DEF RowsDated
<1> QED
  BY <1>5, <1>6, <1>8, <1>9 DEF g, c

\* Packages are extracted.
LEMMA ExtractDating ==
  ASSUME Types, Dating, Extract
  PROVE  Dating'
<1>1. /\ script = "extract" /\ script \in Scripts /\ stage = "work" /\ UNCHANGED <<saved, round>>
      /\ RowsDated(rows) /\ RowsDated(saved) /\ DiskDated(disk) /\ FilesFrom(disk)
      /\ \A k \in todo : Old(rows[k].loc)
      /\ \A o \in DOMAIN index : Dated(index[o])
  BY DEF Extract, Scripts, Dating
<1>2. CASE todo = {}
  <2>1. PICK c : Finish(c) /\ UNCHANGED <<disk, rows>>
    BY <1>2 DEF Extract
  <2> QED
    BY <1>1, <2>1, FinishDating
<1>3. CASE todo # {}
  <2>1. PICK id \in todo : ExtractDone(id)
    BY <1>3, ExtractStep
  <2>2. /\ todo' = todo \ {id} /\ UNCHANGED <<script, stage, index>> /\ Looks(id)
    BY <1>1, <2>1 DEF ExtractDone, Looks
  <2>3. DiskDated(disk') /\ RowsDated(rows') /\ FilesFrom(disk')
    <3>1. CASE UNCHANGED <<disk, rows>>
      <4>1. disk' = disk /\ rows' = rows
        BY <3>1
      <4> QED
        BY ONLY <1>1, <4>1
    <3>2. CASE ~UNCHANGED <<disk, rows>>
      <4> DEFINE x == disk'
                 U == rows'
      <4>1. PICK S : /\ Unpacks(rows[id].loc, Format(id), S, x)
                     /\ MemberTable(rows, U, rows[id].loc, Format(id), S)
        BY <2>1, <2>2, <3>2, ExtractUnpacksSome
      <4> HIDE DEF x, U
      <4>2. DiskDated(x) /\ FilesFrom(x) /\ RowsDated(U)
        BY <2>2, <4>1, UnpacksDated
      <4> QED
        BY <4>2 DEF x, U
    <3> QED
      BY <3>1, <3>2
  <2>4. \A k \in todo' : rows'[k] = rows[k]
    <3>1. \A k \in todo : k \in DOMAIN rows
      BY <1>1 DEF Types, TodoType
    <3>2. UNCHANGED rows \/ Unpacked(id)
      BY <1>1, <2>1, <2>2, ExtractFailsFacts DEF ExtractDone
    <3> QED
      BY <2>2, <3>1, <3>2 DEF Unpacked
  <2>5. (RowsDated(rows) /\ DiskDated(disk) /\ RowsDated(saved))' /\ (\A o \in DOMAIN index : Dated(index[o]))'
    BY <1>1, <2>2, <2>3 DEF RowsDated, DiskDated, Dated
  <2>6. FilesFrom(disk)'
    BY <1>1, <2>3 DEF FilesFrom, MemberPath, ExtractionTarget, Old
  <2>7. (\A k \in todo : Old(rows[k].loc))'
    BY <1>1, <2>2, <2>4 DEF Old
  <2>8. Before'
    BY <1>1, <2>2 DEF Before
  <2> QED
    BY <2>5, <2>6, <2>7, <2>8 DEF Dating
<1> QED
  BY <1>2, <1>3

\* The extraction of a package is cut off, or another script is.
LEMMA FaultDating ==
  ASSUME Types, Dating, ExtractCutOff \/ Raise \/ Crash
  PROVE  Dating'
<1>1. /\ stage = "work" /\ UNCHANGED <<saved, round>>
      /\ RowsDated(rows) /\ RowsDated(saved) /\ DiskDated(disk)
  BY DEF ExtractCutOff, Raise, Crash, Dating
<1>2. CASE Raise
  <2>1. Finish(1) /\ UNCHANGED <<disk, rows>> /\ script \in Scripts
    BY <1>2 DEF Raise, Scripts
  <2> QED
    BY <1>1, <2>1, FinishDating
<1>3. CASE Crash
  <2>1. /\ stage' # "work" /\ rows' \in {rows, saved} /\ index' = <<>> /\ UNCHANGED <<script, disk>>
    BY <1>3 DEF Crash
  <2>2. script \in {"hidden", "unneeded"} => rows' = <<>> /\ saved' = <<>>
    BY <1>1, <2>1 DEF Dating, Before
  <2> QED
    BY <1>1, <2>1, <2>2, DatingNext
<1>4. CASE ExtractCutOff
  <2>1. PICK id \in todo : \E S, X : CutOff(id, S, X)
    BY <1>4, ExtractCutsOff
  <2>2. PICK S, X : CutOff(id, S, X)
    BY <2>1
  <2>3. script = "extract" /\ script \in Scripts /\ Looks(id)
    BY <1>1, <1>4, <2>2 DEF ExtractCutOff, CutOff, Looks, Scripts
  <2> DEFINE x == disk'
             U == rows'
  <2>4. /\ Unpacks(rows[id].loc, Format(id), S, x)
        /\ U = saved \/ MemberTable(rows, U, rows[id].loc, Format(id), S)
    BY <2>2, <2>3, CutOffUnpacksSome
  <2> HIDE DEF x, U
  <2>5. DiskDated(x) /\ RowsDated(U)
    BY <1>1, <2>3, <2>4, UnpacksDated
  <2>6. \/ stage' = "begin" /\ index' = <<>> /\ UNCHANGED script
        \/ Finish(1)
    BY <2>2 DEF CutOff
  <2>7. stage' = "begin" /\ DOMAIN index' = {} /\ script' \in {"extract", "failed"}
    BY <1>1, <2>3, <2>6, AfterFacts
  <2> QED
    BY <1>1, <2>5, <2>7, DatingNext DEF x, U
<1> QED
  BY <1>2, <1>3, <1>4

\* Every step preserves the dates.
LEMMA AlwaysDating == Spec => []Dating
<1>1. ASSUME Init PROVE Dating
  <2>1. Naming /\ DOMAIN index = {} /\ stage = "begin"
    BY <1>1, InitNaming DEF Init
  <2> QED
    BY <2>1 DEF Dating, Naming
<1>2. ASSUME Types, Dating, [Next]_vars PROVE Dating'
  <2>1. CASE UNCHANGED vars
    BY <1>2, <2>1 DEF vars, Dating, Before, RowsDated, DiskDated, Dated, FilesFrom, MemberPath,
                      ExtractionTarget, Old
  <2>2. CASE StartHidden \/ StartPerFile \/ StartAssign \/ StartSIP \/ StartNames
    <3>1. PICK S : Start(S)
      BY <2>2 DEF StartHidden, StartPerFile, StartAssign, StartSIP, StartNames
    <3>2. script # "extract" /\ UNCHANGED round
      BY <2>2 DEF StartHidden, StartPerFile, StartAssign, StartSIP, StartNames
    <3> QED
      BY <1>2, <3>1, <3>2, StartDating
  <2>3. CASE RemoveHidden \/ RemoveUnneeded \/ RemoveUnlinked
    BY <1>2, <2>3, RemoveDating
  <2>4. CASE AssignChunk
    BY <1>2, <2>4, AssignDating
  <2>5. CASE ChangeName \/ ChangeNamesEnd
    BY <1>2, <2>5, NamesDating
  <2>6. CASE HasPackages \/ CreateSIPAgain
    <3>1. PICK c : Finish(c)
      BY <2>6 DEF HasPackages, CreateSIPAgain
    <3>2. script \in Scripts /\ UNCHANGED <<disk, rows, saved, round>>
      BY <2>6 DEF HasPackages, CreateSIPAgain, Scripts
    <3>3. RowsDated(rows') /\ DiskDated(disk')
      BY <1>2, <3>2 DEF Dating
    <3> QED
      BY <1>2, <3>1, <3>2, <3>3, FinishDating
  <2>7. CASE StartExtract
    BY <1>2, <2>7, StartExtractDating
  <2>8. CASE Extract
    BY <1>2, <2>8, ExtractDating
  <2>9. CASE CreateSIP
    BY <1>2, <2>9, SIPDating
  <2>10. CASE Raise \/ Crash \/ ExtractCutOff
    BY <1>2, <2>10, FaultDating
  <2> QED
    BY <1>2, <2>1, <2>2, <2>3, <2>4, <2>5, <2>6, <2>7, <2>8, <2>9, <2>10 DEF Next, Step, Stop
<1> QED
  BY <1>1, <1>2, AlwaysTypes, PTL DEF Spec

-----------------------------------------------------------------------------
(* Nothing is lost.                                                        *)

Needed(n) == n.base \notin Removable

\* The content c is on the disk d, in a file with the base name b.
OnDisk(d, c, b) == \E q \in DOMAIN d : d[q] = c /\ q[Len(q)].base = b

\* It is, or it is that of a package whose files are.
Safe(d, c, b) ==
  \/ OnDisk(d, c, b)
  \/ /\ delete /\ c \in DOMAIN Members
     /\ \A n \in DOMAIN Members[c] : Needed(n) =>
          OnDisk(d, Members[c][n], n.base) \/ Members[c][n] \in DOMAIN Members

Accounted(d, R) ==
  \A id \in DOMAIN R : Needed(Last(R[id].first)) => Safe(d, R[id].content, Last(R[id].first).base)

Keeping ==
  script \notin {"linking"} \cup Ended =>
    Accounted(disk, rows) /\ (stage = "work" => Accounted(disk, saved))

\* A disk that still has what is needed accounts for the same rows.
LEMMA SafeStays ==
  ASSUME NEW d, NEW x, NEW R, Accounted(d, R),
         \A c, b : b \notin Removable /\ OnDisk(d, c, b) => OnDisk(x, c, b)
  PROVE  Accounted(x, R)
<1>1. ASSUME NEW c, NEW b, b \notin Removable, Safe(d, c, b) PROVE Safe(x, c, b)
  BY <1>1 DEF Safe, Needed
<1> QED
  BY <1>1 DEF Accounted, Needed

\* So does one with all the files of the packages that were deleted.
LEMMA SafeWithout ==
  ASSUME NEW d, NEW x, NEW R, Accounted(d, R), delete, NEW g \in DOMAIN Members,
         \A c, b : c # g /\ OnDisk(d, c, b) => OnDisk(x, c, b),
         \A n \in DOMAIN Members[g] : OnDisk(x, Members[g][n], n.base)
  PROVE  Accounted(x, R)
<1>1. ASSUME NEW c, NEW b, Safe(d, c, b) PROVE Safe(x, c, b)
  <2>1. CASE c = g
    BY <2>1 DEF Safe
  <2>2. CASE c # g
    <3>1. CASE OnDisk(d, c, b)
      BY <2>2, <3>1 DEF Safe
    <3>2. CASE ~OnDisk(d, c, b)
      <4>1. /\ c \in DOMAIN Members
            /\ \A n \in DOMAIN Members[c] : Needed(n) =>
                 OnDisk(d, Members[c][n], n.base) \/ Members[c][n] \in DOMAIN Members
        BY <1>1, <3>2 DEF Safe
      <4>2. \A n \in DOMAIN Members[c] : Needed(n) =>
              OnDisk(x, Members[c][n], n.base) \/ Members[c][n] \in DOMAIN Members
        BY <4>1
      <4> QED
        BY <4>1, <4>2 DEF Safe
    <3> QED
      BY <3>1, <3>2
  <2> QED
    BY <2>1, <2>2
<1> QED
  BY <1>1 DEF Accounted

\* Where a row is now does not matter.
LEMMA SafeRows ==
  ASSUME NEW d, NEW R, NEW U, Accounted(d, R), DOMAIN U = DOMAIN R,
         \A id \in DOMAIN R : U[id].first = R[id].first /\ U[id].content = R[id].content
  PROVE  Accounted(d, U)
BY DEF Accounted

\* The goal, with the choice of the user unchanged.
LEMMA KeepingNext ==
  ASSUME UNCHANGED delete,
         script' \notin {"linking"} \cup Ended =>
           Accounted(disk', rows') /\ (stage' = "work" => Accounted(disk', saved'))
  PROVE  Keeping'
BY DEF Keeping, Accounted, Safe

\* The end of a job.
LEMMA FinishKeeping ==
  ASSUME Keeping, script \in Scripts, NEW c, Finish(c), UNCHANGED <<delete, disk>>,
         script # "linking" => Accounted(disk, rows')
  PROVE  Keeping'
<1>1. stage' = "begin" /\ (script = "linking" => script' \in Ended)
  BY AfterFacts
<1> QED
  BY <1>1, KeepingNext

\* The start of a script.
LEMMA StartKeeping ==
  ASSUME Keeping, NEW S, Start(S)
  PROVE  Keeping'
<1>1. UNCHANGED <<script, delete, disk, rows>> /\ saved' = rows
  BY DEF Start
<1> QED
  BY <1>1, KeepingNext DEF Keeping

\* Hidden files have no row.
LEMMA HiddenKeeping ==
  ASSUME Dating, RemoveHidden
  PROVE  Keeping'
<1>1. rows' = <<>> /\ saved' = <<>> /\ UNCHANGED delete
  BY DEF RemoveHidden, Dating, Before
<1>2. \A d : Accounted(d, <<>>)
  BY DEF Accounted
<1> QED
  BY <1>1, <1>2, KeepingNext

\* Only what is not needed is removed.
LEMMA PerFileKeeping ==
  ASSUME Types, Keeping, RemoveUnneeded \/ RemoveUnlinked
  PROVE  Keeping'
<1>1. CASE todo = {}
  <2>1. PICK c : Finish(c) /\ UNCHANGED <<delete, disk, rows>>
    BY <1>1 DEF RemoveUnneeded, RemoveUnlinked
  <2>2. script \in Scripts
    BY DEF RemoveUnneeded, RemoveUnlinked, Scripts
  <2>3. script # "linking" => Accounted(disk, rows')
    BY <2>1, <2>2 DEF Keeping, Scripts, Ended
  <2> QED
    BY <2>1, <2>2, <2>3, FinishKeeping
<1>2. CASE RemoveUnlinked /\ todo # {}
  <2>1. script' = "linking" /\ UNCHANGED delete
    BY <1>2, UnlinkedTask DEF RemoveUnlinked, TaskDone
  <2> QED
    BY <2>1, KeepingNext
<1>3. CASE RemoveUnneeded /\ todo # {}
  <2>1. PICK t \in todo :
          TaskDone(t) /\ (disk' # disk => t[3] # NoFile /\ t[3][Len(t[3])].base \in Removable)
    BY <1>3, UnneededTask
  <2>2. script \in PerFile /\ stage = "work" /\ script \notin {"linking"} \cup Ended
    BY <1>3 DEF RemoveUnneeded, PerFile, Ended
  <2>3. Accounted(disk, rows) /\ Accounted(disk, saved)
    BY <2>2 DEF Keeping
  <2>4. /\ DOMAIN rows' = DOMAIN rows
        /\ \A id \in DOMAIN rows : rows'[id].first = rows[id].first /\ rows'[id].content = rows[id].content
    BY <2>1, <2>2, TaskRows
  <2>5. \A c, b : b \notin Removable /\ OnDisk(disk, c, b) => OnDisk(disk', c, b)
    <3>1. CASE disk' = disk
      BY <3>1
    <3>2. CASE disk' # disk
      <4> DEFINE p == t[3]
      <4>1. disk' = Restrict(disk, DOMAIN disk \ {p}) /\ p[Len(p)].base \in Removable
        BY <2>1, <3>2 DEF TaskDone
      <4> HIDE DEF p
      <4>2. DOMAIN disk' = DOMAIN disk \ {p} /\ \A q \in DOMAIN disk' : disk'[q] = disk[q]
        BY <4>1 DEF Restrict
      <4> QED
        BY <4>1, <4>2 DEF OnDisk
    <3> QED
      BY <3>1, <3>2
  <2>6. Accounted(disk', rows) /\ Accounted(disk', saved)
    BY <2>3, <2>5, SafeStays
  <2>7. Accounted(disk', rows')
    BY <2>4, <2>6, SafeRows
  <2>8. UNCHANGED <<delete, saved>>
    BY <2>1 DEF TaskDone
  <2> QED
    BY <2>6, <2>7, <2>8, KeepingNext
<1> QED
  BY <1>1, <1>2, <1>3

\* A row is that of a file on disk.
LEMMA AssignKeeping ==
  ASSUME Types, Keeping, AssignChunk
  PROVE  Keeping'
<1>1. script = "assign" /\ script \in Scripts /\ stage = "work" /\ UNCHANGED <<delete, disk>>
      /\ Accounted(disk, rows)
  BY DEF AssignChunk, Scripts, Keeping, Ended
<1>2. CASE todo = {}
  <2>1. Finish(0) /\ UNCHANGED rows
    BY <1>2 DEF AssignChunk
  <2> QED
    BY <1>1, <2>1, FinishKeeping
<1>3. CASE todo # {}
  <2>1. PICK chunk \in SUBSET todo : Assigned(chunk)
    BY <1>3, AssignChunkAssigns
  <2>2. /\ chunk \subseteq DOMAIN disk
        /\ \A k \in DOMAIN rows : rows'[k] = rows[k]
        /\ \A k \in DOMAIN rows' \ DOMAIN rows :
             \E p \in chunk : rows'[k] = NewRow(p, disk[p], "ingestion", NoFile)
        /\ saved' = rows'
    BY <1>1, <2>1 DEF Assigned, Types, TodoType
  <2>3. ASSUME NEW p \in chunk, NEW k \in DOMAIN rows', rows'[k] = NewRow(p, disk[p], "ingestion", NoFile)
        PROVE  Safe(disk, rows'[k].content, Last(rows'[k].first).base)
    <3>1. rows'[k].first = p /\ rows'[k].content = disk[p]
      BY <2>3 DEF NewRow
    <3> QED
      BY <2>2, <3>1 DEF Safe, OnDisk, Last
  <2>4. Accounted(disk, rows')
    BY <1>1, <2>2, <2>3 DEF Accounted
  <2> QED
    BY <1>1, <2>2, <2>4, KeepingNext
<1> QED
  BY <1>2, <1>3

\* A renaming leaves the base name.
LEMMA NamesKeeping ==
  ASSUME Types, Keeping, ChangeName \/ ChangeNamesEnd
  PROVE  Keeping'
<1>1. /\ script \in Walks /\ script \in Scripts /\ stage = "work" /\ UNCHANGED delete
      /\ Accounted(disk, rows) /\ Accounted(disk, saved) /\ rows \in Seq(SoundRows)
      /\ UNCHANGED saved
  BY DEF ChangeName, ChangeNamesEnd, Walks, Scripts, Keeping, Ended, Types, Tables
<1>2. ASSUME NEW ix, IndexType(ix), NEW d, Accounted(d, rows) PROVE Accounted(d, FileUpdates(ix))
  <2> DEFINE U == FileUpdates(ix)
  <2>1. DOMAIN U = DOMAIN rows /\ \A id \in DOMAIN rows :
          U[id].first = rows[id].first /\ U[id].content = rows[id].content
    BY <1>1, <1>2, FileUpdatesFacts
  <2> HIDE DEF U
  <2>2. Accounted(d, U)
    BY <1>2, <2>1, SafeRows
  <2> QED
    BY <2>2 DEF U
<1>3. CASE ChangeNamesEnd
  <2>1. Finish(0) /\ UNCHANGED <<delete, disk>> /\ rows' = FileUpdates(index) /\ IndexType(index)
    BY <1>3 DEF ChangeNamesEnd, Types
  <2>2. Accounted(disk, rows')
    BY <1>1, <1>2, <2>1
  <2> QED
    BY <1>1, <2>1, <2>2, FinishKeeping
<1>4. CASE ChangeName
  <2>1. PICK e \in todo : \E new \in Path : Walked(e, new)
    BY <1>4, ChangeNameWalks
  <2>2. PICK new \in Path : Walked(e, new)
    BY <2>1
  <2> DEFINE ix == Noted(e[1], new, ~Present(e[2]))
  <2>3. /\ Entry(e) /\ Renames(e[2], new) /\ MovedDisk(e[2], new) /\ IndexType(ix)
        /\ rows' = FileUpdates(ix) \/ rows' = rows
    BY <2>2 DEF Walked
  <2> HIDE DEF ix
  <2>4. ASSUME NEW c, NEW b, OnDisk(disk, c, b) PROVE OnDisk(disk', c, b)
    <3>1. PICK q \in DOMAIN disk : disk[q] = c /\ q[Len(q)].base = b
      BY <2>4 DEF OnDisk
    <3> DEFINE x == To(e[2], new, q)
    <3>2. q \in Path /\ Len(q) \in Nat /\ Len(q) > 0 /\ e[2] \in Path /\ e[2] # <<>>
      BY <2>3, PathFacts DEF Types, DiskOK, FilePath, Entry
    <3>3. Len(x) = Len(q) /\ \A i \in 1..Len(q) : x[i].base = q[i].base
      BY <2>3, <3>2, MoveKeeps
    <3>4. x \in DOMAIN disk' /\ disk'[x] = disk[q]
      BY <2>3 DEF MovedDisk
    <3> HIDE DEF x
    <3>5. x[Len(x)].base = b
      BY <3>1, <3>2, <3>3
    <3> QED
      BY <3>1, <3>4, <3>5 DEF OnDisk
  <2>5. Accounted(disk', rows) /\ Accounted(disk', saved)
    BY <1>1, <2>4, SafeStays
  <2>6. Accounted(disk', rows')
    BY <1>2, <2>3, <2>5
  <2> QED
    BY <1>1, <2>5, <2>6, KeepingNext
<1> QED
  BY <1>3, <1>4

\* What an extraction leaves accounts for all: a package goes when its files
\* are there.
LEMMA UnpacksKeeping ==
  ASSUME NEW id, Looks(id), Dating, NEW S, NEW x, Unpacks(rows[id].loc, Format(id), S, x),
         rows[id].loc \in DOMAIN x \/ (delete /\ S = DOMAIN Members[Format(id)])
  PROVE  /\ \A R : Accounted(disk, R) => Accounted(x, R)
         /\ \A n \in S : /\ OnDisk(x, Members[Format(id)][n], n.base)
                         /\ Last(MemberPath(rows[id].loc, n)) = n
<1> DEFINE g == rows[id].loc
           c == Format(id)
<1>1. \A p \in DOMAIN x \cap DOMAIN disk : x[p] = disk[p]
  BY UnpacksDated, ZenonT(60)
<1>2. /\ g \in DOMAIN disk /\ c \in DOMAIN Members /\ S \subseteq DOMAIN Members[c]
      /\ DOMAIN disk \ {g} \subseteq DOMAIN x
      /\ \A n \in S : MemberPath(g, n) \in DOMAIN x /\ x[MemberPath(g, n)] = Members[c][n]
  BY DEF Unpacks
<1>3. disk[g] = c /\ FilePath(g) /\ round \in Nat /\ round > 0
  BY <1>2 DEF Looks, Types, DiskOK, Control, Format, Present
<1>4. g \in DOMAIN x \/ (delete /\ S = DOMAIN Members[c])
  OBVIOUS
<1> HIDE DEF g, c
<1>5. ASSUME NEW n \in S
      PROVE  /\ OnDisk(x, Members[c][n], n.base)
             /\ Last(MemberPath(g, n)) = n
  <2>1. n \in Names /\ n.ext = 0
    BY <1>2, MembersFacts
  <2>2. MemberPath(g, n)[Len(MemberPath(g, n))] = n
    BY <1>3, <2>1, MemberNotOld
  <2> QED
    BY <1>2, <2>2 DEF OnDisk, Last
<1>6. \A d, b : d # c /\ OnDisk(disk, d, b) => OnDisk(x, d, b)
  BY <1>1, <1>2, <1>3 DEF OnDisk
<1>7. ASSUME NEW R, Accounted(disk, R) PROVE Accounted(x, R)
  <2>1. CASE g \in DOMAIN x
    <3>1. \A d, b : OnDisk(disk, d, b) => OnDisk(x, d, b)
      BY <1>1, <1>2, <2>1 DEF OnDisk
    <3> QED
      BY <1>7, <3>1, SafeStays
  <2>2. CASE delete /\ S = DOMAIN Members[c]
    BY <1>2, <1>5, <1>6, <1>7, <2>2, SafeWithout
  <2> QED
    BY <1>4, <2>1, <2>2
<1> QED
  BY <1>5, <1>7 DEF g, c

\* Packages are extracted.
LEMMA ExtractKeeping ==
  ASSUME Types, Dating, Keeping, Extract
  PROVE  Keeping'
<1>1. /\ script = "extract" /\ script \in Scripts /\ stage = "work" /\ UNCHANGED <<delete, saved>>
      /\ Accounted(disk, rows) /\ Accounted(disk, saved)
  BY DEF Extract, Scripts, Keeping, Ended
<1>2. CASE todo = {}
  <2>1. PICK c : Finish(c) /\ UNCHANGED <<disk, rows>>
    BY <1>2 DEF Extract
  <2> QED
    BY <1>1, <2>1, FinishKeeping
<1>3. CASE todo # {}
  <2>1. PICK id \in todo : ExtractDone(id)
    BY <1>3, ExtractStep
  <2>2. Looks(id)
    BY <1>1, <2>1 DEF Looks, ExtractDone
  <2>3. CASE UNCHANGED <<disk, rows>>
    <3>1. disk' = disk /\ rows' = rows
      BY <2>3
    <3>2. Accounted(disk', rows') /\ Accounted(disk', saved')
      BY <1>1, <3>1
    <3> QED
      BY <1>1, <3>2, KeepingNext
  <2>4. CASE ~UNCHANGED <<disk, rows>>
    <3> DEFINE g == rows[id].loc
               c == Format(id)
               x == disk'
               U == rows'
    <3>1. PICK S : /\ Unpacks(g, c, S, x) /\ WholeTable(rows, U, g, c, S)
                   /\ g \in DOMAIN x \/ (delete /\ S = DOMAIN Members[c])
      BY <2>1, <2>2, <2>4, ExtractUnpacksSome
    <3> HIDE DEF x, U
    <3>2. /\ \A R : Accounted(disk, R) => Accounted(x, R)
          /\ \A n \in S : OnDisk(x, Members[c][n], n.base) /\ Last(MemberPath(g, n)) = n
      BY <2>2, <3>1, UnpacksKeeping
    <3> HIDE DEF g, c
    <3>3. Accounted(x, rows) /\ Accounted(x, saved)
      BY <1>1, <3>2
    <3>4. ASSUME NEW k \in DOMAIN U, NEW n \in S,
                 U[k] = NewRow(MemberPath(g, n), Members[c][n], "unpacking", g)
          PROVE  Safe(x, U[k].content, Last(U[k].first).base)
      <4>1. U[k].first = MemberPath(g, n) /\ U[k].content = Members[c][n]
        BY <3>4 DEF NewRow
      <4> QED
        BY <3>2, <4>1 DEF Safe
    <3>5. Accounted(x, U)
      BY <3>1, <3>3, <3>4 DEF Accounted, WholeTable
    <3> QED
      BY <1>1, <3>3, <3>5, KeepingNext DEF x, U
  <2> QED
    BY <2>3, <2>4
<1> QED
  BY <1>2, <1>3

\* The extraction of a package is cut off.
LEMMA CutOffKeeping ==
  ASSUME Types, Dating, Keeping, ExtractCutOff
  PROVE  Keeping'
<1>1. /\ script = "extract" /\ script \in Scripts /\ stage = "work" /\ UNCHANGED <<delete, saved>>
      /\ Accounted(disk, saved)
  BY DEF ExtractCutOff, Scripts, Keeping, Ended
<1>2. PICK id \in todo : \E S, X : CutOff(id, S, X)
  BY ExtractCutsOff
<1>3. PICK S, X : CutOff(id, S, X)
  BY <1>2
<1>4. Looks(id)
  BY <1>1, <1>3 DEF CutOff, Looks
<1> DEFINE x == disk'
<1>5. /\ Unpacks(rows[id].loc, Format(id), S, x)
      /\ rows[id].loc \in DOMAIN x \/ (delete /\ S = DOMAIN Members[Format(id)])
  BY <1>3, <1>4, CutOffUnpacksSome
<1> HIDE DEF x
<1>6. Accounted(x, saved)
  BY <1>1, <1>4, <1>5, UnpacksKeeping
<1>7. \/ stage' = "begin" /\ rows' = saved
      \/ Finish(1)
  BY <1>3 DEF CutOff
<1>8. Finish(1) => script' \in Ended
  BY <1>1, AfterFacts DEF Ended
<1> QED
  BY <1>1, <1>6, <1>7, <1>8, KeepingNext DEF x

\* The SIP has the files as they are.
LEMMA SIPKeeping ==
  ASSUME Types, Keeping, CreateSIP
  PROVE  Keeping'
<1>1. /\ script = "sip" /\ script \in Scripts /\ stage = "work" /\ UNCHANGED <<delete, disk, saved>>
      /\ Accounted(disk, rows) /\ Accounted(disk, saved)
  BY DEF CreateSIP, Scripts, Keeping, Ended
<1>2. CASE todo = {}
  <2>1. Finish(0) /\ UNCHANGED rows
    BY <1>2 DEF CreateSIP
  <2> QED
    BY <1>1, <2>1, FinishKeeping
<1>3. CASE todo # {}
  <2>1. rows' = [id \in DOMAIN rows |-> IF Live(id) /\ Present(rows[id].loc)
                                        THEN [rows[id] EXCEPT !.sip = TRUE] ELSE rows[id]]
    BY <1>3 DEF CreateSIP
  <2>2. DOMAIN rows' = DOMAIN rows /\ \A id \in DOMAIN rows :
          rows'[id].first = rows[id].first /\ rows'[id].content = rows[id].content
    BY <2>1, SipFacts DEF Types, Tables
  <2>3. Accounted(disk', rows')
    BY <1>1, <2>2, SafeRows
  <2> QED
    BY <1>1, <2>3, KeepingNext
<1> QED
  BY <1>2, <1>3

\* A script is interrupted.
LEMMA FaultKeeping ==
  ASSUME Keeping, Raise \/ Crash
  PROVE  Keeping'
<1>1. CASE Raise
  <2>1. /\ Finish(1) /\ UNCHANGED <<delete, disk, rows>> /\ script \in Scripts
        /\ Accounted(disk, rows)
    BY <1>1 DEF Raise, Scripts, Keeping, Ended
  <2> QED
    BY <2>1, FinishKeeping
<1>2. CASE Crash
  <2>1. /\ UNCHANGED <<script, delete, disk>> /\ (rows' = rows \/ rows' = saved)
        /\ stage = "work" /\ stage' # "work"
    BY <1>2 DEF Crash
  <2> QED
    BY <2>1, KeepingNext DEF Keeping
<1> QED
  BY <1>1, <1>2

\* Every step keeps what is needed.
LEMMA KeepingStep ==
  ASSUME Types, Dating, Keeping, [Next]_vars
  PROVE  Keeping'
<1>1. CASE UNCHANGED vars
  BY <1>1 DEF vars, Keeping, Accounted, Safe
<1>2. CASE StartHidden \/ StartPerFile \/ StartAssign \/ StartSIP \/ StartNames \/ StartExtract
  BY <1>2, StartKeeping DEF StartHidden, StartPerFile, StartAssign, StartSIP, StartNames, StartExtract
<1>3. CASE RemoveHidden
  BY <1>3, HiddenKeeping
<1>4. CASE RemoveUnneeded \/ RemoveUnlinked
  BY <1>4, PerFileKeeping
<1>5. CASE AssignChunk
  BY <1>5, AssignKeeping
<1>6. CASE ChangeName \/ ChangeNamesEnd
  BY <1>6, NamesKeeping
<1>7. CASE HasPackages \/ CreateSIPAgain
  <2>1. PICK c : Finish(c)
    BY <1>7 DEF HasPackages, CreateSIPAgain
  <2>2. script \in Scripts /\ UNCHANGED <<delete, disk, rows>> /\ Accounted(disk, rows)
    BY <1>7 DEF HasPackages, CreateSIPAgain, Scripts, Keeping, Ended
  <2> QED
    BY <2>1, <2>2, FinishKeeping
<1>8. CASE Extract
  BY <1>8, ExtractKeeping
<1>9. CASE CreateSIP
  BY <1>9, SIPKeeping
<1>10. CASE Raise \/ Crash
  BY <1>10, FaultKeeping
<1>11. CASE ExtractCutOff
  BY <1>11, CutOffKeeping
<1> QED
  BY <1>1, <1>2, <1>3, <1>4, <1>5, <1>6, <1>7, <1>8, <1>9, <1>10, <1>11 DEF Next, Step, Stop

\* Until the files without linking information are removed, no content that
\* came with the transfer or out of a package leaves the disk, but for the
\* unneeded ones and packages the user wanted deleted, these not before their
\* files are there: for every tree, every nesting of packages, whatever names
\* are equal in NFC, and any number of faults.
THEOREM NothingIsLost == Spec => []NothingLost
<1>1. Init => Keeping
  BY DEF Init, Keeping, Accounted
<1>2. Types /\ Dating /\ Keeping /\ [Next]_vars => Keeping'
  BY KeepingStep
<1>3. Types /\ Keeping => NothingLost
  <2>1. SUFFICES ASSUME Keeping, script \notin {"linking"} \cup Ended, NEW id \in DOMAIN rows,
                        Needed(Last(rows[id].first))
                 PROVE  LET c == rows[id].content
                            kept(a) == a \in Contents(disk) \/ (delete /\ a \in DOMAIN Members)
                        IN /\ kept(c)
                           /\ c \notin Contents(disk) =>
                                \A n \in DOMAIN Members[c] : Needed(n) => kept(Members[c][n])
    BY DEF NothingLost, Needed
  <2>2. Safe(disk, rows[id].content, Last(rows[id].first).base)
    BY <2>1 DEF Keeping, Accounted
  <2>3. \A a, b : OnDisk(disk, a, b) => a \in Contents(disk)
    BY DEF OnDisk, Contents
  <2> QED
    BY <2>2, <2>3 DEF Safe
<1> QED
  BY <1>1, <1>2, <1>3, AlwaysTypes, AlwaysDating, PTL DEF Spec

-----------------------------------------------------------------------------
(* While nothing goes wrong, files and rows are one to one.                *)

\* Each file has one live row with its location, each live row a file.
Matched(d, R) ==
  /\ \A q \in DOMAIN d : \E id \in Lives(R) : R[id].loc = q
  /\ \A id \in Lives(R) : R[id].loc \in DOMAIN d
  /\ \A id, k \in Lives(R) : R[id].loc = R[k].loc => id = k

\* Each file has one live row that stands for it, each live row a file.
WalkMatched(d, ix, T, R) ==
  /\ \A q \in DOMAIN d : \E id \in Lives(R) : Stands(ix, T, R[id].loc, q)
  /\ \A id \in Lives(R) : \E q \in DOMAIN d : Stands(ix, T, R[id].loc, q)
  /\ \A id, k \in Lives(R) : \A q \in DOMAIN d :
       Stands(ix, T, R[id].loc, q) /\ Stands(ix, T, R[k].loc, q) => id = k

\* The files that are still to be assigned a UUID have no row, the others one.
AssignMatched ==
  /\ stage = "begin" => rows = <<>>
  /\ stage = "work" =>
       /\ \A q \in DOMAIN disk : q \in todo \/ \E id \in Lives(rows) : rows[id].loc = q
       /\ \A id \in Lives(rows) : rows[id].loc \notin todo
       /\ \A id, k \in Lives(rows) : rows[id].loc = rows[k].loc => id = k

\* Every task is that of a live row.
TasksMatched ==
  /\ \A t \in todo : t[1] \in Lives(rows) /\ t[3] = rows[t[1]].loc
  /\ \A t, u \in todo : t[1] = u[1] => t = u

\* Nothing is where the files of the packages that are still to be extracted
\* will be.
Vacant == \A id \in todo : \A q \in DOMAIN disk : q # MemberPath(rows[id].loc, q[Len(q)])

Settled == {"has", "extract", "unneeded2", "has2", "sip", "linking", "done"}

\* The rows become the SIP's all at once.
Flags ==
  /\ script \notin {"sip", "linking"} \cup Ended => \A id \in Lives(rows) : rows[id].sip = FALSE
  /\ script \in {"linking", "done"} \/ (script = "sip" /\ stage = "work" /\ todo = {}) =>
       \A id \in Lives(rows) : rows[id].sip = TRUE

Matching ==
  /\ stage = "begin" => tasks = {}
  /\ script = "assign" => AssignMatched
  /\ script \in Walks => /\ stage = "begin" => Matched(disk, rows)
                         /\ stage = "work" => WalkMatched(disk, index, todo, rows)
  /\ script \in Settled => Matched(disk, rows)
  /\ script = "extract" /\ stage = "work" => Vacant
  /\ script \in {"unneeded2", "linking"} /\ stage = "work" => TasksMatched
  /\ Flags

\* A job ends with files and rows one to one.
LEMMA EndMatching ==
  ASSUME script \in Scripts, NEW c, Finish(c), script' # "assign", Matched(disk', rows'), Flags'
  PROVE  Matching'
<1>1. stage' = "begin" /\ tasks' = {}
  BY AfterFacts
<1> QED
  BY <1>1 DEF Matching

\* Before there are rows.
LEMMA EarlyMatching ==
  ASSUME Types, Naming, Matching, StartHidden \/ RemoveHidden \/ (script = "unneeded" /\ (StartPerFile \/ RemoveUnneeded))
  PROVE  Matching'
<1>1. script \in {"hidden", "unneeded"} /\ rows = <<>>
  BY DEF StartHidden, RemoveHidden, Naming, Before
<1>2. rows' = <<>>
  <2>1. CASE StartHidden \/ StartPerFile
    BY <1>1, <2>1 DEF StartHidden, StartPerFile, Start
  <2>2. CASE RemoveHidden
    BY <1>1, <2>2 DEF RemoveHidden
  <2>3. CASE RemoveUnneeded /\ todo = {}
    BY <1>1, <2>3 DEF RemoveUnneeded
  <2>4. CASE RemoveUnneeded /\ todo # {}
    <3>1. PICK t \in todo : TaskDone(t)
      BY <2>4, UnneededTask
    <3>2. script \in PerFile /\ stage = "work"
      BY <2>4 DEF RemoveUnneeded, PerFile
    <3> QED
      BY <1>1, <3>1, <3>2, TaskRows
  <2> QED
    BY <1>1, <2>1, <2>2, <2>3, <2>4
<1>3. \/ stage' = "work" /\ script' = script
      \/ stage' = "begin" /\ tasks' = {} /\ script' \in {"unneeded", "assign"}
  <2>1. CASE StartHidden \/ StartPerFile
    BY <2>1 DEF StartHidden, StartPerFile, Start
  <2>2. CASE RemoveHidden
    <3>1. CASE todo = {}
      BY <2>2, <3>1, AfterFacts DEF RemoveHidden, Scripts
    <3>2. CASE todo # {}
      BY <2>2, <3>2 DEF RemoveHidden
    <3> QED
      BY <3>1, <3>2
  <2>3. CASE RemoveUnneeded /\ script = "unneeded"
    <3>1. CASE todo = {}
      <4>1. Finish(code) /\ script \in Scripts
        BY <2>3, <3>1 DEF RemoveUnneeded, Scripts
      <4> QED
        BY <2>3, <4>1, AfterFacts
    <3>2. CASE todo # {}
      <4>1. stage = "work"
        BY <2>3 DEF RemoveUnneeded
      <4> QED
        BY <2>3, <3>2, <4>1, UnneededTask DEF TaskDone
    <3> QED
      BY <3>1, <3>2
  <2> QED
    BY <1>1, <2>1, <2>2, <2>3
<1>4. Lives(rows') = {}
  BY <1>2, EmptyTable
<1> QED
  BY <1>1, <1>2, <1>3, <1>4
     DEF Matching, AssignMatched, Walks, Settled, Flags, Ended

\* UUIDs are assigned, one to each file.
LEMMA AssignMatching ==
  ASSUME Types, Naming, Matching, StartAssign \/ AssignChunk
  PROVE  Matching'
<1>1. script = "assign" /\ script \in Scripts /\ UNCHANGED disk
      /\ \A id \in Lives(rows) : rows[id].loc \in DOMAIN disk /\ rows[id].sip = FALSE
  BY DEF StartAssign, AssignChunk, Start, Naming, Assigning, Present, Matching, Flags, Ended, Scripts
<1>2. CASE StartAssign
  <2>1. /\ stage = "begin" /\ stage' = "work" /\ todo' = DOMAIN disk
        /\ UNCHANGED <<script, disk, rows>>
    BY <1>2 DEF StartAssign, Start
  <2>2. rows' = <<>>
    BY <1>1, <2>1 DEF Matching, AssignMatched
  <2>3. Lives(rows') = {}
    BY <2>2, EmptyTable
  <2> QED
    BY <1>1, <2>1, <2>3 DEF Matching, AssignMatched, Walks, Settled, Flags
<1>3. CASE AssignChunk /\ todo = {}
  <2>1. Finish(0) /\ UNCHANGED rows /\ stage = "work"
    BY <1>3 DEF AssignChunk
  <2>2. script' = "names"
    BY <1>1, <2>1, AfterFacts
  <2>3. Matched(disk', rows')
    BY <1>1, <1>3, <2>1 DEF Matching, AssignMatched, Matched
  <2>4. Flags'
    BY <1>1, <2>1, <2>2 DEF Flags
  <2> QED
    BY <1>1, <2>1, <2>2, <2>3, <2>4, EndMatching
<1>4. CASE AssignChunk /\ todo # {}
  <2>1. PICK chunk \in SUBSET todo : Assigned(chunk)
    BY <1>4, AssignChunkAssigns
  <2>2. /\ todo' = todo \ chunk /\ chunk \subseteq todo
        /\ DOMAIN rows \subseteq DOMAIN rows' /\ \A k \in DOMAIN rows : rows'[k] = rows[k]
        /\ \A k \in DOMAIN rows' \ DOMAIN rows :
             \E p \in chunk : rows'[k] = NewRow(p, disk[p], "ingestion", NoFile)
        /\ \A p \in chunk : \E k \in DOMAIN rows' \ DOMAIN rows : rows'[k].loc = p
        /\ \A k, l \in DOMAIN rows' \ DOMAIN rows : rows'[k].loc = rows'[l].loc => k = l
        /\ UNCHANGED <<script, stage>>
    BY <2>1 DEF Assigned
  <2>3. stage = "work" /\ AssignMatched
    BY <1>1, <1>4 DEF AssignChunk, Matching
  <2>4. ASSUME NEW k \in DOMAIN rows' \ DOMAIN rows
        PROVE  rows'[k].loc \in chunk /\ rows'[k].sip = FALSE /\ k \in Lives(rows')
    <3>1. PICK p \in chunk : rows'[k] = NewRow(p, disk[p], "ingestion", NoFile)
      BY <2>2
    <3>2. rows'[k].loc = p /\ rows'[k].removed = FALSE /\ rows'[k].sip = FALSE
      <4> DEFINE n == NewRow(p, disk[p], "ingestion", NoFile)
      <4>1. n.loc = p /\ n.removed = FALSE /\ n.sip = FALSE
        BY DEF NewRow
      <4>2. rows'[k] = n
        BY <3>1
      <4> HIDE DEF n
      <4> QED
        BY <4>1, <4>2, Zenon
    <3> QED
      BY <3>2 DEF Lives
  <2>5. /\ \A k \in Lives(rows) : k \in Lives(rows') /\ rows'[k] = rows[k]
        /\ \A k \in Lives(rows') : k \in Lives(rows) \/ k \in DOMAIN rows' \ DOMAIN rows
    BY <2>2 DEF Lives
  <2>6. /\ \A q \in DOMAIN disk : q \in todo \/ \E id \in Lives(rows) : rows[id].loc = q
        /\ \A id \in Lives(rows) : rows[id].loc \notin todo
        /\ \A id, k \in Lives(rows) : rows[id].loc = rows[k].loc => id = k
    BY <2>3 DEF AssignMatched
  <2>7. \A q \in DOMAIN disk : q \in todo' \/ \E id \in Lives(rows') : rows'[id].loc = q
    <3>1. \A q \in chunk : \E id \in Lives(rows') : rows'[id].loc = q
      BY <2>2, <2>4
    <3> QED
      BY <2>2, <2>5, <2>6, <3>1
  <2>8. \A id \in Lives(rows') : rows'[id].loc \notin todo' /\ rows'[id].sip = FALSE
    <3>1. \A id \in Lives(rows') : rows'[id].loc \notin todo'
      BY <2>2, <2>4, <2>5, <2>6
    <3>2. \A id \in Lives(rows') : rows'[id].sip = FALSE
      BY <1>1, <2>4, <2>5, Zenon
    <3> QED
      BY <3>1, <3>2
  <2>9. \A id, k \in Lives(rows') : rows'[id].loc = rows'[k].loc => id = k
    <3>1. \A id \in Lives(rows) : \A k \in DOMAIN rows' \ DOMAIN rows : rows'[id].loc # rows'[k].loc
      BY <2>2, <2>4, <2>5, <2>6
    <3> QED
      BY <2>2, <2>5, <2>6, <3>1
  <2> QED
    BY <1>1, <2>2, <2>3, <2>7, <2>8, <2>9 DEF Matching, AssignMatched, Walks, Settled, Flags
<1> QED
  BY <1>2, <1>3, <1>4

\* A walk starts with each file where its row says.
LEMMA NamesStartMatching ==
  ASSUME Types, Naming, Matching, StartNames
  PROVE  Matching'
<1>1. /\ script \in Walks /\ stage = "begin" /\ stage' = "work" /\ UNCHANGED <<script, disk, rows>>
  BY DEF StartNames, Start, Walks
<1>2. Naming'
  BY NamesStart
<1>3. WalkRows(disk', index', todo', rows')
  BY <1>1, <1>2 DEF Naming, Walking
<1>4. Matched(disk', rows')
  BY <1>1 DEF Matching
<1>5. WalkMatched(disk', index', todo', rows')
  <2>1. ASSUME NEW id \in Lives(rows'), NEW q \in DOMAIN disk'
        PROVE  Stands(index', todo', rows'[id].loc, q) <=> rows'[id].loc = q
    BY <1>3, <1>4 DEF WalkRows, Matched
  <2> QED
    BY <1>4, <2>1 DEF WalkMatched, Matched
<1>6. Flags'
  BY <1>1 DEF Matching, Flags, Walks, Ended
<1> QED
  BY <1>1, <1>5, <1>6 DEF Matching, Walks, Settled

\* Applying an index leaves each row with its file.
LEMMA FlushMatched ==
  ASSUME NamesApart, rows \in Seq(SoundRows), NEW ix, IndexType(ix), NEW d, NEW T, WalkIndex(d, ix, T),
         \A e \in T : Entry(e) /\ WalkEntry(e), \A q \in DOMAIN d : q \in Path,
         WalkRows(d, ix, T, rows), WalkMatched(d, ix, T, rows)
  PROVE  WalkMatched(d, <<>>, T, FileUpdates(ix)) /\ Lives(FileUpdates(ix)) = Lives(rows)
<1> DEFINE U == FileUpdates(ix)
<1>1. DOMAIN U = DOMAIN rows /\ \A id \in DOMAIN rows : U[id].removed = rows[id].removed
  BY FileUpdatesFacts
<1>2. ASSUME NEW id \in Lives(rows), NEW q \in DOMAIN d
      PROVE  Stands(ix, T, rows[id].loc, q) <=> Stands(<<>>, T, U[id].loc, q)
  BY FlushStands
<1> HIDE DEF U
<1>3. Lives(U) = Lives(rows)
  BY <1>1 DEF Lives
<1>4. WalkMatched(d, <<>>, T, U)
  BY <1>2, <1>3 DEF WalkMatched
<1> QED
  BY <1>3, <1>4 DEF U

\* A renaming leaves each row with its file.
LEMMA NamesStepMatching ==
  ASSUME NamesApart, Types, Naming, Matching, ChangeName
  PROVE  Matching'
<1>1. /\ script \in Walks /\ stage = "work" /\ WalkState /\ WalkRows(disk, index, todo, rows)
      /\ WalkMatched(disk, index, todo, rows) /\ rows \in Seq(SoundRows) /\ IndexType(index)
      /\ \A id \in Lives(rows) : rows[id].sip = FALSE
  BY DEF ChangeName, Walks, Naming, Walking, Matching, Types, Tables, Flags, Ended
<1>2. PICK r \in -1..round : Open(disk, r) /\ Held(disk, rows, r)
  BY <1>1 DEF Naming, Walking
<1>3. r \in Int
  BY <1>2
<1>4. PICK e \in todo : \E new \in Path : Walked(e, new)
  BY ChangeNameWalks
<1>5. PICK new \in Path : Walked(e, new)
  BY <1>4
<1> DEFINE ix == Noted(e[1], new, ~Present(e[2]))
<1>6. /\ IndexType(ix) /\ UNCHANGED <<script, stage>>
      /\ \/ rows' = FileUpdates(ix) /\ index' = <<>>
         \/ index' = ix /\ rows' = rows
  BY <1>5 DEF Walked
<1>7. Turn(e, new)
  BY <1>1, <1>5, WalkedTurns
<1>8. ASSUME NEW id \in Lives(rows), NEW q \in DOMAIN disk
      PROVE  Stands(index, todo, rows[id].loc, q) <=> Stands(ix, todo', rows[id].loc, To(e[2], new, q))
  BY <1>1, <1>2, <1>3, <1>7, TurnStands
<1>9. WalkRows(disk', ix, todo', rows)
  BY <1>1, <1>2, <1>3, <1>7, TurnRows
<1>10. WalkTodo(disk', todo') /\ WalkIndex(disk', ix, todo')
  BY <1>7, TurnState
<1> HIDE DEF ix
<1>11. WalkMatched(disk', ix, todo', rows)
  <2>1. \A q \in DOMAIN disk : To(e[2], new, q) \in DOMAIN disk'
    BY <1>7 DEF Turn, MovedDisk
  <2>2. \A x \in DOMAIN disk' : \E q \in DOMAIN disk : x = To(e[2], new, q)
    BY <1>7 DEF Turn, MovedDisk
  <2>3. \A x \in DOMAIN disk' : \E id \in Lives(rows) : Stands(ix, todo', rows[id].loc, x)
    BY <1>1, <1>8, <2>2 DEF WalkMatched
  <2>4. \A id \in Lives(rows) : \E x \in DOMAIN disk' : Stands(ix, todo', rows[id].loc, x)
    BY <1>1, <1>8, <2>1 DEF WalkMatched
  <2>5. \A id, k \in Lives(rows) : \A x \in DOMAIN disk' :
          Stands(ix, todo', rows[id].loc, x) /\ Stands(ix, todo', rows[k].loc, x) => id = k
    BY <1>1, <1>8, <2>2 DEF WalkMatched
  <2> QED
    BY <2>3, <2>4, <2>5 DEF WalkMatched
<1>12. WalkMatched(disk', index', todo', rows') /\ \A id \in Lives(rows') : rows'[id].sip = FALSE
  <2>1. CASE index' = ix /\ rows' = rows
    BY <1>1, <1>11, <2>1
  <2>2. CASE rows' = FileUpdates(ix) /\ index' = <<>>
    <3>1. \A f \in todo' : Entry(f) /\ WalkEntry(f)
      <4>1. \A f \in todo' : Entry(f)
        BY <1>1, <1>6, TypesStep DEF Types, TodoType, Next, Step
      <4> QED
        BY <1>10, <4>1 DEF WalkTodo
    <3>2. \A q \in DOMAIN disk' : q \in Path
      BY <1>7 DEF Turn, DiskType, FilePath
    <3>3. WalkMatched(disk', <<>>, todo', FileUpdates(ix)) /\ Lives(FileUpdates(ix)) = Lives(rows)
      BY <1>1, <1>6, <1>9, <1>10, <1>11, <3>1, <3>2, FlushMatched
    <3>4. \A id \in DOMAIN rows : FileUpdates(ix)[id].sip = rows[id].sip
      BY <1>1, <1>6, FileUpdatesFacts
    <3> QED
      BY <1>1, <2>2, <3>3, <3>4 DEF Lives
  <2> QED
    BY <1>6, <2>1, <2>2
<1> QED
  BY <1>1, <1>6, <1>12 DEF Matching, Walks, Settled, Flags

\* At the end of a walk each file is again where its row says.
LEMMA NamesEndMatching ==
  ASSUME NamesApart, Types, Naming, Matching, ChangeNamesEnd
  PROVE  Matching'
<1>1. /\ script \in Walks /\ script \in Scripts /\ stage = "work" /\ todo = {}
      /\ WalkState /\ WalkRows(disk, index, todo, rows) /\ WalkMatched(disk, index, todo, rows)
      /\ rows' = FileUpdates(index) /\ Finish(0) /\ UNCHANGED disk
      /\ \A id \in Lives(rows) : rows[id].sip = FALSE
  BY DEF ChangeNamesEnd, Walks, Naming, Walking, Scripts, Matching, Flags, Ended
<1>2. /\ rows \in Seq(SoundRows) /\ IndexType(index) /\ \A q \in DOMAIN disk : q \in Path
  BY DEF Types, Tables, DiskOK, FilePath
<1>3. WalkIndex(disk, index, todo) /\ \A f \in todo : Entry(f) /\ WalkEntry(f)
  BY <1>1 DEF WalkState
<1>4. WalkMatched(disk, <<>>, todo, rows') /\ Lives(rows') = Lives(rows)
  BY <1>1, <1>2, <1>3, FlushMatched
<1>5. \A p, q : Stands(<<>>, todo, p, q) <=> p = q
  <2>1. DOMAIN (<<>>) = {}
    OBVIOUS
  <2> QED
    BY <1>1, <2>1 DEF Stands, Under
<1>6. Matched(disk', rows')
  <2>1. \A q \in DOMAIN disk : \E id \in Lives(rows') : rows'[id].loc = q
    BY <1>4, <1>5 DEF WalkMatched
  <2>2. \A id \in Lives(rows') : rows'[id].loc \in DOMAIN disk
    BY <1>4, <1>5 DEF WalkMatched
  <2>3. \A id, k \in Lives(rows') : rows'[id].loc = rows'[k].loc => id = k
    BY <1>4, <1>5, <2>2 DEF WalkMatched
  <2> QED
    BY <1>1, <2>1, <2>2, <2>3 DEF Matched
<1>7. script' \in {"has", "unneeded2"}
  BY <1>1, AfterFacts DEF Walks
<1>8. \A id \in Lives(rows') : rows'[id].sip = FALSE
  <2>1. \A id \in DOMAIN rows : rows'[id].sip = rows[id].sip
    BY <1>1, <1>2, FileUpdatesFacts
  <2> QED
    BY <1>1, <1>4, <2>1 DEF Lives
<1>9. Flags'
  BY <1>7, <1>8 DEF Flags
<1> QED
  BY <1>1, <1>6, <1>7, <1>9, EndMatching

\* The tasks are those of the rows, one each.
LEMMA TasksStartMatching ==
  ASSUME Types, Naming, Matching, StartPerFile, script # "unneeded"
  PROVE  Matching'
<1>1. /\ script \in {"unneeded2", "linking"} /\ stage = "begin" /\ stage' = "work"
      /\ UNCHANGED <<script, disk, rows>> /\ todo' = tasks'
      /\ tasks = {} /\ Matched(disk, rows) /\ Flags
  BY DEF StartPerFile, Start, Matching, Settled
<1> DEFINE sip == script = "linking"
<1>2. tasks' \in TaskSets(sip)
  BY <1>1 DEF StartPerFile
<1>3. \A id \in Lives(rows) : rows[id].sip = sip
  <2>1. CASE script = "linking"
    <3>1. \A id \in Lives(rows) : rows[id].sip = TRUE
      BY <1>1, <2>1 DEF Flags
    <3>2. sip = TRUE
      BY <2>1
    <3> HIDE DEF sip
    <3> QED
      BY <3>1, <3>2, Zenon
  <2>2. CASE script = "unneeded2"
    <3>1. \A id \in Lives(rows) : rows[id].sip = FALSE
      BY <1>1, <2>2 DEF Flags, Ended
    <3>2. sip = FALSE
      BY <2>2
    <3> HIDE DEF sip
    <3> QED
      BY <3>1, <3>2, Zenon
  <2> QED
    BY <1>1, <2>1, <2>2
<1> HIDE DEF sip
<1>4. Unlisted(sip) = {}
  <2>1. \A id \in Lives(rows) : id \in Listing(sip)
    BY <1>1, <1>3 DEF Listing, Lives, Live, Present, Matched
  <2> QED
    BY <1>1, <2>1 DEF Unlisted, Matched
<1>5. ASSUME NEW t \in tasks'
      PROVE  /\ t[1] \in Lives(rows) /\ t[2] = rows[t[1]].loc /\ t[3] = rows[t[1]].loc
             /\ t = <<t[1], t[2], t[3]>>
  <2>1. t = <<t[1], t[2], t[3]>>
    BY <1>2, TaskFacts
  <2>2. t[1] \in Listing(sip) /\ t[2] = rows[t[1]].loc /\ t[3] = rows[t[1]].loc
    BY <1>2, <1>4, TaskFacts
  <2> QED
    BY <2>1, <2>2 DEF Listing, Lives, Live
<1>6. TasksMatched'
  <2>1. \A t \in todo' : t[1] \in Lives(rows') /\ t[3] = rows'[t[1]].loc
    BY <1>1, <1>5
  <2>2. ASSUME NEW t \in tasks', NEW u \in tasks', t[1] = u[1] PROVE t = u
    <3>1. t[2] = u[2] /\ t[3] = u[3]
      BY <1>5, <2>2
    <3>2. t = <<t[1], t[2], t[3]>> /\ u = <<u[1], u[2], u[3]>>
      BY <1>5
    <3> QED
      BY <2>2, <3>1, <3>2
  <2> QED
    BY <1>1, <2>1, <2>2 DEF TasksMatched
<1>7. Flags'
  BY <1>1 DEF Flags
<1> QED
  BY <1>1, <1>6, <1>7 DEF Matching, Walks

\* A file goes with its row.
LEMMA TasksMatching ==
  ASSUME Types, Naming, Matching, RemoveUnneeded \/ RemoveUnlinked, script # "unneeded"
  PROVE  Matching'
<1>1. /\ script \in {"unneeded2", "linking"} /\ script \in Scripts /\ stage = "work" /\ Matched(disk, rows) /\ Flags
      /\ TasksMatched
  BY DEF RemoveUnneeded, RemoveUnlinked, Matching, Settled, Scripts
<1>2. CASE todo = {}
  <2>1. PICK c : Finish(c) /\ UNCHANGED <<disk, rows>>
    BY <1>2 DEF RemoveUnneeded, RemoveUnlinked
  <2>2. IF script = "linking" THEN script' \in Ended ELSE script' = "has2"
    BY <1>1, <2>1, AfterFacts
  <2>3. Flags'
    BY <1>1, <2>1, <2>2 DEF Flags, Ended
  <2> QED
    BY <1>1, <2>1, <2>2, <2>3, EndMatching DEF Ended
<1>3. CASE todo # {}
  <2>1. PICK t \in todo : TaskDone(t)
    BY <1>3, UnneededTask, UnlinkedTask
  <2>2. /\ UNCHANGED <<script, stage>> /\ todo' = todo \ {t}
        /\ t[1] \in Lives(rows) /\ t[3] = rows[t[1]].loc
    BY <1>1, <2>1 DEF TaskDone, TasksMatched
  <2>3. /\ \A id \in Lives(rows') : id \in Lives(rows) /\ rows'[id] = rows[id]
        /\ DOMAIN rows' = DOMAIN rows
    BY <1>1, <2>1, TaskRows DEF PerFile
  <2>4. t[1] # 0
    BY <2>2, TableFacts DEF Lives
  <2>5. \/ UNCHANGED <<disk, rows>>
        \/ disk' = Restrict(disk, DOMAIN disk \ {t[3]}) /\ rows' = Gone(rows, t[1])
    BY <2>1, <2>4 DEF TaskDone
  <2>6. Matched(disk', rows') /\ TasksMatched'
    <3>1. CASE UNCHANGED <<disk, rows>>
      BY <1>1, <2>2, <3>1 DEF Matched, TasksMatched
    <3>2. CASE disk' = Restrict(disk, DOMAIN disk \ {t[3]}) /\ rows' = Gone(rows, t[1])
      <4>1. DOMAIN disk' = DOMAIN disk \ {t[3]}
        BY <3>2 DEF Restrict
      <4>2. rows'[t[1]].removed /\ \A k \in DOMAIN rows : k # t[1] => rows'[k] = rows[k]
        BY <2>2, <3>2, RemovedFacts DEF Types, Tables, Lives
      <4>3. \A k \in Lives(rows) : k # t[1] => k \in Lives(rows') /\ rows'[k] = rows[k]
        BY <2>3, <4>2 DEF Lives
      <4>4. \A k \in Lives(rows') : k # t[1]
        BY <4>2 DEF Lives
      <4>5. Matched(disk', rows')
        BY <1>1, <2>2, <2>3, <4>1, <4>3, <4>4 DEF Matched
      <4>6. TasksMatched'
        BY <1>1, <2>2, <4>3 DEF TasksMatched
      <4> QED
        BY <4>5, <4>6
    <3> QED
      BY <2>5, <3>1, <3>2
  <2>7. Flags'
    <3>1. CASE script = "linking"
      <4>1. \A id \in Lives(rows) : rows[id].sip = TRUE
        BY <1>1, <3>1 DEF Flags
      <4>2. \A id \in Lives(rows') : rows'[id].sip = TRUE
        BY <2>3, <4>1, Zenon
      <4> QED
        BY <2>2, <3>1, <4>2 DEF Flags
    <3>2. CASE script = "unneeded2"
      <4>1. \A id \in Lives(rows) : rows[id].sip = FALSE
        BY <1>1, <3>2 DEF Flags, Ended
      <4>2. \A id \in Lives(rows') : rows'[id].sip = FALSE
        BY <2>3, <4>1, Zenon
      <4> QED
        BY <2>2, <3>2, <4>2 DEF Flags
    <3> QED
      BY <1>1, <3>1, <3>2
  <2> QED
    BY <1>1, <2>2, <2>6, <2>7 DEF Matching, Walks
<1> QED
  BY <1>2, <1>3

\* hasPackages changes nothing.
LEMMA HasMatching ==
  ASSUME Matching, HasPackages
  PROVE  Matching'
<1>1. PICK c : Finish(c)
  BY DEF HasPackages
<1>2. script \in {"has", "has2"} /\ script \in Scripts /\ UNCHANGED <<disk, rows>>
  BY DEF HasPackages, Scripts
<1>3. script' \in {"extract", "sip"} /\ stage' = "begin"
  BY <1>1, <1>2, AfterFacts
<1>4. Matched(disk, rows) /\ \A id \in Lives(rows) : rows[id].sip = FALSE
  BY <1>2 DEF Matching, Settled, Flags, Ended
<1>5. Flags'
  BY <1>2, <1>3, <1>4 DEF Flags
<1> QED
  BY <1>1, <1>2, <1>3, <1>4, <1>5, EndMatching

\* An extraction starts with nothing in its way.
LEMMA ExtractStartMatching ==
  ASSUME Types, Naming, Matching, StartExtract
  PROVE  Matching'
<1>1. /\ script = "extract" /\ stage = "begin" /\ stage' = "work" /\ round' = round + 1
      /\ todo' = {id \in DOMAIN rows : Live(id)} /\ UNCHANGED <<script, disk, rows>>
  BY DEF StartExtract, Start
<1>2. Matched(disk, rows) /\ Flags
  BY <1>1 DEF Matching, Settled
<1>3. round \in Nat /\ round' \in Nat /\ round' > round
  BY <1>1 DEF Types, Control
<1>4. ASSUME NEW id \in Lives(rows), NEW q \in DOMAIN disk
      PROVE  q # Append(TargetAt(rows[id].loc, round'), q[Len(q)])
  <2>1. FilePath(rows[id].loc) /\ FilePath(q) /\ Dated(q)
    BY LiveLoc DEF Types, Tables, DiskOK, Naming, DiskDated
  <2> QED
    BY <1>3, <2>1, NoneYet
<1>5. Vacant'
  BY <1>1, <1>4 DEF Vacant, MemberPath, ExtractionTarget, TargetAt, Lives, Live
<1>6. Flags'
  BY <1>1, <1>2 DEF Flags
<1> QED
  BY <1>1, <1>2, <1>5, <1>6 DEF Matching, Walks

\* Each member of a package has its row, and the package goes with its own.
LEMMA ExtractMatching ==
  ASSUME Types, Naming, Matching, Extract, faults = 0, faults' = 0
  PROVE  Matching'
<1>1. /\ script = "extract" /\ script \in Scripts /\ stage = "work" /\ UNCHANGED round
      /\ Matched(disk, rows) /\ Vacant /\ \A id \in Lives(rows) : rows[id].sip = FALSE
  BY DEF Extract, Matching, Settled, Scripts, Flags, Ended
<1>2. CASE todo = {}
  <2>1. PICK c : Finish(c) /\ UNCHANGED <<disk, rows>>
    BY <1>2 DEF Extract
  <2>2. script' \in {"names2", "failed"}
    BY <1>1, <2>1, AfterFacts
  <2>3. Flags'
    BY <1>1, <2>1, <2>2 DEF Flags
  <2> QED
    BY <1>1, <2>1, <2>2, <2>3, EndMatching
<1>3. CASE todo # {}
  <2>1. PICK id \in todo : ExtractDone(id)
    BY <1>3, ExtractStep
  <2>2. /\ todo' = todo \ {id} /\ id \in Lives(rows)
        /\ UNCHANGED <<script, stage>>
    BY <2>1 DEF ExtractDone, Lives, Live
  <2> DEFINE g == rows[id].loc
             c == Format(id)
             S == DOMAIN Members[c]
             new == {MemberPath(g, n) : n \in S}
  <2>3. g \in DOMAIN disk /\ FilePath(g) /\ round \in Nat /\ round > 0
    BY <1>1, <2>2 DEF Matched, Types, DiskOK, Control
  <2>4. CASE UNCHANGED <<disk, rows>>
    <3>1. Vacant'
      BY <1>1, <2>2, <2>4, ZenonT(60) DEF Vacant, MemberPath, ExtractionTarget
    <3>2. Flags'
      BY <1>1, <2>2, <2>4 DEF Flags
    <3> QED
      BY <1>1, <2>2, <2>4, <3>1, <3>2 DEF Matching, Walks, Matched
  <2>5. CASE c \in DOMAIN Members /\ ExtractFails(id)
    <3>1. Present(g) /\ id \in DOMAIN rows /\ Live(id)
      BY <2>2, <2>3 DEF Present, Lives, Live
    <3>2. faults' = faults + 1
      BY <1>1, <2>5, <3>1, ExtractFailsFacts
    <3> QED
      BY <3>2
  <2>6. CASE c \in DOMAIN Members /\ Unpacked(id)
    <3>1. /\ DOMAIN disk' = (DOMAIN disk \cup new) \ (IF delete THEN {g} ELSE {})
          /\ \A n \in S : MemberPath(g, n) \in DOMAIN disk'
          /\ DOMAIN rows \subseteq DOMAIN rows'
          /\ \A k \in DOMAIN rows : k # id => rows'[k] = rows[k]
          /\ IF delete THEN rows'[id].removed ELSE rows'[id] = rows[id]
          /\ RowsOfMembers(rows, rows', g, c, S)
      BY <2>6 DEF Unpacked
    <3>2. ASSUME NEW n \in S
          PROVE  /\ n \in Names /\ n.ext = 0 /\ MemberPath(g, n)[Len(MemberPath(g, n))] = n
                 /\ MemberPath(g, n) \notin DOMAIN disk
      <4>1. n \in Names /\ n.ext = 0
        BY <2>6, MembersFacts
      <4>2. MemberPath(g, n)[Len(MemberPath(g, n))] = n
        BY <2>3, <4>1, MemberNotOld
      <4> QED
        BY <1>1, <4>1, <4>2 DEF Vacant
    <3>3. ASSUME NEW k \in DOMAIN rows' \ DOMAIN rows
          PROVE  /\ k \in Lives(rows') /\ rows'[k].sip = FALSE
                 /\ \E n \in S : rows'[k].loc = MemberPath(g, n)
      <4>1. PICK n \in S : rows'[k] = NewRow(MemberPath(g, n), Members[c][n], "unpacking", g)
        BY <3>1 DEF RowsOfMembers
      <4> DEFINE a == NewRow(MemberPath(g, n), Members[c][n], "unpacking", g)
      <4>2. a.loc = MemberPath(g, n) /\ a.removed = FALSE /\ a.sip = FALSE
        BY DEF NewRow
      <4>3. rows'[k] = a
        BY <4>1
      <4> HIDE DEF a
      <4>4. ~rows'[k].removed /\ rows'[k].sip = FALSE /\ rows'[k].loc = MemberPath(g, n)
        BY <4>2, <4>3, Zenon
      <4> QED
        BY <4>4 DEF Lives
    <3>4. /\ \A n \in S : \E k \in DOMAIN rows' \ DOMAIN rows : rows'[k].loc = MemberPath(g, n)
          /\ \A k, l \in DOMAIN rows' \ DOMAIN rows : rows'[k].loc = rows'[l].loc => k = l
      BY <3>1 DEF RowsOfMembers
    <3>5. /\ \A k \in Lives(rows) : k # id => k \in Lives(rows') /\ rows'[k] = rows[k]
          /\ \A k \in Lives(rows') :
               k \in DOMAIN rows' \ DOMAIN rows \/ (k \in Lives(rows) /\ rows'[k] = rows[k])
          /\ delete => id \notin Lives(rows')
          /\ ~delete => id \in Lives(rows') /\ rows'[id] = rows[id]
      BY <2>2, <3>1 DEF Lives
    <3>6. /\ \A q \in DOMAIN disk : \E k \in Lives(rows) : rows[k].loc = q
          /\ \A k \in Lives(rows) : rows[k].loc \in DOMAIN disk
          /\ \A k, l \in Lives(rows) : rows[k].loc = rows[l].loc => k = l
      BY <1>1 DEF Matched
    <3>7. id \in Lives(rows) /\ rows[id].loc = g
      BY <2>2
    <3>8. /\ \A q \in DOMAIN disk' : q \in DOMAIN disk \/ \E n \in S : q = MemberPath(g, n)
          /\ \A q \in DOMAIN disk : q # g => q \in DOMAIN disk'
          /\ delete => g \notin DOMAIN disk'
          /\ ~delete => g \in DOMAIN disk'
      BY <2>3, <3>1
    <3> HIDE DEF g, c, S, new
    <3>9. ASSUME NEW q \in DOMAIN disk' PROVE \E k \in Lives(rows') : rows'[k].loc = q
      <4>1. CASE q \in DOMAIN disk
        <5>1. PICK k \in Lives(rows) : rows[k].loc = q
          BY <3>6, <4>1
        <5>2. CASE k # id
          BY <3>5, <5>1, <5>2
        <5>3. CASE k = id
          <6>1. ~delete
            BY <3>7, <3>8, <3>9, <5>1, <5>3
          <6> QED
            BY <3>5, <5>1, <5>3, <6>1
        <5> QED
          BY <5>2, <5>3
      <4>2. CASE q \notin DOMAIN disk
        <5>1. PICK n \in S : q = MemberPath(g, n)
          BY <3>8, <4>2
        <5>2. PICK k \in DOMAIN rows' \ DOMAIN rows : rows'[k].loc = MemberPath(g, n)
          BY <3>4
        <5> QED
          BY <3>3, <5>1, <5>2
      <4> QED
        BY <4>1, <4>2
    <3>10. ASSUME NEW k \in Lives(rows') PROVE rows'[k].loc \in DOMAIN disk'
      <4>1. CASE k \in DOMAIN rows' \ DOMAIN rows
        BY <3>1, <3>3, <4>1 DEF S, c, g
      <4>2. CASE k \in Lives(rows) /\ rows'[k] = rows[k]
        <5>1. CASE k = id
          BY <3>5, <3>7, <3>8, <3>10, <4>2, <5>1
        <5>2. CASE k # id
          BY <3>6, <3>7, <3>8, <4>2, <5>2
        <5> QED
          BY <5>1, <5>2
      <4> QED
        BY <3>5, <4>1, <4>2
    <3>11. ASSUME NEW k \in Lives(rows'), NEW l \in Lives(rows'), rows'[k].loc = rows'[l].loc
           PROVE  k = l
      <4>1. \A a \in DOMAIN rows' \ DOMAIN rows : rows'[a].loc \notin DOMAIN disk
        BY <3>2, <3>3
      <4> QED
        BY <3>4, <3>5, <3>6, <3>11, <4>1
    <3>12. Matched(disk', rows')
      BY <3>9, <3>10, <3>11 DEF Matched
    <3>13. \A k \in Lives(rows') : rows'[k].sip = FALSE
      BY <1>1, <3>3, <3>5, Zenon
    <3>14. Vacant'
      <4>1. \A k \in todo' : k \in todo /\ k # id /\ k \in Lives(rows) /\ rows'[k] = rows[k]
        <5>1. \A k \in todo : k \in Lives(rows)
          BY <1>1 DEF Types, TodoType, Lives, Live
        <5> QED
          BY <2>2, <3>5, <5>1
      <4>2. ASSUME NEW k \in todo', NEW q \in DOMAIN disk', q = MemberPath(rows[k].loc, q[Len(q)])
            PROVE  FALSE
        <5>1. PICK n \in S : q = MemberPath(g, n)
          BY <1>1, <3>8, <4>1, <4>2 DEF Vacant
        <5>2. q[Len(q)] = n /\ n \in Names /\ n.ext = 0
          BY <3>2, <5>1
        <5>3. MemberPath(rows[k].loc, n) = MemberPath(g, n)
          BY <4>2, <5>1, <5>2
        <5>4. FilePath(rows[k].loc)
          BY <4>1, LiveLoc DEF Types, Tables
        <5>5. rows[k].loc = g
          BY <2>3, <5>2, <5>3, <5>4, MemberInjective DEF g
        <5> QED
          BY <3>6, <3>7, <4>1, <5>5
      <4> QED
        BY <1>1, <4>1, <4>2 DEF Vacant, MemberPath, ExtractionTarget
    <3>15. Flags'
      BY <1>1, <2>2, <3>13 DEF Flags
    <3> QED
      BY <1>1, <2>2, <3>12, <3>14, <3>15 DEF Matching, Walks
  <2> QED
    BY <2>1, <2>4, <2>5, <2>6 DEF ExtractDone
<1> QED
  BY <1>2, <1>3

\* All rows become the SIP's.
LEMMA SIPMatching ==
  ASSUME Types, Matching, StartSIP \/ CreateSIP
  PROVE  Matching'
<1>1. script = "sip" /\ script \in Scripts /\ UNCHANGED disk /\ Matched(disk, rows) /\ Flags
  BY DEF StartSIP, Start, CreateSIP, Matching, Settled, Scripts
<1>2. CASE StartSIP
  <2>1. stage' = "work" /\ UNCHANGED <<script, rows>> /\ todo' = {"rows"}
    BY <1>2 DEF StartSIP, Start
  <2>2. Flags'
    BY <1>1, <2>1 DEF Flags
  <2> QED
    BY <1>1, <2>1, <2>2 DEF Matching, Walks
<1>3. CASE CreateSIP /\ todo = {}
  <2>1. Finish(0) /\ UNCHANGED rows /\ stage = "work"
    BY <1>3 DEF CreateSIP
  <2>2. script' = "linking"
    BY <1>1, <2>1, AfterFacts
  <2>3. Flags'
    BY <1>1, <1>3, <2>1, <2>2 DEF Flags
  <2> QED
    BY <1>1, <2>1, <2>2, <2>3, EndMatching
<1>4. CASE CreateSIP /\ todo # {}
  <2>1. /\ rows' = [id \in DOMAIN rows |-> IF Live(id) /\ Present(rows[id].loc)
                                           THEN [rows[id] EXCEPT !.sip = TRUE] ELSE rows[id]]
        /\ todo' = {} /\ UNCHANGED <<script, stage>> /\ stage = "work"
    BY <1>4 DEF CreateSIP
  <2>2. /\ DOMAIN rows' = DOMAIN rows
        /\ \A id \in DOMAIN rows :
             /\ rows'[id].removed = rows[id].removed /\ rows'[id].loc = rows[id].loc
             /\ Live(id) /\ Present(rows[id].loc) => rows'[id].sip = TRUE
    BY <2>1, SipFacts DEF Types, Tables
  <2>3. UNCHANGED <<script, stage>> /\ stage = "work" /\ todo' = {}
    BY <2>1
  <2>4. Lives(rows') = Lives(rows)
    BY <2>2 DEF Lives
  <2>5. Matched(disk', rows')
    <3>1. \A id \in Lives(rows) : rows'[id].loc = rows[id].loc
      BY <2>2 DEF Lives
    <3> QED
      BY <1>1, <2>4, <3>1 DEF Matched
  <2>6. \A id \in Lives(rows') : rows'[id].sip = TRUE
    <3>1. \A id \in Lives(rows) : id \in DOMAIN rows /\ Live(id) /\ Present(rows[id].loc)
      BY <1>1 DEF Lives, Live, Matched, Present
    <3> QED
      BY <2>2, <2>4, <3>1
  <2>7. Flags'
    BY <1>1, <2>3, <2>6 DEF Flags
  <2> QED
    BY <1>1, <2>3, <2>5, <2>7 DEF Matching, Walks
<1> QED
  BY <1>2, <1>3, <1>4

\* Every step that nothing goes wrong in.
LEMMA MatchingStep ==
  ASSUME NamesApart, Types, Naming, Matching, [Next]_vars, stage # "handed", faults = 0, faults' = 0
  PROVE  Matching'
<1>1. CASE UNCHANGED vars
  <2>1. UNCHANGED <<script, stage, tasks, todo, index, disk, rows, round>>
    BY <1>1 DEF vars
  <2>2. Flags => Flags'
    BY <2>1, Zenon DEF Flags
  <2>3. (AssignMatched => AssignMatched') /\ (TasksMatched => TasksMatched')
    BY <2>1 DEF AssignMatched, TasksMatched
  <2>4. Vacant => Vacant'
    BY <2>1 DEF Vacant, MemberPath, ExtractionTarget
  <2> QED
    BY <2>1, <2>2, <2>3, <2>4 DEF Matching
<1>2. CASE StartHidden \/ RemoveHidden \/ (script = "unneeded" /\ (StartPerFile \/ RemoveUnneeded))
  BY <1>2, EarlyMatching
<1>3. CASE StartPerFile /\ script # "unneeded"
  BY <1>3, TasksStartMatching
<1>4. CASE (RemoveUnneeded \/ RemoveUnlinked) /\ script # "unneeded"
  BY <1>4, TasksMatching
<1>5. CASE StartAssign \/ AssignChunk
  BY <1>5, AssignMatching
<1>6. CASE StartNames
  BY <1>6, NamesStartMatching
<1>7. CASE ChangeName
  BY <1>7, NamesStepMatching
<1>8. CASE ChangeNamesEnd
  BY <1>8, NamesEndMatching
<1>9. CASE HasPackages
  BY <1>9, HasMatching
<1>10. CASE StartExtract
  BY <1>10, ExtractStartMatching
<1>11. CASE Extract
  BY <1>11, ExtractMatching
<1>12. CASE StartSIP \/ CreateSIP
  BY <1>12, SIPMatching
<1>13. CASE Raise \/ Crash \/ ExtractCutOff
  <2>1. faults' = faults + 1
    BY <1>13 DEF Raise, Crash, ExtractCutOff, Goes
  <2> QED
    BY <2>1
<1>14. CASE RemoveUnlinked /\ script = "unneeded"
  BY <1>14 DEF RemoveUnlinked
<1>15. CASE CreateSIPAgain
  BY <1>15 DEF CreateSIPAgain
<1> QED
  BY <1>1, <1>2, <1>3, <1>4, <1>5, <1>6, <1>7, <1>8, <1>9, <1>10, <1>11, <1>12, <1>13, <1>14, <1>15
     DEF Next, Step, Stop

\* Faults are not taken back, and without one the SIP's directory is not handed
\* over twice.
LEMMA FaultsStay ==
  ASSUME Types, [Next]_vars, faults' = 0
  PROVE  faults = 0 /\ ~Raise /\ (stage # "handed" => stage' # "handed")
<1>1. faults \in Nat
  BY PackageFilesAssumption DEF Types, Control
<1>2. \/ faults' = faults /\ stage' \in {stage, "begin", "work"}
      \/ faults' = faults + 1
  <2>1. CASE Extract /\ todo # {}
    <3>1. PICK id \in todo : ExtractDone(id)
      BY <2>1, ExtractStep
    <3>2. /\ id \in DOMAIN rows /\ Live(id) /\ UNCHANGED stage /\ script = "extract" /\ stage = "work"
      BY <2>1, <3>1 DEF Extract, ExtractDone
    <3>3. CASE UNCHANGED faults
      BY <3>2, <3>3
    <3>4. CASE Format(id) \in DOMAIN Members /\ ExtractFails(id)
      BY <3>2, <3>4, ExtractFailsFacts
    <3>5. CASE Unpacked(id)
      BY <3>2, <3>5 DEF Unpacked
    <3> QED
      BY <3>1, <3>3, <3>4, <3>5 DEF ExtractDone
  <2>2. CASE Extract /\ todo = {}
    BY <2>2 DEF Extract, Finish
  <2>3. CASE StartHidden \/ StartPerFile \/ StartAssign \/ StartNames \/ StartExtract \/ StartSIP
    BY <2>3 DEF StartHidden, StartPerFile, StartAssign, StartNames, StartExtract, StartSIP, Start
  <2>4. CASE RemoveUnneeded \/ RemoveUnlinked
    <3>1. faults' = faults
      BY <2>4 DEF RemoveUnneeded, RemoveUnlinked
    <3>2. CASE todo = {}
      BY <2>4, <3>1, <3>2 DEF RemoveUnneeded, RemoveUnlinked, Finish
    <3>3. CASE todo # {}
      BY <2>4, <3>1, <3>3, UnneededTask, UnlinkedTask DEF TaskDone
    <3> QED
      BY <3>2, <3>3
  <2>5. CASE RemoveHidden \/ AssignChunk
    BY <2>5 DEF RemoveHidden, AssignChunk, Finish
  <2>6. CASE ChangeName \/ ChangeNamesEnd \/ HasPackages \/ CreateSIP \/ CreateSIPAgain
    BY <2>6 DEF ChangeName, ChangeNamesEnd, HasPackages, CreateSIP, CreateSIPAgain, Finish
  <2>7. CASE Raise \/ Crash \/ ExtractCutOff
    BY <2>7 DEF Raise, Crash, ExtractCutOff, Goes
  <2>8. CASE UNCHANGED vars
    BY <2>8 DEF vars
  <2> QED
    BY <2>1, <2>2, <2>3, <2>4, <2>5, <2>6, <2>7, <2>8 DEF Next, Step, Stop
<1>3. Raise => faults' = faults + 1
  BY DEF Raise, Goes
<1> QED
  BY <1>1, <1>2, <1>3

\* The invariant of a run in which nothing went wrong, which is inductive.
Orderly == faults = 0 => Naming /\ Matching /\ stage # "handed"

\* It holds whatever is received.
LEMMA AlwaysOrderly ==
  ASSUME NamesApart
  PROVE  Spec => []Orderly
<1>1. Init => Orderly
  <2>1. ASSUME Init PROVE Matching /\ stage # "handed"
    <3>1. /\ script = "hidden" /\ stage = "begin" /\ tasks = {} /\ rows = <<>>
      BY <2>1 DEF Init
    <3>2. Lives(rows) = {}
      BY <3>1, EmptyTable
    <3> QED
      BY <3>1, <3>2 DEF Matching, Walks, Settled, Flags
  <2> QED
    BY <2>1, InitNaming DEF Orderly
<1>2. Types /\ Orderly /\ [Next]_vars => Orderly'
  <2>1. SUFFICES ASSUME Types, Orderly, [Next]_vars, faults' = 0
                 PROVE  Naming' /\ Matching' /\ stage' # "handed"
    BY DEF Orderly
  <2>2. faults = 0 /\ ~Raise /\ (stage # "handed" => stage' # "handed")
    BY <2>1, FaultsStay
  <2>3. Naming /\ Matching /\ stage # "handed"
    BY <2>1, <2>2 DEF Orderly
  <2> QED
    BY <2>1, <2>2, <2>3, NamingStep, MatchingStep
<1> QED
  BY <1>1, <1>2, AlwaysTypes, PTL DEF Spec

\* When nothing went wrong, each file has one live row with its location by
\* the time the SIP is created and afterwards, and the SIP has all the rows:
\* for every tree and nesting of packages without two names that are equal in
\* NFC, and every size of chunks and batches.
THEOREM RowsMatch ==
  ASSUME NamesApart
  PROVE  Spec => []RowsMatchDisk
<1>1. Orderly => RowsMatchDisk
  <2>1. SUFFICES ASSUME Matching, script \in {"sip", "linking", "done"}
                 PROVE  /\ \A p \in DOMAIN disk :
                             Cardinality({id \in DOMAIN rows : Live(id) /\ rows[id].loc = p}) = 1
                        /\ \A id \in DOMAIN rows : Live(id) =>
                             Present(rows[id].loc) /\ (script \in {"linking", "done"} => rows[id].sip)
    BY DEF Orderly, RowsMatchDisk
  <2>2. Matched(disk, rows) /\ Flags
    BY <2>1 DEF Matching, Settled
  <2>3. ASSUME NEW p \in DOMAIN disk
        PROVE  Cardinality({id \in DOMAIN rows : Live(id) /\ rows[id].loc = p}) = 1
    <3> DEFINE S == {id \in DOMAIN rows : Live(id) /\ rows[id].loc = p}
    <3>1. PICK k \in Lives(rows) : rows[k].loc = p
      BY <2>2 DEF Matched
    <3>2. S = {k}
      BY <2>2, <3>1 DEF Matched, Lives, Live
    <3> QED
      BY <3>2, FS_Singleton
  <2>4. ASSUME NEW id \in DOMAIN rows, Live(id)
        PROVE  Present(rows[id].loc) /\ (script \in {"linking", "done"} => rows[id].sip)
    <3>1. id \in Lives(rows)
      BY <2>4 DEF Lives, Live
    <3>2. Present(rows[id].loc)
      BY <2>2, <3>1 DEF Matched, Present
    <3>3. ASSUME script \in {"linking", "done"} PROVE rows[id].sip
      <4>1. rows[id].sip = TRUE
        BY <2>2, <3>1, <3>3 DEF Flags
      <4> QED
        BY <4>1
    <3> QED
      BY <3>2, <3>3
  <2> QED
    BY <2>3, <2>4
<1> QED
  BY <1>1, AlwaysOrderly, PTL

\* When nothing went wrong, the removal of files without linking information
\* deletes nothing (remove_files_without_linking_information, Package.Files):
\* none of its tasks lacks the UUID of a row.  What DeletesOnlyUnregistered
\* forbids takes a fault, or two names that are equal in NFC.
THEOREM NothingUnlinked ==
  ASSUME NamesApart
  PROVE  Spec => [][script = "linking" /\ faults' = 0 => UNCHANGED disk]_vars
<1>1. ASSUME Types, Orderly, [Next]_vars, script = "linking", faults' = 0
      PROVE  UNCHANGED disk
  <2>1. faults = 0 /\ ~Raise
    BY <1>1, FaultsStay
  <2>2. stage = "work" => TasksMatched
    BY <1>1, <2>1 DEF Orderly, Matching
  <2>3. CASE RemoveUnlinked
    <3>1. \A t \in todo : t[1] # 0
      BY <1>1, <2>2, <2>3, TableFacts DEF RemoveUnlinked, TasksMatched, Lives
    <3> QED
      BY <2>3, <3>1 DEF RemoveUnlinked
  <2>4. CASE StartPerFile
    BY <2>4 DEF StartPerFile, Start
  <2>5. CASE Crash \/ UNCHANGED vars
    BY <2>5 DEF Crash, vars
  <2> QED
    BY <1>1, <2>1, <2>3, <2>4, <2>5
       DEF Next, Step, Stop, StartHidden, RemoveHidden, RemoveUnneeded, StartAssign, AssignChunk, StartNames,
           ChangeName, ChangeNamesEnd, HasPackages, StartExtract, Extract, StartSIP, CreateSIP,
           CreateSIPAgain, ExtractCutOff
<1>2. Types /\ Orderly /\ [Next]_vars => [script = "linking" /\ faults' = 0 => UNCHANGED disk]_vars
  BY <1>1
<1> QED
  BY <1>2, AlwaysTypes, AlwaysOrderly, PTL DEF Spec

=============================================================================
