------------------------ MODULE NormalizationProofs ------------------------
(***************************************************************************)
(* Proofs about Normalization, for any files, any number of rounds and of  *)
(* unusual results, deaths of workers included.                            *)
(*                                                                         *)
(* Most of the invariant is about one state of the database, Sound: what   *)
(* its rows are named, where its derivations lead, which events they       *)
(* belong to.  The committed state and the one within the transaction are  *)
(* both sound, so that a rollback needs no argument of its own; only while *)
(* files are being removed may a derivation of the transaction lead to a   *)
(* removed file.                                                           *)
(***************************************************************************)
EXTENDS Normalization, FiniteSetTheorems, TLAPS

Purposes == {"thumbnail", "access", "preservation"}
AllPlans == Plans \cup {<<"access", "preservation">>, <<"access">>, <<"preservation">>}
Stages == Batches \cup {"choose", "report", "approved", "failed"}

Derived == Originals \X (Purposes \cup {"manual"}) \X Nat
Rows == [use : Purposes \cup {"manualNormalization", "deleted"}, removed : BOOLEAN]

Shaped(d) ==
  /\ d = [rows |-> d.rows, links |-> d.links, events |-> d.events]
  /\ DOMAIN d.rows \subseteq Derived
  /\ d.rows \in [DOMAIN d.rows -> Rows]
  /\ d.links \subseteq [of : Originals, to : DOMAIN d.rows, event : Nat]
  /\ d.events \in [Originals -> Nat]

\* A row is of the use its name says, or deleted; the rows of the files
\* normalized by hand stay as they were.
Named(d) ==
  /\ ManualFiles \subseteq DOMAIN d.rows
  /\ \A r \in DOMAIN d.rows :
       IF r \in ManualFiles THEN d.rows[r] = Row("manualNormalization")
       ELSE r[2] \in Purposes /\ d.rows[r].use \in {r[2], "deleted"}

\* A derivation is of the file that its target was made of.
Owned(d) == \A l \in d.links : l.to[1] = l.of

\* LinksLead of one state of the database.
Leading(d) ==
  \A l \in d.links : l.event > 0 =>
    ~d.rows[l.to].removed /\ d.rows[l.to].use # "deleted" /\ d.events[l.of] > 0

\* An original normalized by hand has an event exactly if it is related.
Accounted(d) ==
  /\ \A l \in d.links : d.rows[l.to].use = "manualNormalization" => l.event > 0
  /\ \A f \in Manual : d.events[f] > 0 =>
       \E l \in d.links : l.of = f /\ d.rows[l.to].use = "manualNormalization"

\* At most one derivation by a command or from an earlier AIP, and those
\* of a file normalized by hand are from an earlier AIP.
OneByCommand(d) ==
  /\ \A l, m \in d.links :
       l.of = m.of /\ d.rows[l.to].use = "preservation" /\ d.rows[m.to].use = "preservation" => l = m
  /\ \A l \in d.links :
       d.rows[l.to].use = "preservation" /\ l.of \in Manual => l.of \in Reingested

Firm(d) == Shaped(d) /\ Named(d) /\ Owned(d) /\ Accounted(d) /\ OneByCommand(d)
Sound(d) == Firm(d) /\ Leading(d)

\* A live preservation file is on the disk S.
LiveIn(d, S) ==
  \A r \in DOMAIN d.rows : d.rows[r].use = "preservation" /\ ~d.rows[r].removed => r \in S

Types ==
  /\ stage \in Stages /\ plan \in AllPlans /\ mode \in Modes
  /\ round \in 0..MaxRounds /\ odd \in 0..MaxOdd
  /\ stage # "remove" => todo \subseteq Originals
  /\ moved \in [disk : SUBSET Manual, tx : SUBSET Manual, db : SUBSET Manual]
  /\ broken \in BOOLEAN /\ done \in BOOLEAN

\* Files are being removed; their derivations have not been.
Removing == stage = "remove" /\ ~done
Half == Removing /\ DOMAIN codes = {}

Control ==
  /\ stage = "normalize" => plan # <<>>
  /\ stage # "remove" => todo \cap DOMAIN codes = {}
  /\ stage \notin Batches => todo = {} /\ tx = db
  /\ stage = "relate" => todo \subseteq Manual
  /\ done => stage \in Batches /\ todo = {} /\ tx = db
  /\ done \/ stage # "relate" => moved.tx = moved.db
  /\ broken => stage = "normalize"
  /\ stage = "remove" /\ ~Half => todo = {}
  /\ DOMAIN db.rows \subseteq DOMAIN tx.rows
  /\ moving \subseteq todo \cap moved.disk /\ (moving # {} => stage = "relate")

\* The rows that are still live in the transaction are those to remove.
Data ==
  /\ Sound(db) /\ Firm(tx) /\ (Half \/ Leading(tx))
  /\ Removing => Live(tx) = todo
  /\ Removing \/ "remove" \in raised \/ (LiveIn(db, disk) /\ LiveIn(tx, disk))

\* What exit code 0 means before the commit.
Succeeded ==
  stage = "normalize" /\ ~broken =>
    \A f \in DOMAIN codes \ quiet : codes[f] = 0 =>
      \E l \in tx.links : l.of = f /\ tx.rows[l.to].use \in {Head(plan), "manualNormalization"}

\* Which files normalized by hand are moved and related once the user has
\* approved.
Joined ==
  /\ stage = "relate" =>
       /\ \A f \in DOMAIN codes : codes[f] = 0 => tx.events[f] > 0 /\ f \in moved.tx \cap moved.disk
       /\ "relate" \in raised \/ DOMAIN codes = Manual \ todo
  /\ stage = "approved" /\ "relate" \notin raised =>
       \A f \in Manual : db.events[f] > 0 /\ f \in moved.db \cap moved.disk

NormInv == Types /\ Control /\ Data /\ Succeeded /\ Joined

\* At most one derivation by hand.
OneByHand(d) ==
  \A l, m \in d.links :
    /\ l.of = m.of
    /\ d.rows[l.to].use = "manualNormalization" /\ d.rows[m.to].use = "manualNormalization"
    => l = m

Wants(p) == p \in {<<"thumbnail", "access", "preservation">>, <<"thumbnail", "preservation">>,
                   <<"access", "preservation">>, <<"preservation">>}

\* No file normalized by hand has an event before its own task ran.
NotYet ==
  /\ stage = "choose" => \A f \in Manual : db.events[f] = 0
  /\ stage = "normalize" /\ Wants(plan) => \A f \in Manual :
       /\ f \in todo \/ Head(plan) # "preservation" => tx.events[f] = 0
       /\ ~done \/ Head(plan) # "preservation" => db.events[f] = 0
  /\ stage = "remove" /\ ~Half => \A f \in Manual : tx.events[f] = 0

\* What OneDerivative excuses.
Excused == <<"normalize", "late">> \in died \/ "remove" \in raised

OnceInv == ~Excused => OneByHand(db) /\ OneByHand(tx) /\ NotYet

-----------------------------------------------------------------------------
(* The purposes of a plan.                                                 *)

\* The rest of a plan is a plan, and preservation comes last.
LEMMA PlanRest ==
  ASSUME NEW p \in AllPlans, p # <<>>
  PROVE  /\ Tail(p) \in AllPlans /\ Head(p) \in Purposes
         /\ Head(p) = "preservation" => Wants(p) /\ Tail(p) = <<>>
         /\ Wants(Tail(p)) => Wants(p) /\ Head(p) # "preservation"
PROOF
  <1>1. CASE p = <<"thumbnail", "access", "preservation">>
    BY <1>1 DEF AllPlans, Plans, Purposes, Wants
  <1>2. CASE p = <<"thumbnail", "access">>
    BY <1>2 DEF AllPlans, Plans, Purposes, Wants
  <1>3. CASE p = <<"thumbnail", "preservation">>
    BY <1>3 DEF AllPlans, Plans, Purposes, Wants
  <1>4. CASE p = <<"access", "preservation">>
    BY <1>4 DEF AllPlans, Plans, Purposes, Wants
  <1>5. CASE p = <<"access">>
    BY <1>5 DEF AllPlans, Plans, Purposes, Wants
  <1>6. CASE p = <<"preservation">>
    BY <1>6 DEF AllPlans, Plans, Purposes, Wants
  <1> QED BY <1>1, <1>2, <1>3, <1>4, <1>5, <1>6 DEF AllPlans, Plans

-----------------------------------------------------------------------------
(* CleanUp.                                                                *)

\* c is d after CleanUp: a row that a removed derivation led to is deleted, the
\* others are kept.
Cleaned(c, d, old) ==
  /\ c = [rows |-> c.rows, links |-> c.links, events |-> c.events]
  /\ c.links = d.links \ old
  /\ c.events = d.events
  /\ DOMAIN c.rows = DOMAIN d.rows
  /\ c.rows \in [DOMAIN d.rows -> Rows]
  /\ \A r \in DOMAIN d.rows :
       /\ c.rows[r].removed = d.rows[r].removed
       /\ (\E l \in old : l.to = r) => c.rows[r].use = "deleted"
       /\ (~ \E l \in old : l.to = r) => c.rows[r] = d.rows[r]

\* CleanUp does what Cleaned says.
LEMMA CleanUpParts ==
  ASSUME NEW d, Shaped(d), NEW f, NEW p
  PROVE  Cleaned(CleanUp(d, f, p), d, Links(d, f, p))
PROOF
  <1> DEFINE Old(r) == \E l \in Links(d, f, p) : l.to = r
             New(r) == IF Old(r) THEN [d.rows[r] EXCEPT !.use = "deleted"] ELSE d.rows[r]
             R == [r \in DOMAIN d.rows |-> New(r)]
             L == d.links \ Links(d, f, p)
             c == CleanUp(d, f, p)
  <1>1. c = [d EXCEPT !.rows = R, !.links = L]
    BY DEF CleanUp
  <1>2. d = [rows |-> d.rows, links |-> d.links, events |-> d.events]
    BY DEF Shaped
  <1>3. \A r \in DOMAIN d.rows : d.rows[r] \in Rows
    BY DEF Shaped
  <1> HIDE DEF R, L, c, Old
  <1>4. c = [rows |-> R, links |-> L, events |-> d.events]
    BY <1>1, <1>2
  <1>5. c.rows = R /\ c.links = L /\ c.events = d.events
    BY <1>4
  <1>6. c = [rows |-> c.rows, links |-> c.links, events |-> c.events]
    BY <1>4, <1>5
  <1>7. \A r \in DOMAIN d.rows :
          /\ New(r) \in Rows /\ New(r).removed = d.rows[r].removed
          /\ Old(r) => New(r).use = "deleted"
          /\ ~Old(r) => New(r) = d.rows[r]
    BY <1>3 DEF Rows
  <1> HIDE DEF New
  <1>8. DOMAIN R = DOMAIN d.rows /\ R \in [DOMAIN d.rows -> Rows]
        /\ \A r \in DOMAIN d.rows : R[r] = New(r)
    BY <1>7 DEF R
  <1>9. \A r \in DOMAIN d.rows :
          /\ c.rows[r].removed = d.rows[r].removed
          /\ Old(r) => c.rows[r].use = "deleted"
          /\ ~Old(r) => c.rows[r] = d.rows[r]
    BY <1>5, <1>7, <1>8
  <1>10. DOMAIN c.rows = DOMAIN d.rows /\ c.rows \in [DOMAIN d.rows -> Rows]
    BY <1>5, <1>8
  <1> QED BY <1>5, <1>6, <1>9, <1>10, Zenon DEF Cleaned, c, L, Old

\* The derivations that stay lead to the rows they led to: those that go have
\* another original, or another use.
LEMMA CleanUpKeeps ==
  ASSUME NEW d, Shaped(d), Owned(d), NEW f, NEW p,
         NEW l \in d.links, l \notin Links(d, f, p)
  PROVE  CleanUp(d, f, p).rows[l.to] = d.rows[l.to]
PROOF
  <1>1. l.to \in DOMAIN d.rows
    BY DEF Shaped
  <1>2. ~ \E m \in Links(d, f, p) : m.to = l.to
    BY DEF Links, Owned
  <1>3. Cleaned(CleanUp(d, f, p), d, Links(d, f, p))
    BY CleanUpParts
  <1> QED BY <1>1, <1>2, <1>3 DEF Cleaned

\* What the tasks need of c, d without its derivations of f for p.
Cleared(c, d, f, p) ==
  /\ Links(c, f, p) = {}
  /\ c.links \subseteq d.links
  /\ c.events = d.events
  /\ DOMAIN c.rows = DOMAIN d.rows
  /\ \A l \in c.links : c.rows[l.to] = d.rows[l.to]
  /\ \A l \in d.links : l.of # f \/ d.rows[l.to].use # p => l \in c.links
  /\ \A S : LiveIn(d, S) => LiveIn(c, S)

\* CleanUp keeps the database sound and what is live on disk.
LEMMA CleanUpSound ==
  ASSUME NEW d, Sound(d), NEW f \in Originals, NEW p \in Purposes
  PROVE  Sound(CleanUp(d, f, p)) /\ Cleared(CleanUp(d, f, p), d, f, p)
PROOF
  <1> DEFINE c == CleanUp(d, f, p)
             old == Links(d, f, p)
  <1>0. Shaped(d) /\ Named(d) /\ Owned(d) /\ Leading(d) /\ Accounted(d) /\ OneByCommand(d)
    BY DEF Sound, Firm
  <1>c. Cleaned(c, d, old)
    BY <1>0, CleanUpParts
  <1>1. /\ c = [rows |-> c.rows, links |-> c.links, events |-> c.events]
        /\ c.links = d.links \ old
        /\ c.events = d.events
    BY <1>c DEF Cleaned
  <1>2. /\ DOMAIN c.rows = DOMAIN d.rows
        /\ c.rows \in [DOMAIN d.rows -> Rows]
        /\ \A r \in DOMAIN d.rows :
             /\ c.rows[r].removed = d.rows[r].removed
             /\ (\E l \in old : l.to = r) => c.rows[r].use = "deleted"
             /\ (~ \E l \in old : l.to = r) => c.rows[r] = d.rows[r]
    BY <1>c DEF Cleaned
  <1>3. \A l \in c.links : l \in d.links /\ c.rows[l.to] = d.rows[l.to]
    BY <1>0, <1>1, CleanUpKeeps
  <1> HIDE DEF c
  <1>4. old = {l \in d.links : l.of = f /\ d.rows[l.to].use = p}
    BY DEF Links
  <1> HIDE DEF old
  <1>6. Shaped(c)
    <2>1. c.rows \in [DOMAIN c.rows -> Rows]
      BY <1>2
    <2>2. c.links \subseteq [of : Originals, to : DOMAIN c.rows, event : Nat]
      BY <1>0, <1>1, <1>2 DEF Shaped
    <2>3. c.events \in [Originals -> Nat] /\ DOMAIN c.rows \subseteq Derived
      BY <1>0, <1>1, <1>2 DEF Shaped
    <2> QED BY <1>1, <2>1, <2>2, <2>3 DEF Shaped
  <1>7. Named(c)
    <2>1. ManualFiles \subseteq DOMAIN c.rows
      BY <1>0, <1>2 DEF Named
    <2>2. ASSUME NEW r \in DOMAIN d.rows, r \in ManualFiles
          PROVE  c.rows[r] = Row("manualNormalization")
      <3>1. d.rows[r] = Row("manualNormalization")
        BY <1>0, <2>2 DEF Named
      <3>2. d.rows[r].use = "manualNormalization"
        BY <3>1 DEF Row
      <3>3. ~ \E l \in old : l.to = r
        BY <1>4, <3>2 DEF Purposes
      <3> QED BY <1>2, <3>1, <3>3
    <2>3. ASSUME NEW r \in DOMAIN d.rows, r \notin ManualFiles
          PROVE  r[2] \in Purposes /\ c.rows[r].use \in {r[2], "deleted"}
      BY <1>0, <1>2, <2>3 DEF Named
    <2> QED BY <1>2, <2>1, <2>2, <2>3 DEF Named
  <1>8. Owned(c)
    BY <1>0, <1>3 DEF Owned
  <1>9. Leading(c)
    BY <1>0, <1>1, <1>3 DEF Leading
  <1>10. Accounted(c)
    <2>1. \A l \in c.links : c.rows[l.to].use = "manualNormalization" => l.event > 0
      BY <1>0, <1>3 DEF Accounted
    <2>2. ASSUME NEW g \in Manual, c.events[g] > 0
          PROVE  \E l \in c.links : l.of = g /\ c.rows[l.to].use = "manualNormalization"
      <3>1. PICK l \in d.links : l.of = g /\ d.rows[l.to].use = "manualNormalization"
        BY <1>0, <1>1, <2>2 DEF Accounted
      <3>2. l \in c.links
        BY <1>1, <1>4, <3>1 DEF Purposes
      <3> QED BY <1>3, <3>1, <3>2
    <2> QED BY <2>1, <2>2 DEF Accounted
  <1>11. OneByCommand(c)
    BY <1>0, <1>3 DEF OneByCommand
  <1>12. Links(c, f, p) = {}
    <2>1. ASSUME NEW l \in c.links, l.of = f, c.rows[l.to].use = p PROVE FALSE
      BY <1>1, <1>3, <1>4, <2>1
    <2> QED BY <2>1 DEF Links
  <1>13. ASSUME NEW S, LiveIn(d, S) PROVE LiveIn(c, S)
    <2>1. ASSUME NEW r \in DOMAIN d.rows, c.rows[r].use = "preservation" PROVE c.rows[r] = d.rows[r]
      BY <1>2, <2>1
    <2> QED BY <1>2, <1>13, <2>1 DEF LiveIn
  <1>14. \A l \in d.links : l.of # f \/ d.rows[l.to].use # p => l \in c.links
    BY <1>1, <1>4
  <1>15. c.links \subseteq d.links
    BY <1>1
  <1>16. Sound(c)
    BY <1>6, <1>7, <1>8, <1>9, <1>10, <1>11 DEF Sound, Firm
  <1>17. \A S : LiveIn(d, S) => LiveIn(c, S)
    BY <1>13
  <1> QED BY <1>1, <1>2, <1>3, <1>12, <1>14, <1>15, <1>16, <1>17 DEF Cleared, c

-----------------------------------------------------------------------------
(* What the tasks add.                                                     *)

\* e is d with one more derivation of f, and perhaps an event.
Linked(e, d, f, to, ev) ==
  /\ e = [rows |-> e.rows, links |-> e.links, events |-> e.events]
  /\ e.links = d.links \cup {[of |-> f, to |-> to, event |-> ev]}
  /\ e.events \in [Originals -> Nat]
  /\ \A g \in Originals : e.events[g] >= d.events[g] /\ (g # f => e.events[g] = d.events[g])
  /\ e.events[f] >= ev

\* insert_derivation_event adds an event and its derivation, and no row.
LEMMA InsertParts ==
  ASSUME NEW d, d = [rows |-> d.rows, links |-> d.links, events |-> d.events],
         d.events \in [Originals -> Nat], NEW f \in Originals, NEW to
  PROVE  /\ Linked(InsertDerivationEvent(d, f, to), d, f, to, d.events[f] + 1)
         /\ InsertDerivationEvent(d, f, to).rows = d.rows
         /\ InsertDerivationEvent(d, f, to).events[f] > 0
PROOF
  <1> DEFINE e == InsertDerivationEvent(d, f, to)
             E == [d.events EXCEPT ![f] = @ + 1]
             L == d.links \cup {[of |-> f, to |-> to, event |-> d.events[f] + 1]}
  <1>1. e = [d EXCEPT !.events = E, !.links = L]
    BY DEF InsertDerivationEvent
  <1>2. /\ E \in [Originals -> Nat] /\ E[f] = d.events[f] + 1 /\ d.events[f] \in Nat
        /\ \A g \in Originals : g # f => E[g] = d.events[g]
        /\ \A g \in Originals : d.events[g] \in Nat
    OBVIOUS
  <1> HIDE DEF e, E, L
  <1>3. e = [rows |-> d.rows, links |-> L, events |-> E]
    BY <1>1
  <1>4. e.rows = d.rows /\ e.links = L /\ e.events = E
    BY <1>3
  <1>5. e = [rows |-> e.rows, links |-> e.links, events |-> e.events]
    BY <1>3, <1>4
  <1>6. \A g \in Originals : e.events[g] >= d.events[g] /\ (g # f => e.events[g] = d.events[g])
    BY <1>2, <1>4
  <1>7. e.events[f] >= d.events[f] + 1 /\ e.events[f] > 0 /\ e.events \in [Originals -> Nat]
    BY <1>2, <1>4
  <1>8. e.links = d.links \cup {[of |-> f, to |-> to, event |-> d.events[f] + 1]}
    BY <1>4 DEF L
  <1> QED BY <1>4, <1>5, <1>6, <1>7, <1>8 DEF Linked, e

\* The row of a file normalized by hand.
LEMMA ManualRow ==
  ASSUME NEW d, Sound(d), NEW f \in Manual
  PROVE  /\ ManualFile(f) \in DOMAIN d.rows
         /\ d.rows[ManualFile(f)].use = "manualNormalization"
         /\ d.rows[ManualFile(f)].removed = FALSE
         /\ ManualFile(f)[1] = f
PROOF
  <1>1. ManualFile(f) \in ManualFiles
    BY DEF ManualFiles
  <1>2. ManualFile(f) \in DOMAIN d.rows /\ d.rows[ManualFile(f)] = Row("manualNormalization")
    BY <1>1 DEF Sound, Firm, Named
  <1>3. ManualFile(f)[1] = f
    BY DEF ManualFile, File
  <1> HIDE DEF ManualFile
  <1> QED BY <1>2, <1>3 DEF Row

\* Relating a file normalized by hand keeps the database sound.
LEMMA InsertManualSound ==
  ASSUME NEW d, Sound(d), NEW f \in Manual
  PROVE  Sound(InsertDerivationEvent(d, f, ManualFile(f)))
PROOF
  <1> DEFINE to == ManualFile(f)
             e == InsertDerivationEvent(d, f, to)
             new == [of |-> f, to |-> to, event |-> d.events[f] + 1]
  <1>0. Shaped(d) /\ Named(d) /\ Owned(d) /\ Leading(d) /\ Accounted(d) /\ OneByCommand(d)
    BY DEF Sound, Firm
  <1>1. f \in Originals
    BY NormalizationAssumption
  <1>2. /\ to \in DOMAIN d.rows /\ d.rows[to].use = "manualNormalization"
        /\ d.rows[to].removed = FALSE /\ to[1] = f
    BY ManualRow
  <1>3. Linked(e, d, f, to, d.events[f] + 1) /\ e.rows = d.rows /\ e.events[f] > 0
    BY <1>0, <1>1, InsertParts DEF Shaped
  <1>4. d.events[f] \in Nat /\ \A g \in Originals : d.events[g] \in Nat /\ e.events[g] \in Nat
    BY <1>0, <1>1, <1>3 DEF Shaped, Linked
  <1>5. /\ e.links = d.links \cup {new}
        /\ new.of = f /\ new.to = to /\ new.event = d.events[f] + 1
        /\ new \in [of : Originals, to : DOMAIN d.rows, event : Nat]
    BY <1>1, <1>2, <1>3, <1>4 DEF Linked
  <1>6. \A g \in Originals : e.events[g] >= d.events[g] /\ (g # f => e.events[g] = d.events[g])
    BY <1>3 DEF Linked
  <1>7. e = [rows |-> e.rows, links |-> e.links, events |-> e.events] /\ e.events \in [Originals -> Nat]
    BY <1>3 DEF Linked
  <1> HIDE DEF to, e, new
  <1>8. \A l \in d.links : l.of \in Originals /\ l.to \in DOMAIN d.rows /\ l.event \in Nat
    BY <1>0 DEF Shaped
  <1>9. Shaped(e)
    BY <1>0, <1>3, <1>5, <1>7 DEF Shaped
  <1>10. Named(e)
    BY <1>0, <1>3 DEF Named
  <1>11. Owned(e)
    BY <1>0, <1>2, <1>5 DEF Owned
  <1>12. Leading(e)
    <2>1. ASSUME NEW l \in d.links, l.event > 0
          PROVE  ~e.rows[l.to].removed /\ e.rows[l.to].use # "deleted" /\ e.events[l.of] > 0
      <3>1. ~d.rows[l.to].removed /\ d.rows[l.to].use # "deleted" /\ d.events[l.of] > 0
        BY <1>0, <2>1 DEF Leading
      <3> QED BY <1>3, <1>4, <1>6, <1>8, <3>1
    <2>2. ~e.rows[new.to].removed /\ e.rows[new.to].use # "deleted" /\ e.events[new.of] > 0
      BY <1>2, <1>3, <1>5
    <2> QED BY <1>5, <2>1, <2>2 DEF Leading
  <1>13. Accounted(e)
    <2>1. \A l \in e.links : e.rows[l.to].use = "manualNormalization" => l.event > 0
      BY <1>0, <1>3, <1>4, <1>5 DEF Accounted
    <2>2. ASSUME NEW g \in Manual, e.events[g] > 0
          PROVE  \E l \in e.links : l.of = g /\ e.rows[l.to].use = "manualNormalization"
      <3>1. CASE g = f
        BY <1>2, <1>3, <1>5, <3>1
      <3>2. CASE g # f
        <4>1. g \in Originals
          BY NormalizationAssumption
        <4>2. d.events[g] > 0
          BY <1>6, <2>2, <3>2, <4>1
        <4> QED BY <1>0, <1>3, <1>5, <4>2 DEF Accounted
      <3> QED BY <3>1, <3>2
    <2> QED BY <2>1, <2>2 DEF Accounted
  <1>14. OneByCommand(e)
    <2>1. ASSUME NEW l \in e.links, e.rows[l.to].use = "preservation" PROVE l \in d.links
      BY <1>2, <1>3, <1>5, <2>1
    <2> QED BY <1>0, <1>3, <2>1 DEF OneByCommand
  <1> QED BY <1>9, <1>10, <1>11, <1>12, <1>13, <1>14 DEF Sound, Firm, e, to

\* The rows R with one more, for the file to, made for p.
OneMoreRow(R, rows, to, p) ==
  /\ DOMAIN R = DOMAIN rows \cup {to}
  /\ R \in [DOMAIN R -> Rows]
  /\ R[to].use = p /\ R[to].removed = FALSE
  /\ \A r \in DOMAIN rows : r # to => R[r] = rows[r]

\* once_normalized adds a row and a derivation; for preservation, an event too.
LEMMA OnceNormalizedParts ==
  ASSUME NEW d, Shaped(d), NEW f \in Originals, NEW p \in Purposes
  PROVE  /\ OneMoreRow(OnceNormalized(d, f, p).rows, d.rows, File(f, p, round), p)
         /\ \E ev \in Nat : Linked(OnceNormalized(d, f, p), d, f, File(f, p, round), ev)
         /\ p # "preservation" => OnceNormalized(d, f, p).events = d.events
PROOF
  <1> DEFINE to == File(f, p, round)
             new == Row(p)
             R == [r \in DOMAIN d.rows \cup {to} |-> IF r = to THEN new ELSE d.rows[r]]
             e == [d EXCEPT !.rows = R]
             n == OnceNormalized(d, f, p)
  <1>1. n = IF p = "preservation" THEN InsertDerivationEvent(e, f, to)
            ELSE [e EXCEPT !.links = @ \cup {[of |-> f, to |-> to, event |-> 0]}]
    BY DEF OnceNormalized
  <1>2. d = [rows |-> d.rows, links |-> d.links, events |-> d.events]
        /\ d.rows \in [DOMAIN d.rows -> Rows] /\ d.events \in [Originals -> Nat]
    BY DEF Shaped
  <1>3. new \in Rows /\ new.use = p /\ new.removed = FALSE
    BY DEF Row, Rows
  <1> HIDE DEF to, new
  <1>4. OneMoreRow(R, d.rows, to, p)
    <2>1. DOMAIN R = DOMAIN d.rows \cup {to}
      OBVIOUS
    <2>2. R \in [DOMAIN R -> Rows]
      BY <1>2, <1>3
    <2>3. R[to] = new
      OBVIOUS
    <2>4. \A r \in DOMAIN d.rows : r # to => R[r] = d.rows[r]
      OBVIOUS
    <2> HIDE DEF R
    <2> QED BY <1>3, <2>1, <2>2, <2>3, <2>4 DEF OneMoreRow
  <1> HIDE DEF R
  <1>5. e = [rows |-> R, links |-> d.links, events |-> d.events]
    BY <1>2
  <1> HIDE DEF e, n
  <1>6. e = [rows |-> e.rows, links |-> e.links, events |-> e.events]
        /\ e.rows = R /\ e.links = d.links /\ e.events = d.events
    BY <1>5
  <1>7. CASE p = "preservation"
    <2>1. n = InsertDerivationEvent(e, f, to)
      BY <1>1, <1>7
    <2>2. Linked(n, e, f, to, d.events[f] + 1) /\ n.rows = R
      BY <1>2, <1>6, <2>1, InsertParts
    <2>3. Linked(n, d, f, to, d.events[f] + 1)
      BY <1>6, <2>2 DEF Linked
    <2>4. d.events[f] + 1 \in Nat
      BY <1>2
    <2> QED BY <1>4, <1>7, <2>2, <2>3, <2>4 DEF n, to
  <1>8. CASE p # "preservation"
    <2> DEFINE L == d.links \cup {[of |-> f, to |-> to, event |-> 0]}
    <2>1. n = [e EXCEPT !.links = L]
      BY <1>1, <1>6, <1>8
    <2> HIDE DEF L
    <2>2. n = [rows |-> R, links |-> L, events |-> d.events]
      BY <1>5, <2>1
    <2>3. n.rows = R /\ n.links = L /\ n.events = d.events
      BY <2>2
    <2>4. n = [rows |-> n.rows, links |-> n.links, events |-> n.events]
      BY <2>2, <2>3
    <2>5. \A g \in Originals : n.events[g] \in Nat /\ n.events[g] >= d.events[g]
      BY <1>2, <2>3
    <2>6. Linked(n, d, f, to, 0)
      BY <1>2, <2>3, <2>4, <2>5 DEF Linked, L
    <2> QED BY <1>4, <2>3, <2>6 DEF n, to
  <1> QED BY <1>7, <1>8

\* Recording a new derivative of a file without one keeps the database sound.
LEMMA OnceNormalizedSound ==
  ASSUME NEW d, Sound(d), NEW f \in Originals, NEW p \in Purposes, round \in Nat,
         Links(d, f, p) = {}, File(f, p, round) \notin DOMAIN d.rows,
         p = "preservation" => f \notin Manual
  PROVE  Sound(OnceNormalized(d, f, p))
PROOF
  <1> DEFINE to == File(f, p, round)
             e == OnceNormalized(d, f, p)
  <1>0. Shaped(d) /\ Named(d) /\ Owned(d) /\ Leading(d) /\ Accounted(d) /\ OneByCommand(d)
    BY DEF Sound, Firm
  <1>1. /\ OneMoreRow(e.rows, d.rows, to, p)
        /\ p # "preservation" => e.events = d.events
    BY <1>0, OnceNormalizedParts
  <1>2. PICK ev \in Nat : Linked(e, d, f, to, ev)
    BY <1>0, OnceNormalizedParts
  <1> DEFINE new == [of |-> f, to |-> to, event |-> ev]
  <1>3. to \in Derived /\ to[1] = f /\ to[2] = p /\ to \notin ManualFiles
    <2>1. to \in Derived /\ to[1] = f /\ to[2] = p
      BY DEF File, Derived
    <2>2. \A g \in Manual : ManualFile(g)[2] = "manual"
      BY DEF ManualFile, File
    <2> HIDE DEF to
    <2>3. to \notin ManualFiles
      BY <2>1, <2>2 DEF ManualFiles, Purposes
    <2> QED BY <2>1, <2>3
  <1>4. Links(d, f, p) = {l \in d.links : l.of = f /\ d.rows[l.to].use = p}
    BY DEF Links
  <1>5. to \notin DOMAIN d.rows
    OBVIOUS
  <1> HIDE DEF to, e
  <1>6. /\ e.links = d.links \cup {new} /\ new.of = f /\ new.to = to /\ new.event = ev
        /\ new \in [of : Originals, to : DOMAIN e.rows, event : Nat]
    BY <1>1, <1>2 DEF Linked, OneMoreRow
  <1>7. /\ e = [rows |-> e.rows, links |-> e.links, events |-> e.events]
        /\ e.events \in [Originals -> Nat] /\ e.events[f] >= ev
        /\ \A g \in Originals : e.events[g] >= d.events[g] /\ (g # f => e.events[g] = d.events[g])
    BY <1>2 DEF Linked
  <1>8. /\ DOMAIN e.rows = DOMAIN d.rows \cup {to} /\ e.rows \in [DOMAIN e.rows -> Rows]
        /\ e.rows[to].use = p /\ e.rows[to].removed = FALSE
        /\ \A r \in DOMAIN d.rows : e.rows[r] = d.rows[r]
    BY <1>1, <1>5 DEF OneMoreRow
  <1> HIDE DEF new
  <1>9. /\ \A l \in d.links : l.of \in Originals /\ l.to \in DOMAIN d.rows /\ l.event \in Nat
        /\ \A g \in Originals : d.events[g] \in Nat /\ e.events[g] \in Nat
    BY <1>0, <1>7 DEF Shaped
  <1>10. \A l \in d.links : e.rows[l.to] = d.rows[l.to]
    BY <1>8, <1>9
  <1>11. Shaped(e)
    <2>1. d.links \subseteq [of : Originals, to : DOMAIN d.rows, event : Nat]
      BY <1>0 DEF Shaped
    <2>2. e.links \subseteq [of : Originals, to : DOMAIN e.rows, event : Nat]
      BY <1>6, <1>8, <2>1
    <2>3. DOMAIN e.rows \subseteq Derived
      BY <1>0, <1>3, <1>8 DEF Shaped
    <2> QED BY <1>7, <1>8, <2>2, <2>3 DEF Shaped
  <1>12. Named(e)
    BY <1>0, <1>3, <1>8 DEF Named
  <1>13. Owned(e)
    BY <1>0, <1>3, <1>6 DEF Owned
  <1>14. Leading(e)
    <2>1. ASSUME NEW l \in d.links, l.event > 0
          PROVE  ~e.rows[l.to].removed /\ e.rows[l.to].use # "deleted" /\ e.events[l.of] > 0
      <3>1. ~d.rows[l.to].removed /\ d.rows[l.to].use # "deleted" /\ d.events[l.of] > 0
        BY <1>0, <2>1 DEF Leading
      <3> QED BY <1>7, <1>9, <1>10, <3>1
    <2>2. new.event > 0 =>
            ~e.rows[new.to].removed /\ e.rows[new.to].use # "deleted" /\ e.events[new.of] > 0
      BY <1>6, <1>7, <1>8, <1>9 DEF Purposes
    <2> QED BY <1>6, <2>1, <2>2 DEF Leading
  <1>15. Accounted(e)
    <2>1. \A l \in e.links : e.rows[l.to].use = "manualNormalization" => l.event > 0
      BY <1>0, <1>6, <1>8, <1>10 DEF Accounted, Purposes
    <2>2. ASSUME NEW g \in Manual, e.events[g] > 0
          PROVE  \E l \in e.links : l.of = g /\ e.rows[l.to].use = "manualNormalization"
      <3>1. g \in Originals
        BY NormalizationAssumption
      <3>2. d.events[g] > 0
        BY <1>1, <1>7, <2>2, <3>1
      <3> QED BY <1>0, <1>6, <1>10, <3>2 DEF Accounted
    <2> QED BY <2>1, <2>2 DEF Accounted
  <1>16. OneByCommand(e)
    <2>1. ASSUME NEW l \in e.links, NEW m \in e.links, l.of = m.of,
                 e.rows[l.to].use = "preservation", e.rows[m.to].use = "preservation"
          PROVE  l = m
      <3>1. CASE l \in d.links /\ m \in d.links
        BY <1>0, <1>10, <2>1, <3>1 DEF OneByCommand
      <3>2. CASE l = new /\ m \in d.links
        BY <1>4, <1>6, <1>8, <1>10, <2>1, <3>2
      <3>3. CASE m = new /\ l \in d.links
        BY <1>4, <1>6, <1>8, <1>10, <2>1, <3>3
      <3> QED BY <1>6, <3>1, <3>2, <3>3
    <2>2. ASSUME NEW l \in e.links, e.rows[l.to].use = "preservation", l.of \in Manual
          PROVE  l.of \in Reingested
      <3>1. l \in d.links
        BY <1>6, <1>8, <2>2
      <3> QED BY <1>0, <1>10, <2>2, <3>1 DEF OneByCommand
    <2> QED BY <2>1, <2>2 DEF OneByCommand
  <1> QED BY <1>11, <1>12, <1>13, <1>14, <1>15, <1>16 DEF Sound, Firm, e

-----------------------------------------------------------------------------
(* The removal.                                                            *)

\* One row of d, that of the live file r, is marked removed in e.
LEMMA RemoveFileFirm ==
  ASSUME NEW d, Firm(d), NEW r \in Live(d)
  PROVE  LET e == [d EXCEPT !.rows[r].removed = TRUE]
         IN /\ Firm(e) /\ Live(e) = Live(d) \ {r} /\ DOMAIN e.rows = DOMAIN d.rows
            /\ e.links = d.links /\ e.events = d.events
            /\ \A q \in DOMAIN d.rows : e.rows[q].use = d.rows[q].use
PROOF
  <1> DEFINE R == [d.rows EXCEPT ![r].removed = TRUE]
             e == [d EXCEPT !.rows[r].removed = TRUE]
  <1>0. Shaped(d) /\ Named(d) /\ Owned(d) /\ Accounted(d) /\ OneByCommand(d)
    BY DEF Firm
  <1>1. r \in DOMAIN d.rows /\ d.rows[r].use = "preservation" /\ d.rows \in [DOMAIN d.rows -> Rows]
    BY <1>0 DEF Live, Shaped
  <1>2. d = [rows |-> d.rows, links |-> d.links, events |-> d.events]
    BY <1>0 DEF Shaped
  <1>3. e = [d EXCEPT !.rows = R]
    OBVIOUS
  <1>x. d.rows[r] \in Rows
    BY <1>1
  <1> DEFINE x == [d.rows[r] EXCEPT !.removed = TRUE]
  <1>y. x \in Rows /\ x.use = "preservation" /\ x.removed = TRUE
    BY <1>x, <1>1 DEF Rows
  <1>z. R = [d.rows EXCEPT ![r] = x]
    OBVIOUS
  <1> HIDE DEF e, R, x
  <1>4. e = [rows |-> R, links |-> d.links, events |-> d.events]
    BY <1>2, <1>3
  <1>5. e.rows = R /\ e.links = d.links /\ e.events = d.events
        /\ e = [rows |-> e.rows, links |-> e.links, events |-> e.events]
    BY <1>4
  <1>6. /\ DOMAIN R = DOMAIN d.rows /\ R \in [DOMAIN d.rows -> Rows]
        /\ \A q \in DOMAIN d.rows : q # r => R[q] = d.rows[q]
        /\ R[r].use = "preservation" /\ R[r].removed = TRUE
    BY <1>1, <1>y, <1>z
  <1>7. \A q \in DOMAIN d.rows : R[q].use = d.rows[q].use
    BY <1>1, <1>6
  <1>8. Shaped(e)
    BY <1>0, <1>5, <1>6 DEF Shaped
  <1>9. r \notin ManualFiles
    BY <1>0, <1>1 DEF Named, Row
  <1>10. Named(e)
    BY <1>0, <1>5, <1>6, <1>7, <1>9 DEF Named
  <1>11. \A l \in d.links : l.to \in DOMAIN d.rows
    BY <1>0 DEF Shaped
  <1>12. Owned(e) /\ Accounted(e) /\ OneByCommand(e)
    BY <1>0, <1>5, <1>7, <1>11 DEF Owned, Accounted, OneByCommand
  <1>13. Live(e) = Live(d) \ {r}
    BY <1>5, <1>6 DEF Live
  <1>14. Firm(e)
    BY <1>8, <1>10, <1>12 DEF Firm
  <1> QED BY <1>5, <1>6, <1>7, <1>13, <1>14 DEF e

\* e is d after RemoveLinks: no event, and no derivation that had one.
Emptied(e, d) ==
  /\ e = [rows |-> e.rows, links |-> e.links, events |-> e.events]
  /\ e.rows = d.rows
  /\ e.links = {l \in d.links : l.event = 0 /\ d.rows[l.to].use # "manualNormalization"}
  /\ e.events = [f \in Originals |-> 0]

\* RemoveLinks does what Emptied says.
LEMMA RemoveParts ==
  ASSUME NEW d, Shaped(d)
  PROVE  Emptied(RemoveLinks(d), d)
PROOF
  <1> DEFINE L == {l \in d.links : l.event = 0 /\ d.rows[l.to].use # "manualNormalization"}
             E == [f \in Originals |-> 0]
             e == RemoveLinks(d)
  <1>1. e = [d EXCEPT !.links = L, !.events = E]
    BY DEF RemoveLinks
  <1>2. d = [rows |-> d.rows, links |-> d.links, events |-> d.events]
    BY DEF Shaped
  <1> HIDE DEF L, E, e
  <1>3. e = [rows |-> d.rows, links |-> L, events |-> E]
    BY <1>1, <1>2
  <1>4. e.rows = d.rows /\ e.links = L /\ e.events = E
    BY <1>3
  <1>5. e = [rows |-> e.rows, links |-> e.links, events |-> e.events]
    BY <1>3, <1>4
  <1> QED BY <1>4, <1>5 DEF Emptied, L, E, e

\* Whatever was removed before, it leaves a sound database without events.
LEMMA RemoveSound ==
  ASSUME NEW d, Firm(d)
  PROVE  /\ Sound(RemoveLinks(d)) /\ OneByHand(RemoveLinks(d))
         /\ RemoveLinks(d).rows = d.rows
         /\ \A f \in Originals : RemoveLinks(d).events[f] = 0
PROOF
  <1> DEFINE e == RemoveLinks(d)
  <1>0. Shaped(d) /\ Named(d) /\ Owned(d) /\ Accounted(d) /\ OneByCommand(d)
    BY DEF Firm
  <1>1. Emptied(e, d)
    BY <1>0, RemoveParts
  <1> HIDE DEF e
  <1>2. \A l \in e.links : l \in d.links /\ l.event = 0 /\ l.to \in DOMAIN d.rows
                           /\ e.rows[l.to].use = d.rows[l.to].use
                           /\ d.rows[l.to].use # "manualNormalization"
    BY <1>0, <1>1 DEF Emptied, Shaped
  <1>3. Shaped(e)
    <2>1. e.links \subseteq d.links /\ DOMAIN e.rows = DOMAIN d.rows
      BY <1>1 DEF Emptied
    <2>2. e.links \subseteq [of : Originals, to : DOMAIN e.rows, event : Nat]
      BY <1>0, <2>1 DEF Shaped
    <2> QED BY <1>0, <1>1, <2>2 DEF Shaped, Emptied
  <1>4. Named(e)
    BY <1>0, <1>1 DEF Named, Emptied
  <1>5. Owned(e)
    BY <1>0, <1>2 DEF Owned
  <1>6. Leading(e)
    BY <1>2 DEF Leading
  <1>e. \A f \in Originals : e.events[f] = 0
    BY <1>1 DEF Emptied
  <1>7. Accounted(e)
    <2>1. \A f \in Manual : e.events[f] = 0
      BY <1>e, NormalizationAssumption
    <2> QED BY <1>2, <2>1 DEF Accounted
  <1>8. OneByCommand(e)
    BY <1>0, <1>2 DEF OneByCommand
  <1>9. OneByHand(e)
    BY <1>2 DEF OneByHand
  <1>10. e.rows = d.rows
    BY <1>1 DEF Emptied
  <1> QED BY <1>3, <1>4, <1>5, <1>6, <1>7, <1>8, <1>9, <1>10, <1>e DEF Sound, Firm, e

-----------------------------------------------------------------------------
(* One task of a batch.                                                    *)

\* What a task with exit code c makes of the transaction, d, and leaves on
\* disk, made; none says that it had nothing to record.
TaskDoes(f, c, d, made, breaks, none) ==
  /\ Sound(d) /\ DOMAIN tx.rows \subseteq DOMAIN d.rows
  /\ \A S : LiveIn(tx, S) => LiveIn(d, S \cup made)
  /\ c = 0 /\ ~breaks /\ ~none =>
       \E l \in d.links : l.of = f /\ d.rows[l.to].use \in {Head(plan), "manualNormalization"}
  /\ \A l \in tx.links : l.of # f => l \in d.links /\ d.rows[l.to] = tx.rows[l.to]
  /\ \A g \in Manual : g # f \/ Head(plan) # "preservation" => d.events[g] = tx.events[g]
  /\ OneByHand(tx) /\ (f \in Manual /\ Head(plan) = "preservation" => tx.events[f] = 0)
       => OneByHand(d)

\* A live file is live on a larger disk.
LEMMA LiveInMore ==
  ASSUME NEW d, NEW S, NEW T, LiveIn(d, S)
  PROVE  LiveIn(d, S \cup T)
PROOF BY DEF LiveIn

\* The tasks that do nothing: the transaction is broken, or no thumbnails wanted.
LEMMA NothingDoes ==
  ASSUME Sound(tx), NEW f, NEW c, NEW none, c # 0 \/ none
  PROVE  TaskDoes(f, c, tx, {}, FALSE, none)
PROOF
  <1>1. \A S : LiveIn(tx, S) => LiveIn(tx, S \cup {})
    BY LiveInMore
  <1> QED BY <1>1 DEF TaskDoes

\* The tasks that only clean up: no rule, a command that failed, or one that
\* had nothing to record.
LEMMA CleanUpDoes ==
  ASSUME Sound(tx), NEW f \in Originals, Head(plan) \in Purposes,
         NEW c, NEW made, NEW breaks, NEW none, c # 0 \/ breaks \/ none
  PROVE  TaskDoes(f, c, CleanUp(tx, f, Head(plan)), made, breaks, none)
PROOF
  <1> DEFINE d == CleanUp(tx, f, Head(plan))
  <1>1. Sound(d) /\ Cleared(d, tx, f, Head(plan))
    BY CleanUpSound
  <1> HIDE DEF d
  <1>2. \A S : LiveIn(tx, S) => LiveIn(d, S \cup made)
    BY <1>1, LiveInMore DEF Cleared
  <1>3. \A l \in d.links : l \in tx.links /\ d.rows[l.to] = tx.rows[l.to]
    BY <1>1 DEF Cleared
  <1>4. OneByHand(tx) => OneByHand(d)
    BY <1>3 DEF OneByHand
  <1>5. \A l \in tx.links : l.of # f => l \in d.links /\ d.rows[l.to] = tx.rows[l.to]
    BY <1>1 DEF Cleared
  <1>6. DOMAIN tx.rows \subseteq DOMAIN d.rows /\ d.events = tx.events
    BY <1>1 DEF Cleared
  <1> QED BY <1>1, <1>2, <1>4, <1>5, <1>6 DEF TaskDoes, d

\* Without an event there is no derivation by hand.
LEMMA NoEventNoHand ==
  ASSUME NEW d, Sound(d), NEW f, d.events[f] = 0,
         NEW l \in d.links, l.of = f
  PROVE  d.rows[l.to].use # "manualNormalization"
PROOF BY DEF Sound, Firm, Accounted, Leading

\* A new derivation by hand is the only one if there was no event.
LEMMA InsertOneByHand ==
  ASSUME NEW d, Sound(d), NEW f \in Manual, d.events[f] = 0, OneByHand(d)
  PROVE  OneByHand(InsertDerivationEvent(d, f, ManualFile(f)))
PROOF
  <1> DEFINE e == InsertDerivationEvent(d, f, ManualFile(f))
             new == [of |-> f, to |-> ManualFile(f), event |-> d.events[f] + 1]
  <1>1. Linked(e, d, f, ManualFile(f), d.events[f] + 1) /\ e.rows = d.rows
    BY InsertParts, NormalizationAssumption DEF Sound, Firm, Shaped
  <1>2. e.links = d.links \cup {new} /\ new.of = f
    BY <1>1 DEF Linked
  <1> HIDE DEF e, new
  <1>3. \A l \in d.links : l.of = f => d.rows[l.to].use # "manualNormalization"
    BY NoEventNoHand
  <1>4. OneByHand(e)
    BY <1>1, <1>2, <1>3 DEF OneByHand
  <1> QED BY <1>4 DEF e

\* The task of a file that was normalized by hand.
LEMMA ManualDoes ==
  ASSUME Sound(tx), NEW f \in Manual, Head(plan) = "preservation"
  PROVE  TaskDoes(f, 0, InsertDerivationEvent(CleanUp(tx, f, "preservation"), f, ManualFile(f)),
                  {}, FALSE, FALSE)
PROOF
  <1> DEFINE c == CleanUp(tx, f, "preservation")
             d == InsertDerivationEvent(c, f, ManualFile(f))
             new == [of |-> f, to |-> ManualFile(f), event |-> c.events[f] + 1]
  <1>0. f \in Originals
    BY NormalizationAssumption
  <1>1. Sound(c) /\ Cleared(c, tx, f, "preservation")
    BY <1>0, CleanUpSound DEF Purposes
  <1> HIDE DEF c
  <1>2. Sound(d)
    BY <1>1, InsertManualSound
  <1>3. Linked(d, c, f, ManualFile(f), c.events[f] + 1) /\ d.rows = c.rows
    BY <1>0, <1>1, InsertParts DEF Sound, Firm, Shaped
  <1>4. /\ d.links = c.links \cup {new} /\ new.of = f /\ new.to = ManualFile(f)
        /\ \A g \in Originals : g # f => d.events[g] = c.events[g]
    BY <1>3 DEF Linked
  <1>5. c.rows[ManualFile(f)].use = "manualNormalization"
    BY <1>1, ManualRow
  <1>6. OneByHand(c) /\ c.events[f] = 0 => OneByHand(d)
    BY <1>1, InsertOneByHand
  <1> HIDE DEF d, new
  <1>7. \A l \in c.links : l \in tx.links /\ c.rows[l.to] = tx.rows[l.to]
    BY <1>1 DEF Cleared
  <1>8. OneByHand(tx) => OneByHand(c)
    BY <1>7 DEF OneByHand
  <1>9. c.events = tx.events /\ DOMAIN tx.rows \subseteq DOMAIN d.rows
    BY <1>1, <1>3 DEF Cleared
  <1>10. \A S : LiveIn(tx, S) => LiveIn(d, S \cup {})
    <2>1. \A S : LiveIn(tx, S) => LiveIn(c, S \cup {})
      BY <1>1, LiveInMore DEF Cleared
    <2> QED BY <1>3, <2>1 DEF LiveIn
  <1>11. \A l \in tx.links : l.of # f => l \in d.links /\ d.rows[l.to] = tx.rows[l.to]
    BY <1>1, <1>3, <1>4 DEF Cleared
  <1>12. \E l \in d.links : l.of = f /\ d.rows[l.to].use \in {Head(plan), "manualNormalization"}
    BY <1>3, <1>4, <1>5
  <1>13. \A g \in Manual : g # f => d.events[g] = tx.events[g]
    BY <1>4, <1>9, NormalizationAssumption
  <1> QED BY <1>2, <1>6, <1>8, <1>9, <1>10, <1>11, <1>12, <1>13 DEF TaskDoes, d, c

\* The task whose command left a file.
LEMMA RecordDoes ==
  ASSUME Sound(tx), NEW f \in Originals, Head(plan) \in Purposes, round \in Nat,
         ~(Head(plan) = "preservation" /\ f \in Manual),
         File(f, Head(plan), round) \notin DOMAIN CleanUp(tx, f, Head(plan)).rows
  PROVE  \A c, none : TaskDoes(f, c, OnceNormalized(CleanUp(tx, f, Head(plan)), f, Head(plan)),
                              Made(f), FALSE, none)
PROOF
  <1> DEFINE p == Head(plan)
             to == File(f, p, round)
             c == CleanUp(tx, f, p)
             d == OnceNormalized(c, f, p)
  <1>1. Sound(c) /\ Cleared(c, tx, f, p)
    BY CleanUpSound
  <1>m. p = "preservation" => Made(f) = {to}
    BY DEF Made
  <1> HIDE DEF c
  <1>2. Sound(d)
    BY <1>1, OnceNormalizedSound DEF Cleared, c
  <1>3. OneMoreRow(d.rows, c.rows, to, p) /\ (p # "preservation" => d.events = c.events)
    BY <1>1, OnceNormalizedParts DEF Sound, Firm
  <1>4. PICK ev \in Nat : Linked(d, c, f, to, ev)
    BY <1>1, OnceNormalizedParts DEF Sound, Firm
  <1> DEFINE new == [of |-> f, to |-> to, event |-> ev]
  <1>5. /\ d.links = c.links \cup {new} /\ new.of = f /\ new.to = to
        /\ \A g \in Originals : g # f => d.events[g] = c.events[g]
    BY <1>4 DEF Linked
  <1>6. to \notin DOMAIN c.rows
    BY DEF c
  <1>g. ~(p = "preservation" /\ f \in Manual) /\ p \in Purposes
    OBVIOUS
  <1> HIDE DEF d, new, to, p
  <1>7. /\ DOMAIN d.rows = DOMAIN c.rows \cup {to} /\ d.rows[to].use = p
        /\ \A r \in DOMAIN c.rows : d.rows[r] = c.rows[r]
    BY <1>3, <1>6 DEF OneMoreRow
  <1>8. \A l \in c.links : l \in tx.links /\ l.to \in DOMAIN c.rows
                           /\ c.rows[l.to] = tx.rows[l.to] /\ d.rows[l.to] = tx.rows[l.to]
    BY <1>1, <1>7 DEF Cleared, Sound, Firm, Shaped
  <1>9. OneByHand(tx) => OneByHand(d)
    <2>1. \A l \in d.links : d.rows[l.to].use = "manualNormalization" =>
            l \in tx.links /\ tx.rows[l.to].use = "manualNormalization"
      BY <1>5, <1>7, <1>8, <1>g DEF Purposes
    <2> QED BY <2>1 DEF OneByHand
  <1>10. c.events = tx.events /\ DOMAIN tx.rows \subseteq DOMAIN d.rows
    BY <1>1, <1>7 DEF Cleared
  <1>11. ASSUME NEW S, LiveIn(tx, S) PROVE LiveIn(d, S \cup Made(f))
    <2>1. LiveIn(c, S)
      BY <1>1, <1>11 DEF Cleared
    <2> QED BY <1>7, <1>m, <2>1 DEF LiveIn
  <1>12. \A l \in tx.links : l.of # f => l \in d.links /\ d.rows[l.to] = tx.rows[l.to]
    BY <1>1, <1>5, <1>8 DEF Cleared
  <1>13. \E l \in d.links : l.of = f /\ d.rows[l.to].use = p
    BY <1>5, <1>7
  <1>14. \A g \in Manual : d.events[g] = tx.events[g]
    BY <1>3, <1>5, <1>10, <1>g, NormalizationAssumption
  <1> QED BY <1>2, <1>9, <1>10, <1>11, <1>12, <1>13, <1>14 DEF TaskDoes, d, c, p

Tasks ==
  \/ NormalizeSkips \/ NormalizeBroken \/ NormalizeManual \/ NormalizeNoRule
  \/ NormalizeRuns \/ NormalizeFails

Does(f, r) == r.breaks \in BOOLEAN /\ TaskDoes(f, r.code, r.db, r.made, r.breaks, r.quiet)

\* Every task ends in one of these ways.
LEMMA TaskEffect ==
  ASSUME NormInv, Tasks
  PROVE  \E f \in todo, n \in Nat : \E r : Running /\ Ends(f, r, n) /\ Does(f, r)
PROOF
  <1>0. Running /\ stage = "normalize"
    BY DEF Tasks, NormalizeSkips, NormalizeBroken, NormalizeManual, NormalizeNoRule,
       NormalizeRuns, NormalizeFails, Running
  <1>1. /\ Sound(tx) /\ todo \subseteq Originals /\ round \in Nat /\ Head(plan) \in Purposes
        /\ 0 \in Nat /\ 1 \in Nat /\ 1 # 0 /\ 2 # 0
    <2>1. todo \subseteq Originals /\ round \in Nat /\ plan \in AllPlans /\ plan # <<>>
      BY <1>0, NormalizationAssumption DEF NormInv, Types, Control
    <2>2. Sound(tx)
      BY <1>0 DEF NormInv, Data, Half, Removing, Sound
    <2> QED BY <2>1, <2>2, PlanRest
  <1> DEFINE C(f) == CleanUp(tx, f, Head(plan))
  <1>2. \A f \in todo : Asks(f) => f \in Originals /\ ~(Head(plan) = "preservation" /\ f \in Manual)
    BY <1>1 DEF Asks, ByHand
  <1>3. CASE NormalizeSkips
    <2>1. PICK f \in todo : Ends(f, [Result(0, tx) EXCEPT !.quiet = TRUE], 0)
      BY <1>3 DEF NormalizeSkips
    <2> DEFINE r == [Result(0, tx) EXCEPT !.quiet = TRUE]
    <2>2. r.code = 0 /\ r.db = tx /\ r.made = {} /\ r.breaks = FALSE /\ r.quiet = TRUE
      BY DEF Result
    <2> HIDE DEF r
    <2>3. TaskDoes(f, 0, tx, {}, FALSE, TRUE)
      BY <1>1, NothingDoes, Zenon
    <2>4. Does(f, r)
      BY <2>2, <2>3, Zenon DEF Does
    <2> QED BY <1>0, <1>1, <2>1, <2>4 DEF r
  <1>4. CASE NormalizeBroken
    <2>1. PICK f \in todo : Ends(f, Result(1, tx), 0)
      BY <1>4 DEF NormalizeBroken
    <2>2. TaskDoes(f, 1, tx, {}, FALSE, FALSE)
      BY <1>1, NothingDoes, Zenon
    <2> DEFINE r == Result(1, tx)
    <2>r. r.code = 1 /\ r.db = tx /\ r.made = {} /\ r.breaks = FALSE /\ r.quiet = FALSE
      BY DEF Result
    <2> HIDE DEF r
    <2>3. Does(f, r)
      BY <2>2, <2>r, Zenon DEF Does
    <2> QED BY <1>0, <1>1, <2>1, <2>3 DEF r
  <1>5. CASE NormalizeManual
    <2>1. PICK f \in todo \cap ByHand(Head(plan)) :
            \/ /\ Head(plan) = "preservation"
               /\ Ends(f, Result(0, InsertDerivationEvent(C(f), f, ManualFile(f))), 0)
            \/ /\ Head(plan) = "access"
               /\ Ends(f, [Result(0, C(f)) EXCEPT !.quiet = TRUE], 0)
      BY <1>5 DEF NormalizeManual
    <2>2. CASE Head(plan) = "preservation"
      <3> DEFINE D == InsertDerivationEvent(C(f), f, ManualFile(f))
      <3>1. Ends(f, Result(0, D), 0)
        BY <2>1, <2>2
      <3>2. f \in Manual
        BY <2>2 DEF ByHand
      <3>3. TaskDoes(f, 0, D, {}, FALSE, FALSE)
        BY <1>1, <2>2, <3>2, ManualDoes
      <3> HIDE DEF D
      <3> DEFINE r == Result(0, D)
      <3>r. r.code = 0 /\ r.db = D /\ r.made = {} /\ r.breaks = FALSE /\ r.quiet = FALSE
        BY DEF Result
      <3> HIDE DEF r
      <3>4. Does(f, r)
        BY <3>3, <3>r, Zenon DEF Does
      <3> QED BY <1>0, <1>1, <3>1, <3>4 DEF r
    <2>3. CASE Head(plan) = "access"
      <3> DEFINE r == [Result(0, C(f)) EXCEPT !.quiet = TRUE]
      <3>1. Ends(f, r, 0)
        BY <2>1, <2>3
      <3>2. r.code = 0 /\ r.db = C(f) /\ r.made = {} /\ r.breaks = FALSE /\ r.quiet = TRUE
        BY DEF Result
      <3> HIDE DEF r
      <3>3. TaskDoes(f, 0, C(f), {}, FALSE, TRUE)
        BY <1>1, CleanUpDoes, Zenon
      <3> HIDE DEF C
      <3>4. Does(f, r)
        BY <3>2, <3>3, Zenon DEF Does
      <3> QED BY <1>0, <1>1, <3>1, <3>4
    <2> QED BY <2>1, <2>2, <2>3
  <1>6. CASE NormalizeNoRule
    <2>1. PICK f \in todo :
            \/ Ends(f, Result(2, C(f)), 1)
            \/ Ends(f, [Result(0, C(f)) EXCEPT !.quiet = TRUE], 0)
      BY <1>6 DEF NormalizeNoRule
    <2>2. CASE Ends(f, Result(2, C(f)), 1)
      <3>1. TaskDoes(f, 2, C(f), {}, FALSE, FALSE)
        BY <1>1, CleanUpDoes, Zenon
      <3> HIDE DEF C
      <3> DEFINE r == Result(2, C(f))
      <3>r. r.code = 2 /\ r.db = C(f) /\ r.made = {} /\ r.breaks = FALSE /\ r.quiet = FALSE
        BY DEF Result
      <3> HIDE DEF r
      <3>2. Does(f, r)
        BY <3>1, <3>r, Zenon DEF Does
      <3> QED BY <1>0, <1>1, <2>2, <3>2 DEF r
    <2>3. CASE Ends(f, [Result(0, C(f)) EXCEPT !.quiet = TRUE], 0)
      <3> DEFINE r == [Result(0, C(f)) EXCEPT !.quiet = TRUE]
      <3>1. r.code = 0 /\ r.db = C(f) /\ r.made = {} /\ r.breaks = FALSE /\ r.quiet = TRUE
        BY DEF Result
      <3>2. Ends(f, r, 0)
        BY <2>3
      <3> HIDE DEF r
      <3>3. TaskDoes(f, 0, C(f), {}, FALSE, TRUE)
        BY <1>1, CleanUpDoes, Zenon
      <3> HIDE DEF C
      <3>4. Does(f, r)
        BY <3>1, <3>3, Zenon DEF Does
      <3> QED BY <1>0, <1>1, <3>2, <3>4
    <2> QED BY <2>1, <2>2, <2>3
  <1>7. CASE NormalizeFails
    <2>1. PICK f \in todo, left \in BOOLEAN :
            Ends(f, [Result(1, C(f)) EXCEPT !.made = IF left THEN Made(f) ELSE {}], 1)
      BY <1>7 DEF NormalizeFails
    <2> DEFINE made == IF left THEN Made(f) ELSE {}
               r == [Result(1, C(f)) EXCEPT !.made = made]
    <2>2. Ends(f, r, 1)
      BY <2>1
    <2> HIDE DEF made
    <2>3. r.code = 1 /\ r.db = C(f) /\ r.made = made /\ r.breaks = FALSE /\ r.quiet = FALSE
      BY DEF Result
    <2> HIDE DEF r
    <2>4. TaskDoes(f, 1, C(f), made, FALSE, FALSE)
      BY <1>1, CleanUpDoes, Zenon
    <2> HIDE DEF C
    <2>5. Does(f, r)
      BY <2>3, <2>4, Zenon DEF Does
    <2> QED BY <1>0, <1>1, <2>2, <2>5
  <1>8. CASE NormalizeRuns
    <2> DEFINE B(f, out) == Breaks(C(f), f, Head(plan), out)
               R(f, out) == [code   |-> RunCode(Head(plan), out, B(f, out)),
                             db     |-> IF Records(out, B(f, out))
                                          THEN OnceNormalized(C(f), f, Head(plan)) ELSE C(f),
                             made   |-> IF out \in {"file", "single", "several"} THEN Made(f) ELSE {},
                             breaks |-> B(f, out),
                             quiet  |-> out \in {"empty", "unnamed"}]
               N(out) == IF out = "file" THEN 0 ELSE 1
    <2>1. PICK f \in todo, out \in Outputs : Asks(f) /\ Ends(f, R(f, out), N(out))
      BY <1>8 DEF NormalizeRuns
    <2> DEFINE r == R(f, out)
               none == out \in {"empty", "unnamed"}
    <2>2. r.breaks = B(f, out) /\ r.code = RunCode(Head(plan), out, B(f, out)) /\ r.quiet = none
      OBVIOUS
    <2>3. B(f, out) \in BOOLEAN
      BY Zenon DEF Breaks
    <2>4. f \in Originals /\ ~(Head(plan) = "preservation" /\ f \in Manual)
      BY <1>2, <2>1
    <2>5. CASE Records(out, B(f, out))
      <3>1. r.db = OnceNormalized(C(f), f, Head(plan)) /\ r.made = Made(f)
        BY <2>5 DEF Records
      <3>2. B(f, out) = FALSE
        BY <2>3, <2>5 DEF Records
      <3>3. File(f, Head(plan), round) \notin DOMAIN C(f).rows
        BY <2>5, <3>2 DEF Records, Breaks
      <3>4. TaskDoes(f, RunCode(Head(plan), out, B(f, out)), OnceNormalized(C(f), f, Head(plan)),
                     Made(f), FALSE, none)
        BY <1>1, <2>4, <3>3, RecordDoes
      <3> HIDE DEF r, C, B, none
      <3>5. Does(f, r)
        BY <2>2, <2>3, <3>1, <3>2, <3>4, Zenon DEF Does
      <3> QED BY <1>0, <1>1, <2>1, <3>5 DEF r
    <2>6. CASE ~Records(out, B(f, out))
      <3> DEFINE made == r.made
                 c == RunCode(Head(plan), out, B(f, out))
      <3>1. r.db = C(f)
        BY <2>6
      <3>2. c # 0 \/ B(f, out) \/ none
        BY <2>6, NormalizationAssumption DEF Records, RunCode, OutputKinds, Breaks
      <3> HIDE DEF B, none, c, made, r
      <3>3. TaskDoes(f, c, C(f), made, B(f, out), none)
        BY <1>1, <2>4, <3>2, CleanUpDoes, Zenon
      <3> HIDE DEF C
      <3>4. Does(f, r)
        BY <2>2, <2>3, <3>1, <3>3, Zenon DEF Does, c, made
      <3> QED BY <1>0, <1>1, <2>1, <3>4 DEF r
    <2> QED BY <2>5, <2>6
  <1> QED BY <1>3, <1>4, <1>5, <1>6, <1>7, <1>8 DEF Tasks

-----------------------------------------------------------------------------
(* The invariant holds at first.                                           *)

\* The database that a SIP comes with is sound.
LEMMA InitSound ==
  ASSUME Init
  PROVE  /\ Sound(db) /\ LiveIn(db, disk) /\ OneByHand(db)
         /\ \A f \in Originals : db.events[f] = 0
PROOF
  <1> DEFINE D == Earlier \cup ManualFiles
             R == [d \in D |-> Row(IF d \in Earlier THEN "preservation" ELSE "manualNormalization")]
             L == {[of |-> f, to |-> EarlierFile(f), event |-> 0] : f \in Reingested}
             E == [f \in Originals |-> 0]
  <1>1. db = [rows |-> R, links |-> L, events |-> E] /\ disk = Earlier
    BY DEF Init
  <1>2. \A f \in Originals : /\ EarlierFile(f) \in Derived /\ EarlierFile(f)[1] = f
                             /\ EarlierFile(f)[2] = "preservation"
                             /\ ManualFile(f) \in Derived /\ ManualFile(f)[2] = "manual"
    BY DEF EarlierFile, ManualFile, File, Derived, Purposes
  <1>3. D \subseteq Derived
    BY <1>2, NormalizationAssumption DEF Earlier, ManualFiles
  <1>4. \A r \in Earlier : r[2] = "preservation" /\ r \notin ManualFiles
    BY <1>2, NormalizationAssumption DEF Earlier, ManualFiles
  <1>5. /\ DOMAIN R = D
        /\ \A r \in Earlier : R[r] = Row("preservation")
        /\ \A r \in ManualFiles : R[r] = Row("manualNormalization")
    BY <1>4
  <1>6. /\ Row("preservation") \in Rows /\ Row("manualNormalization") \in Rows
        /\ Row("preservation").use = "preservation"
        /\ Row("manualNormalization").use = "manualNormalization"
    BY DEF Row, Rows, Purposes
  <1>7. R \in [D -> Rows]
    BY <1>6
  <1>8. \A l \in L : /\ l \in [of : Originals, to : D, event : Nat] /\ l.event = 0
                     /\ l.of \in Reingested /\ l.to = EarlierFile(l.of)
                     /\ l.to \in Earlier /\ l.to[1] = l.of
                     /\ l = [of |-> l.of, to |-> EarlierFile(l.of), event |-> 0]
    BY <1>2, NormalizationAssumption DEF Earlier
  <1>9. db.rows = R /\ db.links = L /\ db.events = E
    BY <1>1
  <1>10. E \in [Originals -> Nat] /\ \A f \in Originals : E[f] = 0
    OBVIOUS
  <1>11. db = [rows |-> db.rows, links |-> db.links, events |-> db.events]
    BY <1>1, <1>9
  <1> HIDE DEF R, L, E
  <1>12. Shaped(db)
    BY <1>3, <1>5, <1>7, <1>8, <1>9, <1>10, <1>11 DEF Shaped
  <1>13. Named(db)
    BY <1>4, <1>5, <1>6, <1>9 DEF Named, Purposes
  <1>14. \A l \in db.links : db.rows[l.to].use = "preservation"
    BY <1>5, <1>6, <1>8, <1>9
  <1>15. Owned(db) /\ Leading(db)
    BY <1>8, <1>9 DEF Owned, Leading
  <1>16. \A f \in Manual : db.events[f] = 0
    BY <1>9, <1>10, NormalizationAssumption
  <1>17. Accounted(db)
    BY <1>14, <1>16 DEF Accounted
  <1>18. OneByCommand(db)
    BY <1>8, <1>9 DEF OneByCommand
  <1>19. LiveIn(db, disk)
    BY <1>1, <1>5, <1>6, <1>9 DEF LiveIn
  <1>20. OneByHand(db)
    BY <1>14 DEF OneByHand
  <1> QED BY <1>9, <1>10, <1>12, <1>13, <1>15, <1>17, <1>18, <1>19, <1>20 DEF Sound, Firm

\* Init implies the invariant.
LEMMA InitInv ==
  ASSUME Init
  PROVE  NormInv /\ OnceInv
PROOF
  <1>1. tx = db /\ codes = <<>> /\ todo = {} /\ stage = "choose" /\ plan = <<>> /\ done = FALSE
        /\ broken = FALSE /\ round = 0 /\ odd = 0 /\ mode \in Modes /\ moving = {}
        /\ moved = [disk |-> {}, tx |-> {}, db |-> {}]
    BY DEF Init
  <1>2. Sound(db) /\ LiveIn(db, disk) /\ OneByHand(db) /\ \A f \in Originals : db.events[f] = 0
    BY InitSound
  <1>3. DOMAIN codes = {}
    BY <1>1
  <1>4. Types
    <2>1. plan \in AllPlans
      BY <1>1 DEF AllPlans, Plans
    <2>2. broken \in BOOLEAN /\ done \in BOOLEAN
      BY <1>1, Zenon
    <2>3. round \in 0..MaxRounds /\ odd \in 0..MaxOdd
      BY <1>1, NormalizationAssumption
    <2>4. moved \in [disk : SUBSET Manual, tx : SUBSET Manual, db : SUBSET Manual]
      BY <1>1
    <2> QED BY <1>1, <2>1, <2>2, <2>3, <2>4 DEF Types, Stages
  <1>5. Control
    BY <1>1, <1>3 DEF Control
  <1>6. Data
    BY <1>1, <1>2 DEF Data, Removing, Sound
  <1>7. Succeeded /\ Joined
    BY <1>1 DEF Succeeded, Joined
  <1>8. OnceInv
    BY <1>1, <1>2, NormalizationAssumption DEF OnceInv, NotYet
  <1> QED BY <1>4, <1>5, <1>6, <1>7, <1>8 DEF NormInv

-----------------------------------------------------------------------------
(* Every step keeps it.                                                    *)

\* The steps that start a batch, or wait for the user.
Begins == Choose \/ Answer \/ Redo \/ Approve \/ Related \/ Die

\* They start from what is committed.
LEMMA BeginsEffect ==
  ASSUME NormInv, Begins
  PROVE  /\ db' = db /\ tx' = db /\ disk' = disk /\ raised' = raised /\ mode' \in Modes
         /\ broken' = FALSE /\ done' = FALSE /\ DOMAIN codes' = {} /\ plan' \in AllPlans
         /\ moving' = {} /\ moved' = [moved EXCEPT !.tx = moved.db]
         /\ round' \in 0..MaxRounds /\ odd' \in 0..MaxOdd
         /\ Removing => stage' = "remove"
         /\ \/ stage' = "normalize" /\ todo' = Originals /\ plan' # <<>>
            \/ stage' = "remove" /\ todo' = Live(db)
            \/ stage' = "relate" /\ todo' = Manual
            \/ stage' \in Stages \ Batches /\ todo' = {}
PROOF
  <1>1. Types /\ Control
    BY DEF NormInv
  <1>2. round \in 0..MaxRounds /\ odd \in 0..MaxOdd /\ plan \in AllPlans /\ mode \in Modes
        /\ (stage = "normalize" => plan # <<>>)
    BY <1>1 DEF Types, Control
  <1>3. ASSUME NEW p \in AllPlans, Begin(p)
        PROVE  /\ plan' \in AllPlans
               /\ \/ stage' = "normalize" /\ todo' = Originals /\ plan' # <<>> /\ Batch("normalize", Originals)
                  \/ stage' = "report" /\ todo' = {} /\ Batch("report", {})
    BY <1>3 DEF Begin, Batch
  <1>4. ASSUME NEW s, NEW T, Batch(s, T)
        PROVE  /\ stage' = s /\ todo' = T /\ tx' = db /\ broken' = FALSE /\ done' = FALSE
               /\ DOMAIN codes' = {} /\ moving' = {} /\ moved' = [moved EXCEPT !.tx = moved.db]
    BY <1>4 DEF Batch
  <1>5. CASE Choose
    <2>1. PICK p \in Plans : Begin(p)
      BY <1>5 DEF Choose
    <2>2. p \in AllPlans
      BY DEF AllPlans
    <2>3. round' \in 0..MaxRounds
      BY <1>2, <1>5, NormalizationAssumption DEF Choose
    <2>4. db' = db /\ disk' = disk /\ raised' = raised /\ mode' \in Modes /\ odd' = odd /\ ~Removing
      BY <1>5 DEF Choose, faults, Removing
    <2> QED BY <1>2, <1>3, <1>4, <2>1, <2>2, <2>3, <2>4 DEF Stages, Batches
  <1>6. CASE Answer
    <2>1. db' = db /\ disk' = disk /\ raised' = raised /\ mode' = mode /\ odd' = odd /\ round' = round
          /\ ~Removing
      BY <1>6 DEF Answer, faults, Removing
    <2>2. CASE stage = "normalize"
      <3>1. Begin(Tail(plan)) /\ Tail(plan) \in AllPlans
        BY <1>2, <1>6, <2>2, PlanRest DEF Answer
      <3> QED BY <1>2, <1>3, <1>4, <2>1, <3>1 DEF Stages, Batches
    <2>3. CASE stage # "normalize"
      <3>1. Batch("choose", {}) /\ plan' = plan
        BY <1>6, <2>3 DEF Answer
      <3>2. "choose" \in Stages \ Batches
        BY DEF Stages, Batches
      <3>3. stage' = "choose" /\ todo' = {} /\ tx' = db /\ broken' = FALSE /\ done' = FALSE
            /\ DOMAIN codes' = {} /\ moving' = {} /\ moved' = [moved EXCEPT !.tx = moved.db]
        BY <1>4, <3>1
      <3> QED BY <1>2, <2>1, <3>1, <3>2, <3>3
    <2> QED BY <2>2, <2>3
  <1>7. CASE Redo
    <2>1. db' = db /\ disk' = disk /\ raised' = raised /\ mode' = mode /\ odd' = odd /\ round' = round
          /\ plan' = plan /\ Batch("remove", Live(db))
      BY <1>7 DEF Redo, faults
    <2> QED BY <1>2, <1>4, <2>1
  <1>8. CASE Approve
    <2>1. db' = db /\ disk' = disk /\ raised' = raised /\ mode' = mode /\ odd' = odd /\ round' = round
          /\ plan' = plan /\ Batch("relate", Manual) /\ ~Removing
      BY <1>8 DEF Approve, faults, Removing
    <2> QED BY <1>2, <1>4, <2>1
  <1>9. CASE Related
    <2>1. db' = db /\ disk' = disk /\ raised' = raised /\ mode' = mode /\ odd' = odd /\ round' = round
          /\ plan' = plan /\ ~Removing
          /\ (Batch("failed", {}) \/ Batch("approved", {}))
      BY <1>9 DEF Related, faults, Removing
    <2>2. "failed" \in Stages \ Batches /\ "approved" \in Stages \ Batches
      BY DEF Stages, Batches
    <2>3. stage' \in {"failed", "approved"} /\ todo' = {} /\ tx' = db /\ broken' = FALSE /\ done' = FALSE
          /\ DOMAIN codes' = {} /\ moving' = {} /\ moved' = [moved EXCEPT !.tx = moved.db]
      BY <1>4, <2>1
    <2> QED BY <1>2, <2>1, <2>2, <2>3
  <1>10. CASE Die
    <2>1. db' = db /\ disk' = disk /\ raised' = raised /\ mode' = mode /\ round' = round /\ plan' = plan
          /\ odd < MaxOdd /\ odd' = odd + 1
      BY <1>10 DEF Die
    <2>2. odd' \in 0..MaxOdd
      BY <1>2, <2>1, NormalizationAssumption
    <2>3. \/ stage = "normalize" /\ Batch("normalize", Originals)
          \/ stage = "remove" /\ Batch("remove", Live(db))
          \/ stage = "relate" /\ Batch("relate", Manual)
      BY <1>10 DEF Die, Batches
    <2> QED BY <1>2, <1>4, <2>1, <2>2, <2>3 DEF Removing
  <1> QED BY <1>5, <1>6, <1>7, <1>8, <1>9, <1>10 DEF Begins

Relates == RelateFails \/ RelateMoves \/ RelateRecords

\* A commit and one that raises, in one.
Finishes == Commit \/ CommitRaises

\* What both leave.
LEMMA FinishesEffect ==
  ASSUME NormInv, Finishes
  PROVE  /\ stage \in Batches /\ stage' = stage /\ todo = {} /\ todo' = {} /\ ~done /\ done' = TRUE
         /\ tx' = db' /\ moved'.tx = moved'.db /\ moved'.disk = moved.disk /\ broken' = broken
         /\ moved' \in [disk : SUBSET Manual, tx : SUBSET Manual, db : SUBSET Manual]
         /\ moving' = moving /\ disk' = disk /\ plan' = plan /\ died' = died /\ quiet' = quiet
         /\ \/ /\ db' = tx /\ moved'.db = moved.tx /\ raised' = raised /\ codes' = codes /\ ~broken
            \/ /\ db' = db /\ raised' = raised /\ codes' = codes /\ broken
            \/ /\ db' = db /\ raised' = raised \cup {stage} /\ DOMAIN codes' = {} /\ ~broken
         /\ stage = "remove" /\ db' # db => ~Half
         /\ raised \subseteq raised'
PROOF
  <1>m. moved \in [disk : SUBSET Manual, tx : SUBSET Manual, db : SUBSET Manual]
    BY DEF NormInv, Types
  <1>1. CASE Commit
    <2>1. /\ stage \in Batches /\ stage' = stage /\ todo = {} /\ todo' = {} /\ ~done /\ done' = TRUE
          /\ tx' = db' /\ broken' = broken /\ moving' = moving /\ disk' = disk /\ plan' = plan
          /\ codes' = codes /\ quiet' = quiet /\ died' = died /\ raised' = raised
      BY <1>1 DEF Commit, BatchOver, faults
    <2>2. ~broken => db' = tx /\ moved' = [moved EXCEPT !.db = moved.tx]
      BY <1>1 DEF Commit
    <2>3. broken => db' = db /\ moved' = moved /\ stage = "normalize"
      BY <1>1 DEF Commit, NormInv, Control
    <2>4. stage = "remove" => ~Half
      BY <1>1 DEF Commit, BatchOver, Half
    <2>5. CASE broken
      <3>1. moved.tx = moved.db
        BY <2>3, <2>5 DEF NormInv, Control
      <3> QED BY <1>m, <2>1, <2>3, <2>4, <2>5, <3>1
    <2>6. CASE ~broken
      <3>1. /\ moved'.db = moved.tx /\ moved'.tx = moved.tx /\ moved'.disk = moved.disk
            /\ moved' \in [disk : SUBSET Manual, tx : SUBSET Manual, db : SUBSET Manual]
        BY <1>m, <2>2, <2>6
      <3> QED BY <2>1, <2>2, <2>4, <2>6, <3>1
    <2> QED BY <2>5, <2>6
  <1>2. CASE CommitRaises
    <2>1. /\ stage \in Batches /\ stage' = stage /\ todo = {} /\ todo' = {} /\ ~done /\ done' = TRUE
          /\ tx' = db' /\ db' = db /\ broken' = broken /\ moving' = moving /\ disk' = disk /\ plan' = plan
          /\ codes' = <<>> /\ quiet' = quiet /\ died' = died /\ raised' = raised \cup {stage} /\ ~broken
          /\ moved' = [moved EXCEPT !.tx = moved.db]
      BY <1>2 DEF CommitRaises, BatchOver
    <2>2. /\ moved'.db = moved.db /\ moved'.tx = moved.db /\ moved'.disk = moved.disk
          /\ moved' \in [disk : SUBSET Manual, tx : SUBSET Manual, db : SUBSET Manual]
      BY <1>m, <2>1
    <2>3. DOMAIN codes' = {}
      BY <2>1
    <2> QED BY <2>1, <2>2, <2>3
  <1> QED BY <1>1, <1>2 DEF Finishes

\* A file normalized by hand is moved, or its task ends.
RelateMoved(f) ==
  todo' = todo /\ codes' = codes /\ tx' = tx /\ moving' = {f} /\ f \in moved'.disk

RelateEnded(f) ==
  /\ todo' = todo \ {f} /\ moving' = {}
  /\ DOMAIN codes' = DOMAIN codes \cup {f} /\ \A u \in DOMAIN codes : u # f => codes'[u] = codes[u]
  /\ tx' = tx \/ (tx.events[f] = 0 /\ tx' = InsertDerivationEvent(tx, f, ManualFile(f)))
  /\ codes'[f] = 0 => tx'.events[f] > 0 /\ f \in moved'.tx \cap moved'.disk

\* What its steps have in common.
LEMMA RelatesEffect ==
  ASSUME NormInv, Relates
  PROVE  /\ stage = "relate" /\ stage' = stage /\ db' = db /\ disk' = disk /\ raised' = raised
         /\ died' = died /\ done' = done /\ ~done /\ broken' = broken /\ plan' = plan /\ mode' = mode
         /\ round' = round /\ odd' \in 0..MaxOdd
         /\ moved' \in [disk : SUBSET Manual, tx : SUBSET Manual, db : SUBSET Manual]
         /\ moved.disk \subseteq moved'.disk /\ moved.tx \subseteq moved'.tx
         /\ \E f \in todo : f \in Manual /\ (RelateMoved(f) \/ RelateEnded(f))
PROOF
  <1>1. Types /\ Control /\ Sound(tx) /\ stage = "relate"
    BY DEF NormInv, Data, Half, Removing, Sound, Relates, RelateFails, RelateMoves, RelateRecords
  <1>m. moved \in [disk : SUBSET Manual, tx : SUBSET Manual, db : SUBSET Manual] /\ odd \in 0..MaxOdd
    BY <1>1 DEF Types
  <1>t. todo \subseteq Manual /\ moving \subseteq todo \cap moved.disk /\ (todo # {} => ~done)
    BY <1>1 DEF Control
  <1>2. CASE RelateFails
    <2>1. PICK f \in todo : /\ RelateEnds(f, 2)
                            /\ \/ f \in moved.disk /\ odd' = odd
                               \/ odd < MaxOdd /\ odd' = odd + 1
      BY <1>2 DEF RelateFails
    <2>2. odd' \in 0..MaxOdd
      BY <1>m, <2>1, NormalizationAssumption
    <2>3. stage' = stage /\ db' = db /\ disk' = disk /\ raised' = raised /\ died' = died /\ done' = done
          /\ broken' = broken /\ plan' = plan /\ mode' = mode /\ round' = round /\ tx' = tx
          /\ moved' = moved /\ moving' = moving /\ moving = {}
      BY <1>2 DEF RelateFails, faults, relating
    <2>4. /\ todo' = todo \ {f} /\ DOMAIN codes' = DOMAIN codes \cup {f} /\ codes'[f] = 2
          /\ \A u \in DOMAIN codes : u # f => codes'[u] = codes[u]
      BY <2>1 DEF RelateEnds
    <2>5. RelateEnded(f)
      BY <2>3, <2>4 DEF RelateEnded
    <2> QED BY <1>1, <1>m, <1>t, <2>2, <2>3, <2>5
  <1>3. CASE RelateMoves
    <2>1. PICK f \in todo \ moved.disk :
            moving' = {f} /\ moved' = [moved EXCEPT !.disk = moved.disk \cup {f}]
      BY <1>3 DEF RelateMoves
    <2>2. stage' = stage /\ db' = db /\ disk' = disk /\ raised' = raised /\ died' = died /\ done' = done
          /\ broken' = broken /\ plan' = plan /\ mode' = mode /\ round' = round /\ tx' = tx
          /\ todo' = todo /\ codes' = codes /\ odd' = odd
      BY <1>3 DEF RelateMoves, faults
    <2>3. /\ moved'.disk = moved.disk \cup {f} /\ moved'.tx = moved.tx
          /\ moved' \in [disk : SUBSET Manual, tx : SUBSET Manual, db : SUBSET Manual]
      BY <1>m, <1>t, <2>1
    <2>4. RelateMoved(f)
      BY <2>1, <2>2, <2>3 DEF RelateMoved
    <2> QED BY <1>1, <1>m, <1>t, <2>2, <2>3, <2>4
  <1>4. CASE RelateRecords
    <2>1. PICK f \in moving :
            /\ RelateEnds(f, IF tx.events[f] > 1 THEN 1 ELSE 0)
            /\ tx' = IF tx.events[f] = 0 THEN InsertDerivationEvent(tx, f, ManualFile(f)) ELSE tx
            /\ moved' = [moved EXCEPT !.tx = moved.tx \cup {f}]
      BY <1>4 DEF RelateRecords
    <2>2. stage' = stage /\ db' = db /\ disk' = disk /\ raised' = raised /\ died' = died /\ done' = done
          /\ broken' = broken /\ plan' = plan /\ mode' = mode /\ round' = round /\ odd' = odd
          /\ moving' = {}
      BY <1>4 DEF RelateRecords, faults
    <2>3. f \in todo /\ f \in Manual /\ f \in moved.disk /\ f \in Originals
      BY <1>t, NormalizationAssumption
    <2>4. /\ moved'.tx = moved.tx \cup {f} /\ moved'.disk = moved.disk
          /\ moved' \in [disk : SUBSET Manual, tx : SUBSET Manual, db : SUBSET Manual]
      BY <1>m, <2>1, <2>3
    <2>5. /\ todo' = todo \ {f} /\ DOMAIN codes' = DOMAIN codes \cup {f}
          /\ \A u \in DOMAIN codes : u # f => codes'[u] = codes[u]
      BY <2>1 DEF RelateEnds
    <2>6. tx.events[f] \in Nat
      BY <1>1, <2>3 DEF Sound, Firm, Shaped
    <2>7. tx'.events[f] > 0
      <3>1. CASE tx.events[f] = 0
        BY <1>1, <2>1, <2>3, <3>1, InsertParts DEF Sound, Firm, Shaped
      <3>2. CASE tx.events[f] # 0
        BY <2>1, <2>6, <3>2
      <3> QED BY <3>1, <3>2
    <2>8. RelateEnded(f)
      BY <2>1, <2>2, <2>3, <2>4, <2>5, <2>7 DEF RelateEnded
    <2> QED BY <1>1, <1>m, <1>t, <2>2, <2>3, <2>4, <2>8
  <1> QED BY <1>2, <1>3, <1>4 DEF Relates

\* The removal of one file.
LEMMA RemoveFileEffect ==
  ASSUME NormInv, RemoveFile
  PROVE  /\ Half /\ stage = "remove" /\ stage' = stage /\ done' = done /\ plan' = plan /\ mode' = mode
         /\ round' = round /\ codes' = codes /\ db' = db /\ broken' = broken /\ moving' = moving
         /\ moved' = moved /\ raised' = raised /\ died' = died /\ odd' \in 0..MaxOdd
         /\ Firm(tx') /\ Live(tx') = todo' /\ DOMAIN tx'.rows = DOMAIN tx.rows
         /\ tx'.links = tx.links /\ tx'.events = tx.events
         /\ \A q \in DOMAIN tx.rows : tx'.rows[q].use = tx.rows[q].use
PROOF
  <1>0. PICK r \in todo :
          /\ todo' = todo \ {r} /\ tx' = [tx EXCEPT !.rows[r].removed = TRUE]
          /\ odd' = odd \/ (odd < MaxOdd /\ odd' = odd + 1)
    BY DEF RemoveFile
  <1>1. /\ stage = "remove" /\ ~done /\ stage' = stage /\ done' = done /\ plan' = plan /\ mode' = mode
        /\ round' = round /\ codes' = codes /\ db' = db /\ broken' = broken /\ moving' = moving
        /\ moved' = moved /\ raised' = raised /\ died' = died
    BY DEF RemoveFile, relating, faults
  <1>2. Half /\ Firm(tx) /\ Live(tx) = todo
    BY <1>0, <1>1 DEF NormInv, Control, Data, Removing
  <1>3. odd' \in 0..MaxOdd
    BY <1>0, NormalizationAssumption DEF NormInv, Types
  <1>4. /\ Firm(tx') /\ Live(tx') = Live(tx) \ {r} /\ DOMAIN tx'.rows = DOMAIN tx.rows
        /\ tx'.links = tx.links /\ tx'.events = tx.events
        /\ \A q \in DOMAIN tx.rows : tx'.rows[q].use = tx.rows[q].use
    BY <1>0, <1>2, RemoveFileFirm
  <1> QED BY <1>0, <1>1, <1>2, <1>3, <1>4

\* The rest of the removal.
LEMMA RemoveRestEffect ==
  ASSUME NormInv, RemoveRest
  PROVE  /\ Removing /\ stage' = stage /\ done' = done /\ plan' = plan /\ mode' = mode /\ round' = round
         /\ db' = db /\ disk' = disk /\ broken' = broken /\ moving' = moving /\ moved' = moved
         /\ raised' = raised /\ died' = died /\ odd' = odd /\ todo = {} /\ todo' = {}
         /\ Sound(tx') /\ OneByHand(tx') /\ Live(tx') = {} /\ DOMAIN tx'.rows = DOMAIN tx.rows
         /\ \A f \in Manual : tx'.events[f] = 0
PROOF
  <1>1. /\ stage = "remove" /\ ~done /\ stage' = stage /\ done' = done /\ plan' = plan /\ mode' = mode
        /\ round' = round /\ db' = db /\ disk' = disk /\ broken' = broken /\ moving' = moving
        /\ moved' = moved /\ raised' = raised /\ died' = died /\ odd' = odd /\ todo = {} /\ todo' = todo
        /\ tx' = RemoveLinks(tx)
    BY DEF RemoveRest, relating, faults
  <1>2. Removing /\ Firm(tx) /\ Live(tx) = {}
    BY <1>1 DEF NormInv, Data, Removing
  <1>3. Sound(tx') /\ OneByHand(tx') /\ tx'.rows = tx.rows /\ \A f \in Originals : tx'.events[f] = 0
    BY <1>1, <1>2, RemoveSound
  <1>4. Live(tx') = {}
    BY <1>2, <1>3 DEF Live
  <1> QED BY <1>1, <1>2, <1>3, <1>4, NormalizationAssumption

\* The cases of a step.
LEMMA StepCases ==
  ASSUME [Next]_vars
  PROVE  Tasks \/ Begins \/ Finishes \/ RemoveFile \/ RemoveRest \/ Relates \/ UNCHANGED vars
PROOF BY DEF Next, Works, Over, Tasks, Begins, Finishes, Relates

\* Types and Control are inductive.
LEMMA ControlStep ==
  ASSUME NormInv, [Next]_vars
  PROVE  Types' /\ Control'
PROOF
  <1>1. Types /\ Control
    BY DEF NormInv
  <1>m. moved \in [disk : SUBSET Manual, tx : SUBSET Manual, db : SUBSET Manual]
    BY <1>1 DEF Types
  <1>2. CASE Tasks
    <2>1. PICK f \in todo, n \in Nat : \E r : Running /\ Ends(f, r, n) /\ Does(f, r)
      BY <1>2, TaskEffect
    <2>2. PICK r : Running /\ Ends(f, r, n) /\ Does(f, r)
      BY <2>1
    <2>3. /\ todo' = todo \ {f} /\ DOMAIN codes' = DOMAIN codes \cup {f} /\ tx' = r.db /\ odd' = odd + n
          /\ odd + n <= MaxOdd /\ stage' = stage /\ plan' = plan /\ round' = round /\ db' = db
          /\ done' = done /\ mode' = mode /\ moving' = moving /\ moved' = moved
      BY <2>2 DEF Ends, relating
    <2>4. broken' \in BOOLEAN
      BY <1>1, <2>2, Zenon DEF Ends, Types, Does
    <2>5. stage = "normalize" /\ ~done /\ moving = {}
      BY <1>1, <2>2 DEF Running, Control
    <2>6. odd' \in 0..MaxOdd
      BY <1>1, <2>3, NormalizationAssumption DEF Types
    <2>7. Types'
      BY <1>1, <2>3, <2>4, <2>6 DEF Types
    <2>8. DOMAIN db'.rows \subseteq DOMAIN tx'.rows
      BY <1>1, <2>2, <2>3 DEF TaskDoes, Control, Does
    <2>9. todo' \cap DOMAIN codes' = {}
      BY <1>1, <2>3, <2>5 DEF Control
    <2> QED BY <1>1, <2>3, <2>5, <2>7, <2>8, <2>9 DEF Control, Half, Removing, Batches
  <1>3. CASE Begins
    <2>1. /\ db' = db /\ tx' = db /\ disk' = disk /\ mode' \in Modes
          /\ broken' = FALSE /\ done' = FALSE /\ DOMAIN codes' = {} /\ plan' \in AllPlans
          /\ moving' = {} /\ moved' = [moved EXCEPT !.tx = moved.db]
          /\ round' \in 0..MaxRounds /\ odd' \in 0..MaxOdd
      BY <1>3, BeginsEffect
    <2>2. \/ stage' = "normalize" /\ todo' = Originals /\ plan' # <<>>
          \/ stage' = "remove" /\ todo' = Live(db)
          \/ stage' = "relate" /\ todo' = Manual
          \/ stage' \in Stages \ Batches /\ todo' = {}
      BY <1>3, BeginsEffect
    <2>3. /\ moved'.tx = moved'.db
          /\ moved' \in [disk : SUBSET Manual, tx : SUBSET Manual, db : SUBSET Manual]
      BY <1>m, <2>1
    <2>4. broken' \in BOOLEAN /\ done' \in BOOLEAN
      BY <2>1, Zenon
    <2>5. Types'
      BY <2>1, <2>2, <2>3, <2>4, NormalizationAssumption DEF Types, Stages, Batches
    <2>6. stage' = "remove" => Half'
      BY <2>1 DEF Half, Removing
    <2> QED BY <2>1, <2>2, <2>3, <2>5, <2>6 DEF Control, Batches
  <1>4. CASE Finishes
    <2>1. /\ stage \in Batches /\ stage' = stage /\ todo' = {} /\ todo = {} /\ done' = TRUE
          /\ tx' = db' /\ moved'.tx = moved'.db /\ broken' = broken
          /\ moved' \in [disk : SUBSET Manual, tx : SUBSET Manual, db : SUBSET Manual]
          /\ moving' = moving /\ plan' = plan
      BY <1>4, FinishesEffect
    <2>2. round' = round /\ mode' = mode /\ odd' \in 0..MaxOdd
      BY <1>1, <1>4, NormalizationAssumption DEF Finishes, Commit, CommitRaises, Types
    <2>3. Types'
      BY <1>1, <2>1, <2>2, Zenon DEF Types
    <2>4. moving' = {}
      BY <1>1, <2>1 DEF Control
    <2> QED BY <1>1, <2>1, <2>3, <2>4 DEF Control
  <1>5. CASE RemoveFile
    <2>1. /\ Half /\ stage = "remove" /\ stage' = stage /\ done' = done /\ plan' = plan /\ mode' = mode
          /\ round' = round /\ codes' = codes /\ db' = db /\ broken' = broken /\ moving' = moving
          /\ moved' = moved /\ odd' \in 0..MaxOdd /\ DOMAIN tx'.rows = DOMAIN tx.rows
      BY <1>5, RemoveFileEffect
    <2>2. Types'
      BY <1>1, <2>1 DEF Types
    <2>3. moving = {} /\ ~done /\ Half'
      BY <1>1, <2>1 DEF Control, Half, Removing
    <2> QED BY <1>1, <2>1, <2>2, <2>3 DEF Control, Batches
  <1>6. CASE RemoveRest
    <2>1. /\ Removing /\ stage' = stage /\ done' = done /\ plan' = plan /\ mode' = mode /\ round' = round
          /\ db' = db /\ broken' = broken /\ moving' = moving /\ moved' = moved /\ odd' = odd
          /\ todo = {} /\ todo' = {} /\ DOMAIN tx'.rows = DOMAIN tx.rows
      BY <1>6, RemoveRestEffect
    <2>2. Types'
      BY <1>1, <2>1 DEF Types
    <2> QED BY <1>1, <2>1, <2>2 DEF Control, Batches, Removing
  <1>7. CASE Relates
    <2>1. /\ stage = "relate" /\ stage' = stage /\ db' = db /\ done' = done /\ ~done /\ broken' = broken
          /\ plan' = plan /\ mode' = mode /\ round' = round /\ odd' \in 0..MaxOdd
          /\ moved' \in [disk : SUBSET Manual, tx : SUBSET Manual, db : SUBSET Manual]
          /\ moved.disk \subseteq moved'.disk
      BY <1>7, RelatesEffect
    <2>2. PICK f \in todo : f \in Manual /\ (RelateMoved(f) \/ RelateEnded(f))
      BY <1>7, RelatesEffect
    <2>3. f \in Originals /\ Shaped(tx)
      BY <2>2, NormalizationAssumption DEF NormInv, Data, Firm
    <2>4. tx'.rows = tx.rows
      BY <2>2, <2>3, InsertParts DEF RelateMoved, RelateEnded, Shaped
    <2>5. /\ todo' \subseteq todo /\ todo' \cap DOMAIN codes' = {}
          /\ moving' \subseteq todo' \cap moved'.disk
      BY <1>1, <2>1, <2>2 DEF Control, RelateMoved, RelateEnded
    <2>6. Types'
      BY <1>1, <2>1, <2>5 DEF Types
    <2> QED BY <1>1, <2>1, <2>4, <2>5, <2>6 DEF Control, Batches
  <1>8. CASE UNCHANGED vars
    BY <1>1, <1>8 DEF vars, relating, Types, Control, Half, Removing
  <1> QED BY <1>2, <1>3, <1>4, <1>5, <1>6, <1>7, <1>8, StepCases

\* The database stays sound, and live files on disk.
LEMMA DataStep ==
  ASSUME NormInv, [Next]_vars
  PROVE  Data'
PROOF
  <1>1. Data /\ Types /\ Control
    BY DEF NormInv
  <1>2. CASE Tasks
    <2>1. PICK f \in todo, n \in Nat : \E r : Running /\ Ends(f, r, n) /\ Does(f, r)
      BY <1>2, TaskEffect
    <2>2. PICK r : Running /\ Ends(f, r, n) /\ Does(f, r)
      BY <2>1
    <2>3. tx' = r.db /\ db' = db /\ disk' = disk \cup r.made /\ stage' = stage /\ raised' = raised
      BY <2>2 DEF Ends, faults
    <2>4. ~Removing /\ ~Removing' /\ ~Half'
      BY <2>2, <2>3 DEF Running, Removing, Half
    <2>5. Sound(r.db) /\ \A S : LiveIn(tx, S) => LiveIn(r.db, S \cup r.made)
      BY <2>2 DEF Does, TaskDoes
    <2>6. LiveIn(db, disk) => LiveIn(db, disk \cup r.made)
      BY LiveInMore
    <2>7. Sound(db)' /\ Firm(tx)' /\ Leading(tx)'
      BY <1>1, <2>3, <2>5 DEF Data, Sound
    <2>8. "remove" \in raised' \/ (LiveIn(db, disk)' /\ LiveIn(tx, disk)')
      BY <1>1, <2>3, <2>4, <2>5, <2>6 DEF Data
    <2> QED BY <2>4, <2>7, <2>8 DEF Data
  <1>3. CASE Begins
    <2>1. db' = db /\ tx' = db /\ disk' = disk /\ raised' = raised /\ (Removing => stage' = "remove")
          /\ done' = FALSE
      BY <1>3, BeginsEffect
    <2>2. stage' = "remove" => todo' = Live(db)
      BY <1>3, BeginsEffect DEF Batches
    <2>3. Sound(db)' /\ Firm(tx)' /\ Leading(tx)'
      BY <1>1, <2>1 DEF Data, Sound
    <2>4. Removing' => Live(tx)' = todo'
      BY <2>1, <2>2 DEF Removing, Live
    <2>5. Removing' \/ "remove" \in raised' \/ (LiveIn(db, disk)' /\ LiveIn(tx, disk)')
      <3>1. Removing => Removing'
        BY <2>1 DEF Removing
      <3> QED BY <1>1, <2>1, <3>1 DEF Data
    <2> QED BY <2>3, <2>4, <2>5 DEF Data
  <1>4. CASE Finishes
    <2>1. /\ stage' = stage /\ todo = {} /\ done' = TRUE /\ tx' = db' /\ disk' = disk /\ ~done
          /\ raised \subseteq raised' /\ (db' = tx \/ db' = db)
          /\ (stage = "remove" /\ db' # db => ~Half)
      BY <1>4, FinishesEffect
    <2>2. Sound(db')
      BY <1>1, <2>1 DEF Data, Sound, Half, Removing
    <2>3. ~Removing' /\ ~Half'
      BY <2>1 DEF Removing, Half
    <2>4. "remove" \in raised' \/ LiveIn(db', disk')
      <3>1. CASE stage = "remove"
        <4>1. Live(tx) = {}
          BY <1>1, <2>1, <3>1 DEF Data, Removing
        <4>2. LiveIn(tx, disk)
          BY <4>1 DEF Live, LiveIn
        <4>3. broken = FALSE
          BY <1>1, <3>1 DEF Control, Types
        <4>4. db' = tx \/ "remove" \in raised'
          BY <1>4, <3>1, <4>3, FinishesEffect
        <4> QED BY <2>1, <4>2, <4>4
      <3>2. CASE stage # "remove"
        BY <1>1, <2>1, <3>2 DEF Data, Removing
      <3> QED BY <3>1, <3>2
    <2>5. Sound(db)' /\ Firm(tx)' /\ Leading(tx)'
      BY <2>1, <2>2 DEF Sound
    <2>6. "remove" \in raised' \/ (LiveIn(db, disk)' /\ LiveIn(tx, disk)')
      BY <2>1, <2>4
    <2> QED BY <2>3, <2>5, <2>6 DEF Data
  <1>5. CASE RemoveFile
    <2>1. Half /\ stage' = stage /\ done' = done /\ codes' = codes /\ db' = db
          /\ Firm(tx') /\ Live(tx') = todo'
      BY <1>5, RemoveFileEffect
    <2>2. Half' /\ Removing'
      BY <2>1 DEF Half, Removing
    <2>3. Sound(db)' /\ Firm(tx)'
      BY <1>1, <2>1 DEF Data
    <2>4. Live(tx)' = todo'
      BY <2>1 DEF Live
    <2> QED BY <2>2, <2>3, <2>4 DEF Data
  <1>6. CASE RemoveRest
    <2>1. Removing /\ stage' = stage /\ done' = done /\ db' = db /\ todo' = {}
          /\ Sound(tx') /\ Live(tx') = {}
      BY <1>6, RemoveRestEffect
    <2>2. Removing'
      BY <2>1 DEF Removing
    <2>3. Sound(db)' /\ Firm(tx)' /\ Leading(tx)'
      BY <1>1, <2>1 DEF Data, Sound
    <2>4. Live(tx)' = todo'
      BY <2>1 DEF Live
    <2> QED BY <2>2, <2>3, <2>4 DEF Data
  <1>7. CASE Relates
    <2>1. stage = "relate" /\ stage' = stage /\ db' = db /\ disk' = disk /\ raised' = raised
      BY <1>7, RelatesEffect
    <2>2. PICK f \in todo : f \in Manual /\ (RelateMoved(f) \/ RelateEnded(f))
      BY <1>7, RelatesEffect
    <2>3. ~Removing /\ ~Removing' /\ ~Half /\ ~Half' /\ Sound(tx)
      BY <1>1, <2>1 DEF Data, Removing, Half, Sound
    <2>4. tx' = tx \/ tx' = InsertDerivationEvent(tx, f, ManualFile(f))
      BY <2>2 DEF RelateMoved, RelateEnded
    <2>5. Sound(tx') /\ tx'.rows = tx.rows
      BY <2>2, <2>3, <2>4, InsertManualSound, InsertParts, NormalizationAssumption DEF Sound, Firm, Shaped
    <2>6. LiveIn(tx, disk) => LiveIn(tx', disk)
      BY <2>5 DEF LiveIn
    <2>7. Sound(db)' /\ Firm(tx)' /\ Leading(tx)'
      BY <1>1, <2>1, <2>5 DEF Data, Sound
    <2>8. "remove" \in raised' \/ (LiveIn(db, disk)' /\ LiveIn(tx, disk)')
      BY <1>1, <2>1, <2>3, <2>6 DEF Data
    <2> QED BY <2>3, <2>7, <2>8 DEF Data
  <1>8. CASE UNCHANGED vars
    BY <1>1, <1>8 DEF vars, faults, Data, Half, Removing, Live
  <1> QED BY <1>2, <1>3, <1>4, <1>5, <1>6, <1>7, <1>8, StepCases

\* Exit code 0 goes on to mean that the derivative is in the transaction: a
\* task removes only derivations of its own file.
LEMMA SucceededStep ==
  ASSUME NormInv, [Next]_vars
  PROVE  Succeeded'
PROOF
  <1>1. Types /\ Control /\ Succeeded
    BY DEF NormInv
  <1>2. CASE Tasks
    <2>1. PICK f \in todo, n \in Nat : \E r : Running /\ Ends(f, r, n) /\ Does(f, r)
      BY <1>2, TaskEffect
    <2>2. PICK r : Running /\ Ends(f, r, n) /\ Does(f, r)
      BY <2>1
    <2> DEFINE d == r.db
    <2>3. /\ tx' = d /\ plan' = plan /\ stage' = stage /\ broken' = (broken \/ r.breaks)
          /\ DOMAIN codes' = DOMAIN codes \cup {f} /\ codes'[f] = r.code
          /\ \A u \in DOMAIN codes : u # f => codes'[u] = codes[u]
      BY <2>2 DEF Ends
    <2>q. quiet \subseteq quiet' /\ (r.quiet => f \in quiet')
      BY <2>2 DEF Ends
    <2>d. TaskDoes(f, r.code, d, r.made, r.breaks, r.quiet)
      BY <2>2 DEF Does
    <2> HIDE DEF d
    <2> SUFFICES ASSUME stage = "normalize", ~broken, ~r.breaks,
                        NEW g \in DOMAIN codes' \ quiet', codes'[g] = 0
                 PROVE  \E l \in d.links : l.of = g
                          /\ d.rows[l.to].use \in {Head(plan), "manualNormalization"}
      BY <2>3 DEF Succeeded
    <2>4. CASE g = f
      BY <2>d, <2>q, <2>3, <2>4 DEF TaskDoes
    <2>5. CASE g # f
      <3>1. PICK l \in tx.links : l.of = g /\ tx.rows[l.to].use \in {Head(plan), "manualNormalization"}
        BY <1>1, <2>3, <2>q, <2>5 DEF Succeeded
      <3> QED BY <2>d, <2>5, <3>1 DEF TaskDoes
    <2> QED BY <2>4, <2>5
  <1>3. CASE Begins
    <2>1. DOMAIN codes' = {}
      BY <1>3, BeginsEffect
    <2> QED BY <2>1 DEF Succeeded
  <1>4. CASE Finishes
    <2>1. /\ tx' = db' /\ plan' = plan /\ stage' = stage /\ broken' = broken /\ quiet' = quiet
          /\ \/ db' = tx /\ codes' = codes
             \/ broken
             \/ DOMAIN codes' = {}
      BY <1>4, FinishesEffect
    <2> QED BY <1>1, <2>1 DEF Succeeded
  <1>5. CASE RemoveFile \/ RemoveRest \/ Relates
    <2>1. stage' # "normalize"
      BY <1>5, RemoveFileEffect, RemoveRestEffect, RelatesEffect DEF Removing
    <2> QED BY <2>1 DEF Succeeded
  <1>6. CASE UNCHANGED vars
    BY <1>1, <1>6 DEF vars, Succeeded
  <1> QED BY <1>2, <1>3, <1>4, <1>5, <1>6, StepCases

\* Files normalized by hand get related one by one.
LEMMA JoinedStep ==
  ASSUME NormInv, [Next]_vars
  PROVE  Joined'
PROOF
  <1>1. Types /\ Control /\ Joined /\ Firm(tx)
    BY DEF NormInv, Data
  <1>2. CASE Tasks
    <2>1. stage' = "normalize"
      BY <1>2, TaskEffect DEF Ends, Running
    <2> QED BY <2>1 DEF Joined
  <1>3. CASE Begins
    <2>1. /\ db' = db /\ raised' = raised /\ DOMAIN codes' = {}
          /\ moved' = [moved EXCEPT !.tx = moved.db]
          /\ stage' = "relate" => todo' = Manual
      BY <1>3, BeginsEffect DEF Batches, Stages
    <2>2. moved'.db = moved.db /\ moved'.disk = moved.disk
      BY <1>1, <2>1 DEF Types
    <2>3. ASSUME stage' = "approved", "relate" \notin raised', NEW f \in Manual
          PROVE  db'.events[f] > 0 /\ f \in moved'.db \cap moved'.disk
      <3>1. Related
        BY <1>3, <2>3 DEF Begins, Choose, Answer, Redo, Approve, Die, Begin, Batch, Batches
      <3>2. stage = "relate" /\ done /\ ~(\E g \in DOMAIN codes : codes[g] # 0)
        BY <2>3, <3>1 DEF Related, Batch
      <3>3. todo = {} /\ tx = db /\ moved.tx = moved.db
        BY <1>1, <3>2 DEF Control
      <3>4. f \in DOMAIN codes /\ codes[f] = 0
        BY <1>1, <2>1, <2>3, <3>2, <3>3 DEF Joined
      <3> QED BY <1>1, <2>1, <2>2, <3>2, <3>3, <3>4 DEF Joined
    <2> QED BY <2>1, <2>3 DEF Joined
  <1>4. CASE Finishes
    <2>1. /\ stage' = stage /\ stage \in Batches /\ tx' = db' /\ todo' = todo /\ moved'.disk = moved.disk
          /\ moved'.tx = moved'.db
          /\ \/ db' = tx /\ moved'.db = moved.tx /\ raised' = raised /\ codes' = codes
             \/ broken
             \/ raised' = raised \cup {stage} /\ DOMAIN codes' = {}
      BY <1>4, FinishesEffect
    <2>2. stage = "relate" => ~broken
      BY <1>1 DEF Control
    <2> QED BY <1>1, <2>1, <2>2 DEF Joined, Batches
  <1>5. CASE RemoveFile \/ RemoveRest
    <2>1. stage' = "remove"
      BY <1>5, RemoveFileEffect, RemoveRestEffect DEF Removing
    <2> QED BY <2>1 DEF Joined
  <1>6. CASE Relates
    <2>1. /\ stage = "relate" /\ stage' = stage /\ raised' = raised
          /\ moved.disk \subseteq moved'.disk /\ moved.tx \subseteq moved'.tx
      BY <1>6, RelatesEffect
    <2>2. PICK f \in todo : f \in Manual /\ (RelateMoved(f) \/ RelateEnded(f))
      BY <1>6, RelatesEffect
    <2>3. todo \cap DOMAIN codes = {} /\ f \in Originals /\ todo \subseteq Manual
      BY <1>1, <2>1, <2>2, NormalizationAssumption DEF Control
    <2>4. CASE RelateMoved(f)
      BY <1>1, <2>1, <2>4 DEF Joined, RelateMoved
    <2>5. CASE RelateEnded(f)
      <3>1. "relate" \in raised' \/ DOMAIN codes' = Manual \ todo'
        BY <1>1, <2>1, <2>2, <2>3, <2>5 DEF Joined, RelateEnded
      <3>2. ASSUME NEW g \in DOMAIN codes', codes'[g] = 0
            PROVE  tx'.events[g] > 0 /\ g \in moved'.tx \cap moved'.disk
        <4>1. CASE g = f
          BY <2>5, <3>2, <4>1 DEF RelateEnded
        <4>2. CASE g # f
          <5>1. g \in DOMAIN codes /\ codes[g] = 0
            BY <2>5, <3>2, <4>2 DEF RelateEnded
          <5>2. tx.events[g] > 0 /\ g \in moved.tx \cap moved.disk
            BY <1>1, <2>1, <5>1 DEF Joined
          <5>3. tx'.events[g] > 0
            <6>1. CASE tx' = tx
              BY <5>2, <6>1
            <6>2. CASE tx' = InsertDerivationEvent(tx, f, ManualFile(f))
              <7>1. Linked(tx', tx, f, ManualFile(f), tx.events[f] + 1)
                BY <1>1, <2>3, <6>2, InsertParts DEF Firm, Shaped
              <7>2. g \in Originals => tx'.events[g] = tx.events[g]
                BY <4>2, <7>1 DEF Linked
              <7>3. g \in Originals
                BY <1>1, <5>2, NormalizationAssumption DEF Types
              <7> QED BY <5>2, <7>2, <7>3
            <6> QED BY <2>5, <6>1, <6>2 DEF RelateEnded
          <5> QED BY <2>1, <5>2, <5>3
        <4> QED BY <4>1, <4>2
      <3> QED BY <2>1, <3>1, <3>2 DEF Joined
    <2> QED BY <2>2, <2>4, <2>5
  <1>7. CASE UNCHANGED vars
    BY <1>1, <1>7 DEF vars, relating, faults, Joined
  <1> QED BY <1>2, <1>3, <1>4, <1>5, <1>6, <1>7, StepCases

\* At most one derivation by hand, as long as no committed batch of
\* normalization runs again and no removal is rolled back.
LEMMA OnceStep ==
  ASSUME NormInv, OnceInv, [Next]_vars
  PROVE  OnceInv'
PROOF
  <1>1. Types /\ Control /\ Data
    BY DEF NormInv
  <1>p. plan \in AllPlans /\ (stage = "normalize" => plan # <<>>)
    BY <1>1 DEF Types, Control
  <1>2. CASE Tasks
    <2>1. PICK f \in todo, n \in Nat : \E r : Running /\ Ends(f, r, n) /\ Does(f, r)
      BY <1>2, TaskEffect
    <2>2. PICK r : Running /\ Ends(f, r, n) /\ Does(f, r)
      BY <2>1
    <2> DEFINE d == r.db
    <2>3. /\ tx' = d /\ plan' = plan /\ stage' = stage /\ db' = db /\ done' = done
          /\ todo' = todo \ {f} /\ stage = "normalize" /\ ~done /\ died' = died /\ raised' = raised
      BY <2>2 DEF Ends, Running, faults
    <2>d. TaskDoes(f, r.code, d, r.made, r.breaks, r.quiet)
      BY <2>2 DEF Does
    <2> HIDE DEF d
    <2> SUFFICES ASSUME ~Excused PROVE OneByHand(db)' /\ OneByHand(tx)' /\ NotYet'
      BY <2>3 DEF OnceInv, Excused
    <2>i. OneByHand(db) /\ OneByHand(tx) /\ NotYet
      BY DEF OnceInv
    <2>4. f \in Manual /\ Head(plan) = "preservation" => tx.events[f] = 0
      BY <1>p, <2>i, <2>3, PlanRest DEF NotYet
    <2>5. OneByHand(d)
      BY <2>i, <2>d, <2>4 DEF TaskDoes
    <2>6. NotYet'
      <3>1. \A g \in Manual : g # f \/ Head(plan) # "preservation" => d.events[g] = tx.events[g]
        BY <2>d DEF TaskDoes
      <3> QED BY <2>i, <2>3, <3>1 DEF NotYet
    <2>7. OneByHand(db)' /\ OneByHand(tx)'
      BY <2>i, <2>3, <2>5
    <2> QED BY <2>6, <2>7
  <1>3. CASE Begins
    <2>1. db' = db /\ tx' = db /\ raised' = raised /\ done' = FALSE /\ DOMAIN codes' = {}
      BY <1>3, BeginsEffect
    <2>2. died \subseteq died'
      BY <1>3 DEF Begins, Choose, Answer, Redo, Approve, Related, Die, faults
    <2> SUFFICES ASSUME ~Excused' PROVE OneByHand(db)' /\ OneByHand(tx)' /\ NotYet'
      BY DEF OnceInv
    <2>i. OneByHand(db) /\ OneByHand(tx) /\ NotYet
      BY <2>1, <2>2 DEF OnceInv, Excused
    <2>3. OneByHand(db)' /\ OneByHand(tx)'
      BY <2>i, <2>1
    <2>h. Half' \/ stage' # "remove"
      BY <2>1 DEF Half, Removing
    <2> SUFFICES ASSUME stage' = "choose" \/ (stage' = "normalize" /\ Wants(plan')), NEW f \in Manual
                 PROVE  db.events[f] = 0
      BY <2>1, <2>3, <2>h DEF NotYet
    <2>4. CASE Choose
      BY <2>i, <2>4 DEF Choose, NotYet
    <2>5. CASE Answer
      <3>1. done /\ tx = db
        BY <1>1, <2>5 DEF Answer, Control
      <3>2. CASE stage = "normalize"
        <4>1. plan' = Tail(plan) /\ stage' \in {"normalize", "report"}
          BY <2>5, <3>2 DEF Answer, Begin, Batch
        <4>2. Wants(plan) /\ Head(plan) # "preservation"
          BY <1>p, <3>2, <4>1, PlanRest
        <4> QED BY <2>i, <3>1, <3>2, <4>2 DEF NotYet
      <3>3. CASE stage = "remove"
        BY <2>i, <3>1, <3>3 DEF NotYet, Half, Removing
      <3> QED BY <2>5, <3>2, <3>3 DEF Answer
    <2>6. CASE Die
      <3>1. stage = "normalize" /\ plan' = plan
        BY <2>6 DEF Die, Batch, Batches
      <3>2. ~done
        <4>1. done => <<"normalize", "late">> \in died'
          BY <2>6, <3>1 DEF Die
        <4> QED BY <4>1 DEF Excused
      <3>3. stage' = "normalize"
        BY <2>6, <3>1 DEF Die, Batch
      <3> QED BY <2>i, <3>1, <3>2, <3>3 DEF NotYet
    <2>7. CASE Redo \/ Approve \/ Related
      BY <2>7 DEF Redo, Approve, Related, Batch
    <2> QED BY <1>3, <2>4, <2>5, <2>6, <2>7 DEF Begins
  <1>4. CASE Finishes
    <2>1. /\ (db' = tx \/ db' = db) /\ tx' = db' /\ plan' = plan /\ todo = {} /\ todo' = {} /\ done'
          /\ stage' = stage /\ ~done /\ died' = died /\ raised \subseteq raised'
          /\ (stage = "remove" /\ db' # db => ~Half)
      BY <1>4, FinishesEffect
    <2> SUFFICES ASSUME ~Excused' PROVE OneByHand(db)' /\ OneByHand(tx)' /\ NotYet'
      BY DEF OnceInv
    <2>i. OneByHand(db) /\ OneByHand(tx) /\ NotYet
      BY <2>1 DEF OnceInv, Excused
    <2>2. OneByHand(db)' /\ OneByHand(tx)'
      BY <2>i, <2>1
    <2>3. stage = "remove" => \A f \in Manual : tx'.events[f] = 0
      <3>1. stage = "remove" => db' = tx /\ ~Half
        <4> SUFFICES ASSUME stage = "remove" PROVE db' = tx /\ ~Half
          OBVIOUS
        <4>1. ~broken /\ "remove" \notin raised'
          BY <1>1 DEF Control, Excused
        <4>2. db' = tx
          BY <1>4, <4>1, FinishesEffect
        <4>3. ~Half
          BY <1>4, <4>1 DEF Finishes, Commit, CommitRaises, BatchOver, Half
        <4> QED BY <4>2, <4>3
      <3> QED BY <2>i, <2>1, <3>1 DEF NotYet
    <2>4. Wants(plan) /\ Head(plan) # "preservation" /\ stage = "normalize" =>
            \A f \in Manual : db.events[f] = 0 /\ tx.events[f] = 0
      BY <2>i, <2>1 DEF NotYet
    <2>5. NotYet'
      <3>1. stage' # "choose"
        BY <1>4, <2>1, FinishesEffect DEF Batches
      <3> QED BY <2>1, <2>3, <2>4, <3>1 DEF NotYet
    <2> QED BY <2>2, <2>5
  <1>5. CASE RemoveFile
    <2>1. /\ Half /\ stage = "remove" /\ stage' = stage /\ done' = done /\ codes' = codes /\ db' = db
          /\ raised' = raised /\ died' = died /\ tx'.links = tx.links
          /\ \A q \in DOMAIN tx.rows : tx'.rows[q].use = tx.rows[q].use
      BY <1>5, RemoveFileEffect
    <2>2. \A l \in tx.links : l.to \in DOMAIN tx.rows
      BY <1>1 DEF Data, Firm, Shaped
    <2>3. OneByHand(tx) => OneByHand(tx')
      BY <2>1, <2>2 DEF OneByHand
    <2>4. Half'
      BY <2>1 DEF Half, Removing
    <2>5. OneByHand(tx) /\ OneByHand(db) => OneByHand(tx)' /\ OneByHand(db)'
      BY <2>1, <2>3
    <2>6. NotYet'
      BY <2>1, <2>4 DEF NotYet
    <2> QED BY <2>1, <2>5, <2>6 DEF OnceInv, Excused
  <1>6. CASE RemoveRest
    <2>1. /\ Removing /\ stage' = stage /\ db' = db /\ raised' = raised /\ died' = died
          /\ OneByHand(tx') /\ \A f \in Manual : tx'.events[f] = 0
      BY <1>6, RemoveRestEffect
    <2>2. NotYet'
      BY <2>1 DEF NotYet, Removing
    <2>3. OneByHand(tx)' /\ (OneByHand(db) => OneByHand(db)')
      BY <2>1
    <2> QED BY <2>1, <2>2, <2>3 DEF OnceInv, Excused
  <1>7. CASE Relates
    <2>1. stage = "relate" /\ stage' = stage /\ db' = db /\ raised' = raised /\ died' = died
      BY <1>7, RelatesEffect
    <2>2. PICK f \in todo : f \in Manual /\ (RelateMoved(f) \/ RelateEnded(f))
      BY <1>7, RelatesEffect
    <2>3. Sound(tx)
      BY <1>1, <2>1 DEF Data, Half, Removing, Sound
    <2>4. OneByHand(tx) => OneByHand(tx')
      BY <2>2, <2>3, InsertOneByHand DEF RelateMoved, RelateEnded
    <2>5. OneByHand(tx) /\ OneByHand(db) => OneByHand(tx)' /\ OneByHand(db)'
      BY <2>1, <2>4
    <2>6. NotYet'
      BY <2>1 DEF NotYet
    <2> QED BY <2>1, <2>5, <2>6 DEF OnceInv, Excused
  <1>8. CASE UNCHANGED vars
    BY <1>8 DEF vars, faults, OnceInv, Excused, OneByHand, NotYet, Half, Removing
  <1> QED BY <1>2, <1>3, <1>4, <1>5, <1>6, <1>7, <1>8, StepCases

-----------------------------------------------------------------------------
(* The theorems.                                                           *)

\* NormInv is an invariant.
LEMMA NormInvariant == Spec => []NormInv
PROOF
  <1>1. Init => NormInv
    BY InitInv
  <1>2. NormInv /\ [Next]_vars => NormInv'
    BY ControlStep, DataStep, SucceededStep, JoinedStep DEF NormInv
  <1> QED BY <1>1, <1>2, PTL DEF Spec

\* The types hold: a batch's tasks are those without an exit code, and every
\* derivation of the database leads to a row.
THEOREM TypeCorrect == Spec => []TypeOK
PROOF
  <1>1. NormInv => TypeOK
    <2> SUFFICES ASSUME NormInv PROVE TypeOK
      OBVIOUS
    <2>1. Types /\ Control /\ Shaped(db) /\ Shaped(tx)
      BY DEF NormInv, Data, Sound, Firm
    <2>2. stage # "remove" => todo \subseteq Originals /\ todo \cap DOMAIN codes = {}
      BY <2>1 DEF Control, Types
    <2>3. \A l \in tx.links \cup db.links : l.of \in Originals /\ l.to \in DOMAIN tx.rows
      BY <2>1 DEF Control, Shaped
    <2>4. \A f \in Originals : db.events[f] \in Nat
      BY <2>1 DEF Shaped
    <2>5. moving \subseteq todo
      BY <2>1 DEF Control
    <2> QED BY <2>1, <2>2, <2>3, <2>4, <2>5 DEF TypeOK, Types, Stages, AllPlans
  <1> QED BY <1>1, NormInvariant, PTL

\* Recorded derivatives are on disk with their events, and the files that were
\* normalized by hand end up beside their originals and related, however often
\* the user does it again and whichever worker dies, in the middle of the
\* removal too, as long as no commit of the removal or the relation raises.
THEOREM DerivationsLeadSomewhere == Spec => []DerivationsLead
PROOF
  <1>1. NormInv => DerivationsLead
    <2> SUFFICES ASSUME NormInv PROVE DerivationsLead
      OBVIOUS
    <2>1. Sound(db) /\ Joined /\ (Removing \/ "remove" \in raised \/ LiveIn(db, disk))
      BY DEF NormInv, Data
    <2>2. LinksLead
      BY <2>1 DEF Sound, Leading, LinksLead
    <2>3. LiveIsOnDisk
      BY <2>1 DEF LiveIn, Live, LiveIsOnDisk, Removing
    <2>4. ManualIsRelated
      BY <2>1 DEF Joined, Sound, Firm, Accounted, ManualIsRelated
    <2> QED BY <2>2, <2>3, <2>4 DEF DerivationsLead
  <1> QED BY <1>1, NormInvariant, PTL

\* In a transaction that nothing broke, exit code 0 of normalize.py means that
\* the derivative is in the database, or that the task had none to record.
THEOREM SuccessRecorded == Spec => []SuccessIsRecordedUnbroken
PROOF
  <1>1. NormInv => SuccessIsRecordedUnbroken
    <2> SUFFICES ASSUME NormInv, ~broken, stage = "normalize", done,
                        NEW f \in DOMAIN codes \ quiet, codes[f] = 0
                 PROVE  \E l \in db.links : l.of = f
                          /\ db.rows[l.to].use \in {Head(plan), "manualNormalization"}
      BY DEF SuccessIsRecordedUnbroken, SuccessIsRecorded
    <2>1. tx = db
      BY DEF NormInv, Control
    <2> QED BY <2>1 DEF NormInv, Succeeded
  <1> QED BY <1>1, NormInvariant, PTL

\* A set whose members are all the same has at most one.
LEMMA AtMostOne ==
  ASSUME NEW L, \A l, m \in L : l = m
  PROVE  Cardinality(L) <= 1
PROOF
  <1>1. CASE L = {}
    <2>1. Cardinality(L) = 0
      BY <1>1, FS_EmptySet
    <2> QED BY <2>1
  <1>2. CASE L # {}
    <2>1. PICK l : l \in L
      BY <1>2
    <2>2. L = {l}
      BY <2>1
    <2>3. Cardinality(L) = 1
      BY <2>2, FS_Singleton
    <2> QED BY <2>3
  <1> QED BY <1>1, <1>2

\* An original has at most one derivative for preservation by a command or from
\* an earlier AIP and at most one by hand, and both only if it came from an
\* earlier AIP and was normalized by hand.
THEOREM AtMostOneDerivative == Spec => []OneDerivative
PROOF
  <1>1. Init => NormInv /\ OnceInv
    BY InitInv
  <1>2. NormInv /\ OnceInv /\ [Next]_vars => (NormInv /\ OnceInv)'
    BY ControlStep, DataStep, SucceededStep, JoinedStep, OnceStep DEF NormInv
  <1>3. NormInv /\ OnceInv => OneDerivative
    <2> SUFFICES ASSUME NormInv, OnceInv, ~Excused, NEW f \in Originals
                 PROVE  /\ Cardinality(Derivations(f, "preservation")) <= 1
                        /\ Cardinality(Derivations(f, "manualNormalization")) <= 1
                        /\ Derivations(f, "preservation") # {}
                             /\ Derivations(f, "manualNormalization") # {}
                           => f \in Manual \cap Reingested
      BY DEF OneDerivative, Excused
    <2>1. Sound(db) /\ OneByHand(db)
      BY DEF NormInv, Data, OnceInv
    <2>2. Cardinality(Derivations(f, "preservation")) <= 1
      <3>1. \A l, m \in Derivations(f, "preservation") : l = m
        BY <2>1 DEF Derivations, Sound, Firm, OneByCommand
      <3> QED BY <3>1, AtMostOne
    <2>3. Cardinality(Derivations(f, "manualNormalization")) <= 1
      <3>1. \A l, m \in Derivations(f, "manualNormalization") : l = m
        BY <2>1 DEF Derivations, OneByHand
      <3> QED BY <3>1, AtMostOne
    <2>4. ASSUME NEW l \in Derivations(f, "manualNormalization") PROVE f \in Manual
      <3>1. /\ l \in db.links /\ l.to \in DOMAIN db.rows /\ l.to[1] = f
            /\ db.rows[l.to].use = "manualNormalization"
        BY <2>1 DEF Sound, Firm, Shaped, Owned, Derivations
      <3>2. l.to \in ManualFiles
        BY <2>1, <3>1 DEF Sound, Firm, Named, Purposes
      <3>3. PICK g \in Manual : l.to = ManualFile(g)
        BY <3>2 DEF ManualFiles
      <3>4. ManualFile(g)[1] = g
        BY DEF ManualFile, File
      <3> QED BY <3>1, <3>3, <3>4
    <2>5. ASSUME NEW l \in Derivations(f, "preservation"), f \in Manual PROVE f \in Reingested
      BY <2>1, <2>5 DEF Derivations, Sound, Firm, OneByCommand
    <2> QED BY <2>2, <2>3, <2>4, <2>5
  <1> QED BY <1>1, <1>2, <1>3, PTL DEF Spec

=============================================================================
