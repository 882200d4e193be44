--------------------------- MODULE RecordGateProofs ---------------------------
(***************************************************************************)
(* Safety of RecordGate for every set of trees, every content an editor    *)
(* may save and every workflow, of any size.  The invariant has three      *)
(* parts: what the gate's own copies satisfy however the tree is edited;   *)
(* what two copies of a file have in common while nobody edits; and the    *)
(* scan of the workflow beside the reading that YAML has of it, where they *)
(* must agree and where they may part.                                     *)
(***************************************************************************)
EXTENDS RecordGate, FiniteSetTheorems, WellFoundedInduction, TLAPS

\* The gate is in one of the stages, or was in all of them and accepted.
Reached(stages) == stage \in stages \/ outcome = "PASS"
Stages == {"ledger", "claims", "listing", "records", "pages", "links", "surface", "text", "done"}

\* The shapes of what the gate holds.
Shapes ==
  /\ stage \in Stages
  /\ TreeShape(tree) /\ LedgerShape(ledger) /\ IsList(read)
  /\ stage = "pages" => due \subseteq DOMAIN tree.pages
  /\ Reached({"links", "surface", "text"}) => IsList(table.rows)

\* No two entries of the index have the same identifier.
Distinct ==
  \A i, j \in DOMAIN ledger.evidence : ledger.evidence[i].id = ledger.evidence[j].id => i = j

\* What has been compared, in the order in which it is.
Compared ==
  /\ stage \in {"ledger", "claims", "listing"} => read = <<>>
  /\ stage \in {"ledger", "claims", "listing", "records"} => documented = {}
  /\ \A i \in DOMAIN read : RecordHolds(ledger.evidence[i], read[i])
  /\ Reached({"listing", "records", "pages", "links", "surface", "text"}) => Distinct
  /\ Reached({"pages", "links", "surface", "text"}) =>
       Len(read) = Len(ledger.evidence) /\ \A c \in Claims : Supported(c)
  /\ Reached({"surface", "text"}) => RowsHold /\ WrittenOut
  /\ stage # "done" => documented \subseteq ClaimIds

\* While nobody edits, the copies are the files, and what is documented and scanned is
\* what the pages name.
DocumentedBy(pages) ==
  /\ documented = UNION {Named(tree.pages[p].blocks) : p \in pages}
  /\ \A p \in pages : tree.pages[p].blocks # <<>>
Clean(files) == \A f \in files : Fragments(f) \subseteq {"clean"}
Quiet ==
  edits = 0 =>
    /\ ledger = tree.ledger
    /\ Reached({"links", "surface", "text"}) => table = tree.readme
    /\ Reached({"records", "pages", "links", "surface", "text"}) =>
         DOMAIN tree.records = EvidenceIds
    /\ stage = "pages" => DocumentedBy(DOMAIN tree.pages \ due)
    /\ Reached({"links", "surface", "text"}) => DocumentedBy(DOMAIN tree.pages)
    /\ stage = "surface" => due \subseteq SurfaceFiles /\ Clean(SurfaceFiles \ due)
    /\ Reached({"text"}) => Clean(SurfaceFiles)
    /\ stage = "text" => due \subseteq PublicFiles

\* A tree that agrees is refused for a line of its workflow alone, at its last line.
Consistent ==
  /\ Agrees(tree)
  /\ \A c \in ToSet(tree.ledger.claims) : c.status \in Active /\ Rests(c, tree)
BlamesWorkflow ==
  edits = 0 /\ Consistent /\ outcome = "FAIL" => number = Len(text) /\ refused # {}

\* The scan of the workflow.
Lines == 1 .. number
Scanned ==
  /\ WorkflowShape(text) /\ number \in 0 .. Len(text)
  /\ stage \notin {"text", "done"} => number = 0
  /\ number = 0 => block = Workflow!None /\ scalar = Workflow!None
  /\ pins \subseteq Lines /\ refused \subseteq Lines /\ structure \subseteq Lines
  /\ \A k \in pins : Workflow!Pins(text[k])
  /\ \A k \in Lines : Workflow!Commits(text[k]) > 0 /\ k \notin pins => k \in refused
  /\ (stage = "text" /\ number = Len(text)) \/ outcome = "PASS" =>
       number = Len(text) /\ refused = {}

\* Where no line is one that the scan and YAML read differently, they agree on which lines
\* are text.
ReadAlike ==
  ~Workflow!Unread =>
    /\ block = scalar
    /\ \A k \in Lines :
         /\ k \in pins <=> k \in structure /\ Workflow!Pins(text[k])
         /\ k \in refused <=> \/ k \in structure /\ Workflow!Violates(text[k])
                              \/ Workflow!Commits(text[k]) > 0 /\ k \notin pins

\* In any other workflow, what the scan takes for text in a block that YAML has not begun
\* lies in the reach of a key after a dash, and what is text in a scalar that the scan
\* has not begun belongs to one it overlooked: a scalar both have begun covers the block,
\* or is covered by it.
Reaches(indent) == \E j \in Lines : Workflow!Overreaches(text[j]) /\ text[j].indent = indent
Begun(column) == \E j \in Lines : Workflow!Overlooked(text[j]) /\ Workflow!Column(text[j]) = column
Apart ==
  /\ block \in Int /\ scalar \in Int
  /\ block # Workflow!None => Reaches(block) \/ (scalar # Workflow!None /\ scalar <= block)
  /\ scalar # Workflow!None => Begun(scalar) \/ (block # Workflow!None /\ block <= scalar)
  /\ \A k \in pins : k \in structure \/ Workflow!MayBeText(k)
  /\ \A k \in structure : Workflow!Loose(text[k]) =>
       k \in refused \/ Workflow!OtherForm(text[k]) \/ Workflow!MayBeSkipped(k)

IInv ==
  /\ TypeOK /\ Shapes /\ Compared /\ Quiet /\ BlamesWorkflow
  /\ Scanned /\ ReadAlike /\ Apart

-----------------------------------------------------------------------------
(* Lists.                                                                  *)

LEMMA ListBasics ==
  ASSUME NEW s, IsList(s)
  PROVE  /\ Len(s) \in Nat /\ DOMAIN s = 1 .. Len(s)
         /\ \A i \in DOMAIN s : s[i] \in ToSet(s)
         /\ \A x \in ToSet(s) : \E i \in DOMAIN s : s[i] = x
BY DEF IsList, ToSet

LEMMA EmptyIsList == IsList(<< >>) /\ Len(<< >>) = 0 /\ DOMAIN << >> = {}
BY DEF IsList, ToSet

LEMMA AppendToList ==
  ASSUME NEW s, IsList(s), NEW x
  PROVE  /\ IsList(Append(s, x)) /\ Len(Append(s, x)) = Len(s) + 1
         /\ \A i \in DOMAIN s : Append(s, x)[i] = s[i]
         /\ Append(s, x)[Len(s) + 1] = x
         /\ DOMAIN Append(s, x) = DOMAIN s \cup {Len(s) + 1}
<1> DEFINE T == ToSet(s) \cup {x}
           a == Append(s, x)
<1>1. s \in Seq(ToSet(s))
  BY DEF IsList
<1>2. s \in Seq(T)
  BY <1>1
<1> HIDE DEF T
<1>3. x \in T
  BY DEF T
<1>4. a \in Seq(T) /\ Len(a) = Len(s) + 1 /\ DOMAIN s = 1 .. Len(s) /\ Len(s) \in Nat
  BY <1>2, <1>3
<1>5. (\A i \in DOMAIN s : a[i] = s[i]) /\ a[Len(s) + 1] = x
  BY <1>2, <1>3, <1>4
<1>6. DOMAIN a = DOMAIN s \cup {Len(s) + 1}
  BY <1>4
<1>7. T \subseteq ToSet(a)
  BY <1>5, <1>6 DEF T, ToSet
<1>8. a \in Seq(ToSet(a))
  <2>1. \A i \in 1 .. Len(a) : a[i] \in ToSet(a)
    BY <1>4 DEF ToSet
  <2> QED
    BY <1>4, <2>1
<1> QED
  BY <1>4, <1>5, <1>6, <1>8 DEF IsList

\* A set of positions has a last one.
LEMMA LastPosition ==
  ASSUME NEW n \in Nat, NEW T, T \subseteq 1 .. n, T # {}
  PROVE  \E k \in T : \A l \in T : l <= k
<1> DEFINE R == {ss \in Nat \X Nat : ss[1] < ss[2]}
           Back == {n - k : k \in T}
<1>1. IsWellFoundedOn(R, Nat)
  BY NatLessThanWellFounded DEF OpToRel
<1>0. \A k \in T : k \in Nat /\ n - k \in Nat
  <2>1. \A k \in 1 .. n : k \in Nat /\ n - k \in Nat
    OBVIOUS
  <2> QED
    BY <2>1
<1>2. Back \subseteq Nat /\ Back # {}
  BY <1>0
<1>3. PICK b \in Back : \A c \in Back : <<c, b>> \notin R
  <2> HIDE DEF R, Back
  <2> QED
    BY <1>1, <1>2, WFMin
<1>4. PICK k \in T : b = n - k
  OBVIOUS
<1>5. ASSUME NEW l \in T PROVE l <= k
  <2>1. <<n - l, n - k>> \notin R
    BY <1>3, <1>4
  <2>2. n - l \in Nat /\ n - k \in Nat /\ l \in Nat /\ k \in Nat
    BY <1>0
  <2>3. ~ (n - l < n - k)
    BY <2>1, <2>2
  <2> QED
    BY <2>2, <2>3
<1> QED
  BY <1>5

\* The last row or block for a claim is one for that claim.
LEMMA LastForIsOne ==
  ASSUME NEW items, IsList(items), NEW id \in Named(items)
  PROVE  LastFor(id, items) \in ToSet(items) /\ LastFor(id, items).claim = id
<1> DEFINE T == {k \in DOMAIN items : items[k].claim = id}
           FinalAt(k) == /\ items[k].claim = id
                         /\ \A l \in DOMAIN items : items[l].claim = id => l <= k
<1>1. T \subseteq 1 .. Len(items) /\ T # {} /\ Len(items) \in Nat
  BY ListBasics DEF Named
<1>2. PICK k \in T : \A l \in T : l <= k
  BY <1>1, LastPosition
<1>3. k \in DOMAIN items /\ FinalAt(k)
  BY <1>2
<1>4. (CHOOSE j \in DOMAIN items : FinalAt(j)) \in DOMAIN items /\ FinalAt(CHOOSE j \in DOMAIN items : FinalAt(j))
  <2> HIDE DEF FinalAt
  <2> QED
    BY <1>3
<1>5. LastFor(id, items) = items[CHOOSE j \in DOMAIN items : FinalAt(j)]
  BY DEF LastFor
<1> QED
  BY <1>4, <1>5, ListBasics

\* A list as long as it has identifiers uses none of them twice.
LEMMA CountedIdsAreDistinct ==
  ASSUME NEW s, IsList(s), Len(s) = Cardinality({e.id : e \in ToSet(s)})
  PROVE  \A i, j \in DOMAIN s : s[i].id = s[j].id => i = j
<1> DEFINE n == Len(s)
           ids == {e.id : e \in ToSet(s)}
           f == [i \in 1 .. n |-> s[i].id]
<1>1. n \in Nat /\ DOMAIN s = 1 .. n
  BY ListBasics
<1>2. IsFiniteSet(1 .. n) /\ Cardinality(1 .. n) = n
  <2>1. 1 \in Int /\ n \in Int /\ (IF 1 > n THEN 0 ELSE n - 1 + 1) = n
    BY <1>1
  <2> QED
    BY <2>1, FS_Interval
<1>3. f \in Surjection(1 .. n, ids)
  <2>1. ToSet(s) = {s[i] : i \in 1 .. n}
    BY <1>1 DEF ToSet
  <2> QED
    BY <2>1 DEF Surjection
<1>4. f \in Injection(1 .. n, ids)
  BY <1>2, <1>3, FS_Surjection
<1> QED
  BY <1>1, <1>4 DEF Injection, IsInjective

-----------------------------------------------------------------------------
(* The workflow.                                                           *)

\* A line read is one more line, and alters nothing of the lines before.
LEMMA ReadsALine ==
  ASSUME Scanned, Workflow!Read
  PROVE  /\ number' = number + 1 /\ text' = text /\ number' \in DOMAIN text
         /\ Lines' = Lines \cup {number'} /\ number' \notin Lines
         /\ WorkflowShape(text) /\ Workflow!Line = text[number']
<1>1. WorkflowShape(text) /\ number \in 0 .. Len(text) /\ number < Len(text)
      /\ number' = number + 1 /\ text' = text
  BY DEF Scanned, Workflow!Read
<1>2. Len(text) \in Nat /\ DOMAIN text = 1 .. Len(text)
  BY <1>1, ListBasics DEF WorkflowShape
<1> QED
  BY <1>1, <1>2 DEF Lines, Workflow!Line

LEMMA ReadKeepsReadAlike ==
  ASSUME Scanned, ReadAlike, Workflow!Read
  PROVE  ReadAlike'
<1> DEFINE l == text[number']
<1>1. /\ Lines' = Lines \cup {number'} /\ number' \notin Lines /\ text' = text
      /\ number' \in DOMAIN text /\ Workflow!Line = l /\ WorkflowShape(text)
  BY ReadsALine
<1>2. /\ pins' = IF ~Workflow!InBlock(l) /\ Workflow!Pins(l) THEN pins \cup {number'} ELSE pins
      /\ refused' = IF \/ ~Workflow!InBlock(l) /\ Workflow!Violates(l)
                       \/ Workflow!Discloses(l, ~Workflow!InBlock(l) /\ Workflow!Pins(l))
                    THEN refused \cup {number'} ELSE refused
      /\ block' = IF Workflow!InBlock(l) THEN block
                  ELSE IF Workflow!MatchesBlock(l) THEN l.indent ELSE Workflow!None
      /\ scalar' = IF Workflow!InScalar(l) THEN scalar
                   ELSE IF Workflow!Begins(l) THEN Workflow!Column(l) ELSE Workflow!None
      /\ structure' = IF Workflow!InScalar(l) THEN structure ELSE structure \cup {number'}
  BY <1>1 DEF Workflow!Read
<1> SUFFICES ASSUME ~Workflow!Unread'
             PROVE  /\ block' = scalar'
                    /\ \A k \in Lines' :
                         /\ k \in pins' <=> k \in structure' /\ Workflow!Pins(text[k])
                         /\ k \in refused' <=>
                              \/ k \in structure' /\ Workflow!Violates(text[k])
                              \/ Workflow!Commits(text[k]) > 0 /\ k \notin pins'
  BY <1>1 DEF ReadAlike
<1>3. Workflow!Seen' = Workflow!Seen \cup {l}
  BY <1>1 DEF Workflow!Seen, Lines
<1>4. ~Workflow!Unread /\ (Workflow!Begins(l) <=> Workflow!MatchesBlock(l))
      /\ (Workflow!MatchesBlock(l) => l.kind = "block" /\ ~l.dash)
  BY <1>3 DEF Workflow!Unread, Workflow!Overlooked, Workflow!Overreaches, Workflow!Begins,
              Workflow!MatchesBlock
<1>5. /\ block = scalar
      /\ \A k \in Lines :
           /\ k \in pins <=> k \in structure /\ Workflow!Pins(text[k])
           /\ k \in refused <=> \/ k \in structure /\ Workflow!Violates(text[k])
                                \/ Workflow!Commits(text[k]) > 0 /\ k \notin pins
  BY <1>4 DEF ReadAlike
<1>6. Workflow!InBlock(l) <=> Workflow!InScalar(l)
  BY <1>5 DEF Workflow!InBlock, Workflow!InScalar
<1>7. Workflow!MatchesBlock(l) => Workflow!Column(l) = l.indent
  BY <1>1, <1>4 DEF Workflow!Column, WorkflowShape
<1>8. block' = scalar'
  BY <1>2, <1>4, <1>5, <1>6, <1>7
<1>9. pins \subseteq Lines /\ refused \subseteq Lines /\ structure \subseteq Lines
  BY DEF Scanned
<1>10. ASSUME NEW k \in Lines
       PROVE  /\ k \in pins' <=> k \in pins
              /\ k \in refused' <=> k \in refused
              /\ k \in structure' <=> k \in structure
  BY <1>1, <1>2
<1>11. /\ number' \in pins' <=> number' \in structure' /\ Workflow!Pins(l)
       /\ number' \in refused' <=>
            \/ number' \in structure' /\ Workflow!Violates(l)
            \/ Workflow!Commits(l) > 0 /\ number' \notin pins'
  BY <1>1, <1>2, <1>6, <1>9 DEF Workflow!Discloses
<1> QED
  BY <1>1, <1>5, <1>8, <1>10, <1>11

LEMMA ReadKeepsApart ==
  ASSUME Scanned, Apart, Workflow!Read
  PROVE  Apart'
<1> DEFINE l == text[number']
<1>1. /\ Lines' = Lines \cup {number'} /\ number' \notin Lines /\ text' = text
      /\ number' \in DOMAIN text /\ Workflow!Line = l /\ WorkflowShape(text)
      /\ Lines = 1 .. (number' - 1)
  <2>1. number' = number + 1 /\ number \in Nat
    BY ReadsALine, ListBasics DEF Scanned, WorkflowShape
  <2> QED
    BY <2>1, ReadsALine DEF Lines
<1>2. /\ pins' = IF ~Workflow!InBlock(l) /\ Workflow!Pins(l) THEN pins \cup {number'} ELSE pins
      /\ refused' = IF \/ ~Workflow!InBlock(l) /\ Workflow!Violates(l)
                       \/ Workflow!Discloses(l, ~Workflow!InBlock(l) /\ Workflow!Pins(l))
                    THEN refused \cup {number'} ELSE refused
      /\ block' = IF Workflow!InBlock(l) THEN block
                  ELSE IF Workflow!MatchesBlock(l) THEN l.indent ELSE Workflow!None
      /\ scalar' = IF Workflow!InScalar(l) THEN scalar
                   ELSE IF Workflow!Begins(l) THEN Workflow!Column(l) ELSE Workflow!None
      /\ structure' = IF Workflow!InScalar(l) THEN structure ELSE structure \cup {number'}
  BY <1>1 DEF Workflow!Read
<1>3. /\ l.indent \in Nat /\ l.dash \in BOOLEAN /\ Workflow!None = -1
      /\ Workflow!Column(l) \in Int /\ l.indent <= Workflow!Column(l)
  BY <1>1 DEF WorkflowShape, Workflow!Column, Workflow!None
<1> DEFINE reaches(i) == \E j \in Lines' : Workflow!Overreaches(text[j]) /\ text[j].indent = i
           begun(i) == \E j \in Lines' : Workflow!Overlooked(text[j]) /\ Workflow!Column(text[j]) = i
<1> HIDE DEF l
<1>4. block \in Int /\ scalar \in Int /\ block' \in Int /\ scalar' \in Int
  BY <1>2, <1>3 DEF Apart
\* A block that YAML has not begun, and a scalar that the scan has not.
<1>5. Workflow!InBlock(l) /\ ~Workflow!InScalar(l) => Reaches(block)
  BY <1>3, <1>4 DEF Apart, Workflow!InBlock, Workflow!InScalar
<1>6. Workflow!InScalar(l) /\ ~Workflow!InBlock(l) => Begun(scalar)
  BY <1>3, <1>4 DEF Apart, Workflow!InBlock, Workflow!InScalar
<1>7. /\ \A i : (Reaches(i) => reaches(i)) /\ (Begun(i) => begun(i))
      /\ Workflow!Overreaches(l) => reaches(l.indent)
      /\ Workflow!Overlooked(l) => begun(Workflow!Column(l))
  BY <1>1 DEF l, Reaches, Begun
<1> HIDE DEF reaches, begun
<1>8. block' # Workflow!None => reaches(block') \/ (scalar' # Workflow!None /\ scalar' <= block')
  <2>1. CASE Workflow!InBlock(l)
    BY <1>2, <1>3, <1>4, <1>5, <1>7, <2>1 DEF Apart
  <2>2. CASE ~Workflow!InBlock(l) /\ Workflow!MatchesBlock(l) /\ l.dash
    BY <1>2, <1>7, <2>2 DEF Workflow!Overreaches
  <2>3. CASE ~Workflow!InBlock(l) /\ Workflow!MatchesBlock(l) /\ ~l.dash
    <3>1. block' = l.indent /\ l.kind = "block"
      BY <1>2, <2>3 DEF Workflow!MatchesBlock
    <3>2. CASE Workflow!InScalar(l)
      BY <1>2, <1>3, <1>4, <3>1, <3>2 DEF Workflow!InScalar
    <3>3. CASE ~Workflow!InScalar(l)
      BY <1>2, <1>3, <2>3, <3>1, <3>3 DEF Workflow!Begins, Workflow!Column
    <3> QED
      BY <3>2, <3>3
  <2>4. CASE ~Workflow!InBlock(l) /\ ~Workflow!MatchesBlock(l)
    BY <1>2, <2>4
  <2> QED
    BY <1>3, <2>1, <2>2, <2>3, <2>4
<1>9. scalar' # Workflow!None => begun(scalar') \/ (block' # Workflow!None /\ block' <= scalar')
  <2>1. CASE Workflow!InScalar(l)
    BY <1>2, <1>3, <1>4, <1>6, <1>7, <2>1 DEF Apart
  <2>2. CASE ~Workflow!InScalar(l) /\ Workflow!Begins(l) /\ Workflow!Overlooked(l)
    BY <1>2, <1>7, <2>2
  <2>3. CASE ~Workflow!InScalar(l) /\ Workflow!Begins(l) /\ ~Workflow!Overlooked(l)
    <3>1. scalar' = Workflow!Column(l) /\ l.kind = "block" /\ Workflow!MatchesBlock(l)
      BY <1>2, <2>3 DEF Workflow!Begins, Workflow!Overlooked, Workflow!MatchesBlock
    <3>2. CASE Workflow!InBlock(l)
      BY <1>2, <1>3, <1>4, <3>1, <3>2 DEF Workflow!InBlock
    <3>3. CASE ~Workflow!InBlock(l)
      BY <1>2, <1>3, <3>1, <3>3
    <3> QED
      BY <3>2, <3>3
  <2>4. CASE ~Workflow!InScalar(l) /\ ~Workflow!Begins(l)
    BY <1>2, <2>4
  <2> QED
    BY <2>1, <2>2, <2>3, <2>4
<1>10. (\A k \in pins : k \in structure \/ Workflow!MayBeText(k))'
  <2>1. \A k : Workflow!MayBeText(k)' <=> Workflow!MayBeText(k)
    BY <1>1 DEF Workflow!MayBeText, Workflow!Overlooked, Workflow!Column
  <2>2. ASSUME number' \in pins', number' \notin structure' PROVE Workflow!MayBeText(number')
    <3>1. Workflow!InScalar(l) /\ ~Workflow!InBlock(l) /\ l.kind = "uses"
      BY <1>1, <1>2, <2>2 DEF Scanned, Workflow!Pins, Workflow!MatchesUses
    <3>2. l.indent > scalar /\ Begun(scalar)
      BY <1>6, <3>1 DEF Workflow!InScalar
    <3> QED
      BY <1>1, <3>2 DEF l, Begun, Workflow!MayBeText
  <2>3. ASSUME NEW k \in pins' PROVE k \in structure' \/ Workflow!MayBeText(k)
    BY <1>2, <2>2 DEF Apart
  <2> QED
    BY <2>1, <2>3
<1>11. (\A k \in structure : Workflow!Loose(text[k]) =>
          k \in refused \/ Workflow!OtherForm(text[k]) \/ Workflow!MayBeSkipped(k))'
  <2>1. \A k : Workflow!MayBeSkipped(k)' <=> Workflow!MayBeSkipped(k)
    BY <1>1 DEF Workflow!MayBeSkipped, Workflow!Overreaches, Workflow!MatchesBlock
  <2>2. ASSUME number' \in structure', Workflow!Loose(l), number' \notin refused',
               ~Workflow!OtherForm(l)
        PROVE  Workflow!MayBeSkipped(number')
    <3>1. ~Workflow!InScalar(l) /\ Workflow!InBlock(l) /\ l.kind = "uses"
      BY <1>1, <1>2, <2>2
         DEF Scanned, Workflow!Violates, Workflow!MatchesUses, Workflow!Loose, Workflow!OtherForm
    <3>2. l.indent > block /\ Reaches(block)
      BY <1>5, <3>1 DEF Workflow!InBlock
    <3> QED
      BY <1>1, <3>2 DEF l, Reaches, Workflow!MayBeSkipped
  <2>3. ASSUME NEW k \in structure', Workflow!Loose(text[k])
        PROVE  k \in refused' \/ Workflow!OtherForm(text[k]) \/ Workflow!MayBeSkipped(k)
    <3>1. CASE k = number'
      BY <2>2, <2>3, <3>1 DEF l
    <3>2. CASE k # number'
      BY <1>2, <2>3, <3>2 DEF Apart
    <3> QED
      BY <3>1, <3>2
  <2> QED
    BY <1>1, <2>1, <2>3 DEF Workflow!Loose, Workflow!OtherForm
<1> QED
  <2>1. Reaches(block)' <=> reaches(block')
    BY <1>1 DEF reaches, Reaches, Workflow!Overreaches, Workflow!MatchesBlock
  <2>2. Begun(scalar)' <=> begun(scalar')
    BY <1>1 DEF begun, Begun, Workflow!Overlooked, Workflow!Column
  <2>3. Workflow!None' = Workflow!None
    BY DEF Workflow!None
  <2> QED
    BY <1>4, <1>8, <1>9, <1>10, <1>11, <2>1, <2>2, <2>3 DEF Apart

\* What the scan knows of the lines it has read, whatever the stage.
LEMMA ReadKeepsLines ==
  ASSUME Scanned, Workflow!Read
  PROVE  /\ WorkflowShape(text)' /\ number' \in 0 .. Len(text') /\ number' # 0
         /\ pins' \subseteq Lines' /\ refused' \subseteq Lines' /\ structure' \subseteq Lines'
         /\ \A k \in pins' : Workflow!Pins(text[k])
         /\ \A k \in Lines' : Workflow!Commits(text[k]) > 0 /\ k \notin pins' => k \in refused'
<1> DEFINE l == text[number']
<1>1. /\ Lines' = Lines \cup {number'} /\ number' \notin Lines /\ text' = text
      /\ number' \in DOMAIN text /\ Workflow!Line = l /\ WorkflowShape(text)
  BY ReadsALine
<1>2. /\ pins' = IF ~Workflow!InBlock(l) /\ Workflow!Pins(l) THEN pins \cup {number'} ELSE pins
      /\ refused' = IF \/ ~Workflow!InBlock(l) /\ Workflow!Violates(l)
                       \/ Workflow!Discloses(l, ~Workflow!InBlock(l) /\ Workflow!Pins(l))
                    THEN refused \cup {number'} ELSE refused
      /\ structure' = IF Workflow!InScalar(l) THEN structure ELSE structure \cup {number'}
  BY <1>1 DEF Workflow!Read
<1>3. number' \in 1 .. Len(text) /\ Len(text) \in Nat
  BY <1>1, ListBasics DEF WorkflowShape
<1>4. pins \subseteq Lines /\ refused \subseteq Lines /\ structure \subseteq Lines
  BY DEF Scanned
<1>5. pins' \subseteq Lines' /\ refused' \subseteq Lines' /\ structure' \subseteq Lines'
  BY <1>1, <1>2, <1>4
<1>6. \A k \in pins' : Workflow!Pins(text[k])
  BY <1>2 DEF Scanned
<1>7. \A k \in Lines' : Workflow!Commits(text[k]) > 0 /\ k \notin pins' => k \in refused'
  BY <1>1, <1>2 DEF Scanned, Workflow!Discloses
<1> QED
  BY <1>1, <1>3, <1>5, <1>6, <1>7

-----------------------------------------------------------------------------
(* The index and the records.                                              *)

\* An identifier of the index stands for one entry and, once all are read, one record.
LEMMA EvidenceOfIs ==
  ASSUME LedgerShape(ledger), Distinct
  PROVE  /\ \A e \in Evidence : EvidenceOf(e.id) = e
         /\ \A i \in DOMAIN ledger.evidence : RecordOf(ledger.evidence[i].id) = read[i]
<1>1. IsList(ledger.evidence)
  BY DEF LedgerShape
<1>2. \A d, e \in Evidence : d.id = e.id => d = e
  BY <1>1, ListBasics DEF Evidence, Distinct
<1>3. ASSUME NEW e \in Evidence PROVE EvidenceOf(e.id) = e
  BY <1>2 DEF EvidenceOf
<1>4. ASSUME NEW i \in DOMAIN ledger.evidence
      PROVE  RecordOf(ledger.evidence[i].id) = read[i]
  <2>1. (CHOOSE j \in DOMAIN ledger.evidence : ledger.evidence[j].id = ledger.evidence[i].id) = i
    BY DEF Distinct
  <2> QED
    BY <2>1 DEF RecordOf
<1> QED
  BY <1>3, <1>4

\* An entry of the index, the record read for it, and its two names.
LEMMA EntryOf ==
  ASSUME LedgerShape(ledger), Distinct, Len(read) = Len(ledger.evidence), IsList(read),
         \A i \in DOMAIN read : RecordHolds(ledger.evidence[i], read[i]),
         NEW id \in EvidenceIds
  PROVE  \E e \in Evidence : e.id = id /\ EvidenceOf(id) = e /\ RecordHolds(e, RecordOf(id))
<1>1. PICK e \in Evidence : e.id = id
  BY DEF EvidenceIds
<1>2. PICK i \in DOMAIN ledger.evidence : ledger.evidence[i] = e
  BY ListBasics DEF Evidence, LedgerShape
<1>3. i \in DOMAIN read
  BY <1>2, ListBasics DEF LedgerShape
<1> QED
  BY <1>1, <1>2, <1>3, EvidenceOfIs

\* What is said of the ledger and the records read changes with them alone.
LEMMA LedgerKept ==
  ASSUME ledger' = ledger
  PROVE  /\ Claims' = Claims /\ Evidence' = Evidence /\ EvidenceIds' = EvidenceIds
         /\ ClaimIds' = ClaimIds /\ Distinct' = Distinct
BY DEF Claims, Evidence, EvidenceIds, ClaimIds, Distinct

LEMMA SupportKept ==
  ASSUME ledger' = ledger, read' = read
  PROVE  (\A c \in Claims : Supported(c))' <=> (\A c \in Claims : Supported(c))
BY DEF Claims, Supported, EvidenceIds, Evidence, EvidenceOf, RecordOf

LEMMA RowsKept ==
  ASSUME ledger' = ledger, table' = table
  PROVE  RowsHold' <=> RowsHold
BY DEF RowsHold, Claims, EvidenceIds, Evidence, LastFor, Named

LEMMA WrittenKept ==
  ASSUME ledger' = ledger, documented' = documented, tree'.properties = tree.properties
  PROVE  WrittenOut' <=> WrittenOut
BY DEF WrittenOut, Claims

\* And what is to be scanned changes with the tree, the ledger and what is documented.
LEMMA SurfaceKept ==
  ASSUME UNCHANGED <<tree, ledger, documented>>
  PROVE  /\ SurfaceFiles' = SurfaceFiles /\ PublicFiles' = PublicFiles
         /\ \A f : Fragments(f)' = Fragments(f)
         /\ \A files : DocumentedBy(files)' <=> DocumentedBy(files)
BY DEF SurfaceFiles, PublicFiles, Fragments, DocumentedEvidence, Claims, DocumentedBy, Named

LEMMA ConsistentKept ==
  ASSUME tree' = tree
  PROVE  Consistent' <=> Consistent
BY DEF Consistent, Agrees, Rests, Named

\* The two readings of the workflow do not change but with it.
LEMMA ReadingsKept ==
  ASSUME ReadAlike, Apart, UNCHANGED workflow
  PROVE  ReadAlike' /\ Apart'
<1> USE DEF workflow, Lines, Workflow!Overlooked, Workflow!Overreaches, Workflow!OtherForm,
            Workflow!MatchesUses, Workflow!MatchesBlock, Workflow!Column, Workflow!Loose
<1>1. ReadAlike'
  BY DEF ReadAlike, Workflow!Unread, Workflow!Seen, Workflow!Pins, Workflow!Violates,
         Workflow!Commits
<1>2. Apart'
  BY DEF Apart, Reaches, Begun, Workflow!MayBeText, Workflow!MayBeSkipped
<1> QED
  BY <1>1, <1>2

\* The workflow is not opened before the files are listed.
LEMMA WorkflowKept ==
  ASSUME Scanned, ReadAlike, Apart, UNCHANGED workflow,
         stage \notin {"text", "done"}, stage' # "text", outcome' # "PASS"
  PROVE  Scanned' /\ ReadAlike' /\ Apart'
<1>1. Scanned'
  BY DEF Scanned, Lines, workflow, WorkflowShape, Workflow!Pins, Workflow!MatchesUses,
         Workflow!Commits
<1> QED
  BY <1>1, ReadingsKept

\* Before the workflow a tree is refused only where it does not agree.
LEMMA Refused ==
  ASSUME IInv, stage \notin {"text", "done"}, fail, UNCHANGED <<tree, read, edits, workflow>>,
         ledger' = ledger \/ (ledger' = tree.ledger /\ read = << >>),
         ~ (edits = 0 /\ Consistent)
  PROVE  IInv'
<1>1. stage' = "done" /\ outcome' = "FAIL"
  BY DEF fail
<1>2. LedgerShape(ledger')
  BY DEF IInv, Shapes, TreeShape
<1>3. TypeOK'
  BY <1>1, <1>2, EmptyIsList, ListBasics DEF IInv, TypeOK, LedgerShape
<1>4. Shapes'
  BY <1>1, <1>2 DEF IInv, Shapes, Reached, Stages
<1>5. Compared'
  BY <1>1, EmptyIsList DEF IInv, Compared, Reached, RecordHolds
<1>6. Quiet' /\ BlamesWorkflow'
  BY <1>1, ConsistentKept DEF IInv, Quiet, BlamesWorkflow, Reached
<1>7. Scanned' /\ ReadAlike' /\ Apart'
  BY <1>1, WorkflowKept DEF IInv
<1> QED
  BY <1>3, <1>4, <1>5, <1>6, <1>7 DEF IInv

-----------------------------------------------------------------------------
(* A tree that agrees meets each condition of the gate.                    *)

\* In such a tree an identifier is that of one claim, or of one entry.
LEMMA AgreedIds ==
  ASSUME TreeShape(tree), Agrees(tree)
  PROVE  /\ \A c, d \in ToSet(tree.ledger.claims) : c.id = d.id => c = d
         /\ \A d, e \in ToSet(tree.ledger.evidence) : d.id = e.id => d = e
<1>1. IsList(tree.ledger.claims) /\ IsList(tree.ledger.evidence)
  BY DEF TreeShape, LedgerShape
<1>2. /\ Len(tree.ledger.claims) = Cardinality({c.id : c \in ToSet(tree.ledger.claims)})
      /\ Len(tree.ledger.evidence) = Cardinality({e.id : e \in ToSet(tree.ledger.evidence)})
  BY DEF Agrees
<1>3. /\ \A i, j \in DOMAIN tree.ledger.claims :
           tree.ledger.claims[i].id = tree.ledger.claims[j].id => i = j
      /\ \A i, j \in DOMAIN tree.ledger.evidence :
           tree.ledger.evidence[i].id = tree.ledger.evidence[j].id => i = j
  BY <1>1, <1>2, CountedIdsAreDistinct
<1> QED
  BY <1>1, <1>3, ListBasics

LEMMA AgreedLedger ==
  ASSUME Consistent, ledger = tree.ledger
  PROVE  /\ Claims # {} /\ Evidence # {} /\ NothingLater
         /\ \A c \in Claims : ClaimHolds(c)
         /\ Len(ledger.claims) = Cardinality({c.id : c \in Claims})
         /\ Len(ledger.evidence) = Cardinality(EvidenceIds)
         /\ DOMAIN tree.records = EvidenceIds
<1>1. \A c \in Claims : ClaimHolds(c)
  BY DEF Consistent, Rests, ClaimHolds, Claims
<1>2. NothingLater
  BY DEF Consistent, Agrees, NothingLater, Claims, Evidence
<1> QED
  BY <1>1, <1>2 DEF Consistent, Agrees, Claims, Evidence, EvidenceIds

LEMMA AgreedRecord ==
  ASSUME Consistent, ledger = tree.ledger, NEW e \in Evidence
  PROVE  e.id \in DOMAIN tree.records /\ RecordHolds(e, tree.records[e.id])
BY DEF Consistent, Agrees, Evidence, RecordHolds

LEMMA AgreedGraph ==
  ASSUME IInv, Consistent, ledger = tree.ledger, Distinct, Len(read) = Len(ledger.evidence),
         NEW c \in Claims
  PROVE  Supported(c)
<1> SUFFICES ASSUME NEW id \in c.evidence
             PROVE  /\ id \in EvidenceIds
                    /\ EvidenceOf(id).component = c.component
                    /\ EvidenceOf(id).assurance \in ClaimAssurance(c.status)
                    /\ RecordOf(id).verdict = "PASS"
                    /\ c.status = "withdrawn" => RecordOf(id).verdict = "WITHDRAWN"
  BY DEF Supported
<1>1. c.status \in Active /\ Rests(c, tree)
  BY DEF Consistent, Claims
<1>2. PICK d \in ToSet(tree.ledger.evidence) :
        /\ d.id = id /\ d.component = c.component
        /\ CASE c.status = "public-reproducible" -> d.assurance = "public-reproducible"
             [] c.status = "public-attested"     -> d.assurance # "internal-ci-attestation"
             [] OTHER -> TRUE
        /\ tree.records[id].verdict = IF c.status = "withdrawn" THEN "WITHDRAWN" ELSE "PASS"
  BY <1>1 DEF Rests
<1>3. id \in EvidenceIds
  BY <1>2 DEF EvidenceIds, Evidence
<1>4. PICK e \in Evidence : e.id = id /\ EvidenceOf(id) = e /\ RecordHolds(e, RecordOf(id))
  BY <1>3, EntryOf DEF IInv, Shapes, Compared
<1>5. d = e
  BY <1>2, <1>4, AgreedIds DEF Consistent, IInv, Shapes, Evidence
<1>6. RecordOf(id) = tree.records[id]
  BY <1>4 DEF RecordHolds, Consistent, Agrees, Evidence
<1>7. e.assurance \in AssuranceLevels
  BY DEF IInv, Shapes, TreeShape, LedgerShape, Consistent, Agrees, Evidence
<1>8. e.assurance \in ClaimAssurance(c.status)
  <2>1. CASE c.status = "public-reproducible"
    BY <1>2, <1>5, <2>1 DEF ClaimAssurance
  <2>2. CASE c.status = "public-attested"
    BY <1>2, <1>5, <1>7, <2>2 DEF ClaimAssurance, AssuranceLevels
  <2>3. CASE c.status = "internally-verified"
    BY <1>7, <2>3 DEF ClaimAssurance
  <2> QED
    BY <1>1, <2>1, <2>2, <2>3 DEF Active
<1>9. c.status # "withdrawn"
  BY <1>1 DEF Active
<1> QED
  BY <1>2, <1>3, <1>4, <1>5, <1>6, <1>8, <1>9

LEMMA AgreedPage ==
  ASSUME IInv, Consistent, ledger = tree.ledger, Distinct,
         due \subseteq DOMAIN tree.pages, DocumentedBy(DOMAIN tree.pages \ due),
         NEW p \in due
  PROVE  LET blocks == tree.pages[p].blocks
         IN /\ blocks # << >> /\ Named(blocks) \cap documented = {}
            /\ \A id \in Named(blocks) : BlockHolds(LastFor(id, blocks))
<1> DEFINE blocks == tree.pages[p].blocks
<1>1. p \in DOMAIN tree.pages /\ IsList(blocks)
  BY DEF IInv, Shapes, TreeShape
<1>2. blocks # << >>
  BY <1>1 DEF Consistent, Agrees
<1>3. Named(blocks) \cap documented = {}
  <2>1. \A q \in DOMAIN tree.pages : Named(blocks) \cap Named(tree.pages[q].blocks) # {} => p = q
    BY <1>1 DEF Consistent, Agrees
  <2>2. \A q \in DOMAIN tree.pages \ due : Named(blocks) \cap Named(tree.pages[q].blocks) = {}
    BY <2>1
  <2> HIDE DEF blocks
  <2> QED
    BY <2>2 DEF DocumentedBy
<1>4. ASSUME NEW id \in Named(blocks)
      PROVE  BlockHolds(LastFor(id, blocks))
  <2> DEFINE b == LastFor(id, blocks)
  <2>1. b \in ToSet(blocks)
    BY <1>1, LastForIsOne
  <2> HIDE DEF b
  <2>2. PICK c \in ToSet(tree.ledger.claims) :
          /\ b.claim = c.id /\ b.statement = c.statement /\ b.band = c.status
          /\ b.evidence \in c.evidence /\ b.complete /\ b.linked
          /\ \E e \in ToSet(tree.ledger.evidence) : e.id = b.evidence /\ e.digest = b.digest
    BY <1>1, <2>1 DEF Consistent, Agrees
  <2>3. b.digest = EvidenceOf(b.evidence).digest
    BY <2>2, EvidenceOfIs DEF IInv, Shapes, Evidence
  <2>4. BlockHolds(b)
    BY <2>2, <2>3 DEF BlockHolds, Claims
  <2> QED
    BY <2>4 DEF b
<1> QED
  BY <1>2, <1>3, <1>4

LEMMA AgreedLinks ==
  ASSUME IInv, Consistent, ledger = tree.ledger, table = tree.readme,
         DocumentedBy(DOMAIN tree.pages)
  PROVE  WrittenOut /\ RowsHold
<1> DEFINE rows == tree.readme.rows
           shown(c, r) == r.claim = c.id /\ r.statement = c.statement /\ r.status = c.status
                          /\ r.evidence = c.evidence
<1>1. IsList(rows) /\ \A p \in DOMAIN tree.pages : IsList(tree.pages[p].blocks)
  BY DEF IInv, Shapes, TreeShape
<1>2. /\ \A r \in ToSet(rows) : \E c \in Claims : shown(c, r)
      /\ \A c \in Claims : \E r \in ToSet(rows) : shown(c, r)
  BY DEF Consistent, Agrees, Claims
<1>3. Named(rows) = {c.id : c \in Claims}
  <2>1. Named(rows) = {r.claim : r \in ToSet(rows)}
    BY DEF Named, ToSet
  <2> QED
    BY <1>2, <2>1
<1>4. \A c \in Claims : shown(c, LastFor(c.id, rows))
  <2> TAKE c \in Claims
  <2>1. c.id \in Named(rows)
    BY <1>3
  <2>2. LastFor(c.id, rows) \in ToSet(rows) /\ LastFor(c.id, rows).claim = c.id
    BY <1>1, <2>1, LastForIsOne
  <2>3. PICK d \in Claims : shown(d, LastFor(c.id, rows))
    BY <1>2, <2>2
  <2>4. c = d
    BY <2>2, <2>3, AgreedIds DEF Consistent, IInv, Shapes, Claims
  <2> QED
    BY <2>3, <2>4
<1>5. EvidenceIds \subseteq tree.readme.mentions \cup UNION {r.evidence : r \in ToSet(rows)}
  <2>1. \A e \in Evidence : e.id \in tree.readme.mentions \cup UNION {c.evidence : c \in Claims}
    BY DEF Consistent, Agrees, Evidence, Claims
  <2> QED
    BY <1>2, <2>1 DEF EvidenceIds
<1>6. RowsHold
  BY <1>3, <1>4, <1>5 DEF RowsHold
<1>7. ASSUME NEW c \in Claims
      PROVE  c.id \in tree.properties.claims \cup documented
  <2>1. c.id \in tree.properties.claims
          \/ \E p \in DOMAIN tree.pages : \E b \in ToSet(tree.pages[p].blocks) : b.claim = c.id
    BY SMTT(30) DEF Consistent, Agrees, Claims
  <2>2. \A p \in DOMAIN tree.pages :
          Named(tree.pages[p].blocks) = {b.claim : b \in ToSet(tree.pages[p].blocks)}
    BY DEF Named, ToSet
  <2> QED
    BY <2>1, <2>2 DEF DocumentedBy
<1> QED
  BY <1>6, <1>7 DEF WrittenOut

\* The evidence of an agreeing tree's claims has a record.
LEMMA AgreedEvidence ==
  ASSUME Consistent, ledger = tree.ledger
  PROVE  DocumentedEvidence \subseteq DOMAIN tree.records
<1>1. \A c \in Claims : c.evidence \subseteq EvidenceIds
  BY DEF Consistent, Rests, Claims, EvidenceIds, Evidence
<1> QED
  BY <1>1, AgreedLedger DEF DocumentedEvidence

LEMMA RecordsAreClean ==
  ASSUME Consistent, NEW id \in DOMAIN tree.records
  PROVE  tree.records[id].text = "clean"
BY DEF Consistent, Agrees

LEMMA AgreedSurface ==
  ASSUME IInv, Consistent, ledger = tree.ledger, NEW file \in SurfaceFiles
  PROVE  Fragments(file) \subseteq {"clean"}
<1>1. CASE file \in DOMAIN tree.pages
  BY <1>1 DEF Fragments, Consistent, Agrees, IInv, Shapes, TreeShape, SingleFiles
<1>2. CASE file \in DOMAIN tree.records
  <2>1. file \notin DOMAIN tree.pages /\ file \notin SingleFiles
    BY <1>2 DEF IInv, Shapes, TreeShape
  <2> QED
    BY <1>2, <2>1, RecordsAreClean DEF Fragments, SingleFiles
<1>3. CASE file = "readme"
  <2>1. file \notin DOMAIN tree.pages /\ file \notin DOMAIN tree.records
    BY <1>3 DEF IInv, Shapes, TreeShape, SingleFiles
  <2>2. \A r \in ToSet(tree.readme.rows) : r.text = "clean"
    BY DEF Consistent, Agrees
  <2> QED
    BY <1>3, <2>1, <2>2 DEF Fragments
<1>4. CASE file = "status"
  <2>1. file \notin DOMAIN tree.pages /\ file \notin DOMAIN tree.records
    BY <1>4 DEF IInv, Shapes, TreeShape, SingleFiles
  <2>2. \A l \in tree.status : l.text = "clean"
    BY DEF Consistent, Agrees
  <2> QED
    BY <1>4, <2>1, <2>2 DEF Fragments
<1> QED
  BY <1>1, <1>2, <1>3, <1>4, AgreedEvidence DEF SurfaceFiles

LEMMA AgreedFiles ==
  ASSUME Consistent, ledger = tree.ledger
  PROVE  LedgerClean /\ tree.present
BY DEF Consistent, Agrees, LedgerClean, Claims, Evidence

LEMMA AgreedText ==
  ASSUME IInv, Consistent, NEW file \in PublicFiles
  PROVE  "forbidden" \notin Texts(file)
<1>0. /\ DOMAIN tree.pages \cap DOMAIN tree.records = {}
      /\ \A f \in SingleFiles : f \notin DOMAIN tree.pages /\ f \notin DOMAIN tree.records
  BY DEF IInv, Shapes, TreeShape
<1>1. CASE file \in DOMAIN tree.pages
  <2>1. tree.pages[file].text = "clean"
    BY <1>1 DEF Consistent, Agrees
  <2> QED
    BY <1>0, <1>1, <2>1 DEF Texts, SingleFiles
<1>2. CASE file \in DOMAIN tree.records
  BY <1>0, <1>2, RecordsAreClean DEF Texts, SingleFiles
<1>3. CASE file = "ledger"
  <2>1. \A x \in ToSet(tree.ledger.claims) \cup ToSet(tree.ledger.evidence) : x.text = "clean"
    BY DEF Consistent, Agrees
  <2> QED
    BY <1>0, <1>3, <2>1 DEF Texts, SingleFiles
<1>4. CASE file = "readme"
  <2>1. (\A r \in ToSet(tree.readme.rows) : r.text = "clean") /\ tree.readme.text = "clean"
    BY DEF Consistent, Agrees
  <2> QED
    BY <1>0, <1>4, <2>1 DEF Texts, SingleFiles
<1>5. CASE file = "status"
  <2>1. \A l \in tree.status : l.text = "clean"
    BY DEF Consistent, Agrees
  <2> QED
    BY <1>0, <1>5, <2>1 DEF Texts, SingleFiles
<1>6. CASE file = "properties" \/ file = "others"
  <2>1. tree.properties.text = "clean" /\ tree.others = "clean"
    BY DEF Consistent, Agrees
  <2> QED
    BY <1>0, <1>6, <2>1 DEF Texts, SingleFiles
<1> QED
  BY <1>1, <1>2, <1>3, <1>4, <1>5, <1>6 DEF PublicFiles, SingleFiles

-----------------------------------------------------------------------------
(* The steps.                                                              *)

USE DEF Stages

LEMMA InitIInv == Init => IInv
<1> SUFFICES ASSUME Init PROVE IInv
  OBVIOUS
<1>1. /\ TreeShape(tree) /\ ledger = tree.ledger /\ LedgerShape(ledger)
      /\ Len(ledger.evidence) \in Nat /\ tree.saves \in Nat
  BY GateAssumption, ListBasics DEF Init, GateAssumption, TreeShape, LedgerShape
<1>2. TypeOK /\ Shapes
  BY <1>1, EmptyIsList DEF Init, TypeOK, Shapes, Reached
<1>3. Compared /\ Quiet /\ BlamesWorkflow
  BY <1>1, EmptyIsList DEF Init, Compared, Quiet, BlamesWorkflow, Reached
<1>4. Scanned /\ ReadAlike /\ Apart
  BY EmptyIsList
     DEF Init, Workflow!Init, Workflow!None, Scanned, ReadAlike, Apart, Lines, WorkflowShape
<1> QED
  BY <1>2, <1>3, <1>4 DEF IInv

\* Before it is done the gate has no outcome, and nobody has changed what it compared.
LEMMA NoOutcomeYet ==
  ASSUME IInv, stage # "done"
  PROVE  outcome = "none"
BY DEF IInv, TypeOK

LEMMA LoadLedgerKeeps == IInv /\ LoadLedger => IInv'
<1> SUFFICES ASSUME IInv, LoadLedger PROVE IInv'
  OBVIOUS
<1> DEFINE ok == /\ tree.ledger.formed
                 /\ RequirePublished => tree.ledger.status = "published"
<1>1. /\ stage = "ledger" /\ ledger' = tree.ledger /\ outcome = "none" /\ read = << >>
      /\ documented = {}
      /\ UNCHANGED <<tree, listed, read, table, documented, due, edits, workflow>>
  BY NoOutcomeYet DEF LoadLedger, IInv, Compared
<1>2. CASE ok /\ stage' = "claims" /\ outcome' = outcome
  <2>1. TypeOK' /\ Shapes'
    BY <1>1, <1>2, EmptyIsList, ListBasics
       DEF IInv, TypeOK, Shapes, TreeShape, LedgerShape, Reached
  <2>2. Compared'
    BY <1>1, <1>2, EmptyIsList DEF Compared, Reached
  <2>3. Quiet' /\ BlamesWorkflow'
    BY <1>1, <1>2 DEF Quiet, BlamesWorkflow, Reached
  <2> QED
    BY <1>1, <1>2, <2>1, <2>2, <2>3, WorkflowKept DEF IInv
<1>3. CASE ~ok /\ fail
  <2>1. ~ (edits = 0 /\ Consistent)
    BY <1>3 DEF Consistent, Agrees
  <2> QED
    BY <1>1, <1>3, <2>1, Refused
<1> QED
  BY <1>2, <1>3 DEF LoadLedger, Require

LEMMA CheckLedgerKeeps == IInv /\ CheckLedger => IInv'
<1> SUFFICES ASSUME IInv, CheckLedger PROVE IInv'
  OBVIOUS
<1> DEFINE ok == /\ Claims # {} /\ Evidence # {}
                 /\ \A c \in Claims : ClaimHolds(c)
                 /\ NothingLater
                 /\ Len(ledger.claims) = Cardinality({c.id : c \in Claims})
                 /\ Len(ledger.evidence) = Cardinality(EvidenceIds)
<1>1. /\ stage = "claims" /\ outcome = "none" /\ read = << >> /\ documented = {}
      /\ UNCHANGED <<tree, ledger, listed, read, table, documented, due, edits, workflow>>
  BY NoOutcomeYet DEF CheckLedger, IInv, Compared, gate
<1>2. CASE ok /\ stage' = "listing" /\ outcome' = outcome
  <2>1. TypeOK' /\ Shapes'
    BY <1>1, <1>2 DEF IInv, TypeOK, Shapes, Reached
  <2>2. Distinct
    BY <1>2, CountedIdsAreDistinct
       DEF IInv, Shapes, LedgerShape, Distinct, EvidenceIds, Evidence
  <2>3. Compared'
    BY <1>1, <1>2, <2>2, EmptyIsList, LedgerKept DEF Compared, Reached
  <2>4. Quiet' /\ BlamesWorkflow'
    BY <1>1, <1>2 DEF IInv, Quiet, BlamesWorkflow, Reached
  <2> QED
    BY <1>1, <1>2, <2>1, <2>3, <2>4, WorkflowKept DEF IInv
<1>3. CASE ~ok /\ fail
  <2>1. ~ (edits = 0 /\ Consistent)
    BY <1>3, AgreedLedger DEF IInv, Quiet
  <2> QED
    BY <1>1, <1>3, <2>1, Refused
<1> QED
  BY <1>2, <1>3 DEF CheckLedger, Require

LEMMA ListRecordsKeeps == IInv /\ ListRecords => IInv'
<1> SUFFICES ASSUME IInv, ListRecords PROVE IInv'
  OBVIOUS
<1>1. /\ stage = "listing" /\ outcome = "none" /\ read = << >> /\ documented = {} /\ Distinct
      /\ UNCHANGED <<tree, ledger, read, table, documented, due, edits, workflow>>
  BY NoOutcomeYet DEF ListRecords, IInv, Compared, Reached
<1>2. CASE DOMAIN tree.records = EvidenceIds /\ stage' = "records" /\ outcome' = outcome
  <2>1. TypeOK' /\ Shapes'
    BY <1>1, <1>2 DEF IInv, TypeOK, Shapes, Reached
  <2>2. Compared'
    BY <1>1, <1>2, EmptyIsList, LedgerKept DEF Compared, Reached
  <2>3. Quiet' /\ BlamesWorkflow'
    BY <1>1, <1>2, LedgerKept DEF IInv, Quiet, BlamesWorkflow, Reached
  <2> QED
    BY <1>1, <1>2, <2>1, <2>2, <2>3, WorkflowKept DEF IInv
<1>3. CASE DOMAIN tree.records # EvidenceIds /\ fail
  <2>1. ~ (edits = 0 /\ Consistent)
    BY <1>3, AgreedLedger DEF IInv, Quiet
  <2> QED
    BY <1>1, <1>3, <2>1, Refused
<1> QED
  BY <1>2, <1>3 DEF ListRecords, Require

LEMMA ReadRecordKeeps == IInv /\ ReadRecord => IInv'
<1> SUFFICES ASSUME IInv, ReadRecord PROVE IInv'
  OBVIOUS
<1> DEFINE e == ledger.evidence[Len(read) + 1]
           r == tree.records[e.id]
           ok == e.id \in DOMAIN tree.records /\ RecordHolds(e, r)
<1>1. /\ stage = "records" /\ outcome = "none" /\ documented = {} /\ Distinct
      /\ Len(read) < Len(ledger.evidence)
      /\ UNCHANGED <<tree, ledger, listed, table, documented, due, edits, workflow>>
  BY NoOutcomeYet DEF ReadRecord, IInv, Compared, Reached
<1>2. IsList(read) /\ IsList(ledger.evidence)
  BY DEF IInv, Shapes, LedgerShape
<1>3. CASE ok /\ read' = Append(read, r) /\ UNCHANGED <<stage, outcome>>
  <2>1. /\ IsList(read') /\ Len(read') = Len(read) + 1 /\ DOMAIN read' = DOMAIN read \cup {Len(read) + 1}
        /\ \A i \in DOMAIN read : read'[i] = read[i]
        /\ read'[Len(read) + 1] = r
    BY <1>2, <1>3, AppendToList
  <2>2. Len(read') <= Len(ledger.evidence)
    BY <1>1, <1>2, <2>1, ListBasics
  <2>3. TypeOK' /\ Shapes'
    BY <1>1, <1>3, <2>1, <2>2 DEF IInv, TypeOK, Shapes, Reached
  <2>4. \A i \in DOMAIN read' : RecordHolds(ledger.evidence[i], read'[i])
    BY <1>3, <2>1 DEF IInv, Compared
  <2>5. (\A i \in DOMAIN read : RecordHolds(ledger.evidence[i], read[i]))'
    BY <1>1, <2>4 DEF RecordHolds
  <2>6. Compared'
    BY <1>1, <1>3, <2>5, LedgerKept DEF Compared, Reached
  <2>7. Quiet' /\ BlamesWorkflow'
    BY <1>1, <1>3, LedgerKept DEF IInv, Quiet, BlamesWorkflow, Reached
  <2> QED
    BY <1>1, <1>3, <2>3, <2>6, <2>7, WorkflowKept DEF IInv
<1>4. CASE ~ok /\ fail /\ read' = read
  <2>1. e \in Evidence
    BY <1>1, <1>2, ListBasics DEF Evidence
  <2>2. ~ (edits = 0 /\ Consistent)
    BY <1>4, <2>1, AgreedRecord DEF IInv, Quiet
  <2> QED
    BY <1>1, <1>4, <2>2, Refused
<1> QED
  BY <1>3, <1>4 DEF ReadRecord

LEMMA CheckGraphKeeps == IInv /\ CheckGraph => IInv'
<1> SUFFICES ASSUME IInv, CheckGraph PROVE IInv'
  OBVIOUS
<1> DEFINE ok == \A c \in Claims : Supported(c)
<1>1. /\ stage = "records" /\ outcome = "none" /\ documented = {} /\ Distinct
      /\ Len(read) = Len(ledger.evidence) /\ due' = DOMAIN tree.pages
      /\ UNCHANGED <<tree, ledger, listed, read, table, documented, edits, workflow>>
  BY NoOutcomeYet DEF CheckGraph, IInv, Compared, Reached
<1>2. CASE ok /\ stage' = "pages" /\ outcome' = outcome
  <2>1. TypeOK' /\ Shapes'
    BY <1>1, <1>2 DEF IInv, TypeOK, Shapes, Reached
  <2>2. (\A i \in DOMAIN read : RecordHolds(ledger.evidence[i], read[i]))'
    BY <1>1 DEF IInv, Compared, RecordHolds
  <2>3. Compared'
    BY <1>1, <1>2, <2>2, LedgerKept, SupportKept DEF Compared, Reached
  <2>4. DocumentedBy(DOMAIN tree.pages \ due)'
    BY <1>1 DEF DocumentedBy
  <2>5. Quiet' /\ BlamesWorkflow'
    BY <1>1, <1>2, <2>4, LedgerKept DEF IInv, Quiet, BlamesWorkflow, Reached
  <2> QED
    BY <1>1, <1>2, <2>1, <2>3, <2>5, WorkflowKept DEF IInv
<1>3. CASE ~ok /\ fail
  <2>1. ~ (edits = 0 /\ Consistent)
    BY <1>1, <1>3, AgreedGraph DEF IInv, Quiet
  <2> QED
    BY <1>1, <1>3, <2>1, Refused
<1> QED
  BY <1>2, <1>3 DEF CheckGraph, Require

\* What stays compared while the ledger, the records and the table read stay.
LEMMA ComparedKept ==
  ASSUME IInv, stage \in {"pages", "links", "surface", "text"}, UNCHANGED <<ledger, read>>,
         stage' \notin {"ledger", "claims", "listing", "records"},
         stage' \in {"surface", "text"} \/ outcome' = "PASS" => RowsHold' /\ WrittenOut',
         stage' # "done" => documented' \subseteq ClaimIds
  PROVE  Compared'
<1>1. /\ \A i \in DOMAIN read : RecordHolds(ledger.evidence[i], read[i])
      /\ Distinct /\ Len(read) = Len(ledger.evidence) /\ \A c \in Claims : Supported(c)
  BY DEF IInv, Compared, Reached
<1>2. (\A i \in DOMAIN read : RecordHolds(ledger.evidence[i], read[i]))'
  BY <1>1 DEF RecordHolds
<1> QED
  BY <1>1, <1>2, LedgerKept, SupportKept DEF Compared, Reached

LEMMA CheckPageKeeps == IInv /\ CheckPage => IInv'
<1> SUFFICES ASSUME IInv, CheckPage PROVE IInv'
  OBVIOUS
<1> DEFINE blocks(p) == tree.pages[p].blocks
           ok(p) == /\ blocks(p) # << >> /\ Named(blocks(p)) \cap documented = {}
                    /\ \A id \in Named(blocks(p)) : BlockHolds(LastFor(id, blocks(p)))
<1>1. PICK p \in due :
        /\ Require(ok(p), "pages")
        /\ documented' = documented \cup Named(blocks(p))
        /\ due' = due \ {p}
  BY DEF CheckPage
<1>2. /\ stage = "pages" /\ outcome = "none" /\ Distinct
      /\ UNCHANGED <<tree, ledger, listed, read, table, edits, workflow>>
  BY NoOutcomeYet DEF CheckPage, IInv, Compared, Reached
<1>3. /\ due \subseteq DOMAIN tree.pages /\ IsList(blocks(p))
      /\ edits = 0 => /\ ledger = tree.ledger /\ DocumentedBy(DOMAIN tree.pages \ due)
                      /\ DOMAIN tree.records = EvidenceIds
  BY <1>2 DEF IInv, Shapes, TreeShape, Quiet, Reached
<1>4. CASE ok(p) /\ stage' = "pages" /\ outcome' = outcome
  <2>1. documented' \subseteq ClaimIds
    <3>1. ASSUME NEW id \in Named(blocks(p))
          PROVE  id \in ClaimIds
      <4>1. LastFor(id, blocks(p)).claim = id
        BY <1>3, LastForIsOne
      <4>2. PICK c \in Claims : c.id = LastFor(id, blocks(p)).claim
        BY <1>4 DEF BlockHolds
      <4> QED
        BY <4>1, <4>2 DEF ClaimIds
    <3>2. documented \subseteq ClaimIds
      BY <1>2 DEF IInv, Compared
    <3> QED
      BY <1>1, <3>1, <3>2
  <2>2. TypeOK' /\ Shapes'
    BY <1>1, <1>2, <1>4 DEF IInv, TypeOK, Shapes, Reached
  <2>3. Compared'
    BY <1>2, <1>4, <2>1, ComparedKept
  <2>4. edits = 0 => (DocumentedBy(DOMAIN tree.pages \ due))'
    <3> HAVE edits = 0
    <3>1. DOMAIN tree.pages \ due' = (DOMAIN tree.pages \ due) \cup {p}
      BY <1>1, <1>3
    <3>2. UNCHANGED tree /\ DocumentedBy(DOMAIN tree.pages \ due)
      BY <1>2, <1>3
    <3>3. documented' = documented \cup Named(blocks(p)) /\ tree.pages[p].blocks # <<>>
      BY <1>1, <1>4 DEF Named
    <3> QED
      BY <3>1, <3>2, <3>3 DEF DocumentedBy, Named
  <2>5. Quiet' /\ BlamesWorkflow'
    BY <1>2, <1>3, <1>4, <2>4, LedgerKept DEF Quiet, BlamesWorkflow, Reached
  <2> QED
    BY <1>2, <1>4, <2>2, <2>3, <2>5, WorkflowKept DEF IInv
<1>5. CASE ~ok(p) /\ fail
  <2>1. ~ (edits = 0 /\ Consistent)
    BY <1>2, <1>3, <1>5, AgreedPage
  <2> QED
    BY <1>2, <1>5, <2>1, Refused
<1> QED
  BY <1>1, <1>4, <1>5 DEF Require

LEMMA ReadReadmeKeeps == IInv /\ ReadReadme => IInv'
<1> SUFFICES ASSUME IInv, ReadReadme PROVE IInv'
  OBVIOUS
<1>1. /\ stage = "pages" /\ outcome = "none" /\ due = {}
      /\ stage' = "links" /\ table' = tree.readme /\ outcome' = outcome
      /\ UNCHANGED <<tree, ledger, listed, read, documented, due, edits, workflow>>
  BY NoOutcomeYet DEF ReadReadme
<1>2. TypeOK' /\ Shapes'
  BY <1>1, LedgerKept DEF IInv, TypeOK, Shapes, Compared, Reached, TreeShape
<1>3. documented \subseteq ClaimIds
  BY <1>1 DEF IInv, Compared
<1>4. Compared'
  BY <1>1, <1>3, ComparedKept
<1>5. edits = 0 => DocumentedBy(DOMAIN tree.pages)'
  <2> HAVE edits = 0
  <2>1. DOMAIN tree.pages \ due = DOMAIN tree.pages
    BY <1>1
  <2>2. DocumentedBy(DOMAIN tree.pages \ due)
    BY <1>1 DEF IInv, Quiet
  <2>3. DocumentedBy(DOMAIN tree.pages)
    BY <2>1, <2>2
  <2> QED
    BY <1>1, <2>3 DEF DocumentedBy, Named
<1>6. Quiet' /\ BlamesWorkflow'
  BY <1>1, <1>5, LedgerKept DEF IInv, Quiet, BlamesWorkflow, Reached
<1> QED
  BY <1>1, <1>2, <1>4, <1>6, WorkflowKept DEF IInv

LEMMA CheckLinksKeeps == IInv /\ CheckLinks => IInv'
<1> SUFFICES ASSUME IInv, CheckLinks PROVE IInv'
  OBVIOUS
<1> DEFINE ok == WrittenOut /\ RowsHold
<1>1. /\ stage = "links" /\ outcome = "none" /\ due' = SurfaceFiles
      /\ UNCHANGED <<tree, ledger, listed, read, table, documented, edits, workflow>>
  BY NoOutcomeYet DEF CheckLinks
<1>2. edits = 0 => /\ ledger = tree.ledger /\ table = tree.readme
                   /\ DocumentedBy(DOMAIN tree.pages) /\ DOMAIN tree.records = EvidenceIds
  BY <1>1 DEF IInv, Quiet, Reached
<1>3. CASE ok /\ stage' = "surface" /\ outcome' = outcome
  <2>1. documented \subseteq ClaimIds
    BY <1>1 DEF IInv, Compared
  <2>2. TypeOK' /\ Shapes'
    BY <1>1, <1>3, <2>1, LedgerKept DEF IInv, TypeOK, Shapes, Reached
  <2>3. Compared'
    BY <1>1, <1>3, <2>1, ComparedKept, RowsKept, WrittenKept
  <2>4. DOMAIN tree.pages' = DOMAIN tree.pages /\ (SurfaceFiles \ due)' = {} /\ Clean({})'
    BY <1>1, SurfaceKept DEF Clean
  <2>5. Quiet' /\ BlamesWorkflow'
    BY <1>1, <1>2, <1>3, <2>4, SurfaceKept, LedgerKept
       DEF Quiet, BlamesWorkflow, Reached, Clean
  <2> QED
    BY <1>1, <1>3, <2>2, <2>3, <2>5, WorkflowKept DEF IInv
<1>4. CASE ~ok /\ fail
  <2>1. ~ (edits = 0 /\ Consistent)
    BY <1>2, <1>4, AgreedLinks
  <2> QED
    BY <1>1, <1>4, <2>1, Refused
<1> QED
  BY <1>3, <1>4 DEF CheckLinks, Require

LEMMA ScanSurfaceKeeps == IInv /\ ScanSurface => IInv'
<1> SUFFICES ASSUME IInv, ScanSurface PROVE IInv'
  OBVIOUS
<1>1. PICK file \in due :
        /\ Require(Fragments(file) \subseteq {"clean"}, "surface")
        /\ due' = due \ {file}
  BY DEF ScanSurface
<1>2. /\ stage = "surface" /\ outcome = "none"
      /\ UNCHANGED <<tree, ledger, listed, read, table, documented, edits, workflow>>
  BY NoOutcomeYet DEF ScanSurface
<1>3. edits = 0 => /\ ledger = tree.ledger /\ table = tree.readme
                   /\ DocumentedBy(DOMAIN tree.pages) /\ DOMAIN tree.records = EvidenceIds
                   /\ due \subseteq SurfaceFiles /\ Clean(SurfaceFiles \ due)
  BY <1>2 DEF IInv, Quiet, Reached
<1>4. CASE Fragments(file) \subseteq {"clean"} /\ stage' = "surface" /\ outcome' = outcome
  <2>1. documented \subseteq ClaimIds /\ RowsHold /\ WrittenOut
    BY <1>2 DEF IInv, Compared, Reached
  <2>2. TypeOK' /\ Shapes'
    BY <1>2, <1>4, <2>1, LedgerKept DEF IInv, TypeOK, Shapes, Reached
  <2>3. Compared'
    BY <1>2, <1>4, <2>1, ComparedKept, RowsKept, WrittenKept
  <2>4. edits = 0 => due' \subseteq SurfaceFiles' /\ Clean(SurfaceFiles \ due)'
    BY <1>1, <1>2, <1>3, <1>4, SurfaceKept DEF Clean
  <2>5. Quiet' /\ BlamesWorkflow'
    BY <1>2, <1>3, <1>4, <2>4, SurfaceKept, LedgerKept DEF Quiet, BlamesWorkflow, Reached
  <2> QED
    BY <1>2, <1>4, <2>2, <2>3, <2>5, WorkflowKept DEF IInv
<1>5. CASE ~(Fragments(file) \subseteq {"clean"}) /\ fail
  <2>1. ~ (edits = 0 /\ Consistent)
    BY <1>3, <1>5, AgreedSurface
  <2> QED
    BY <1>2, <1>5, <2>1, Refused
<1> QED
  BY <1>1, <1>4, <1>5 DEF Require

LEMMA ListFilesKeeps == IInv /\ ListFiles => IInv'
<1> SUFFICES ASSUME IInv, ListFiles PROVE IInv'
  OBVIOUS
<1> DEFINE ok == LedgerClean /\ tree.present
<1>1. PICK w \in IF tree.workflow THEN Workflows ELSE {<< >>} : Workflow!Open(w)
  BY DEF ListFiles
<1>2. /\ stage = "surface" /\ outcome = "none" /\ due = {} /\ due' = PublicFiles
      /\ UNCHANGED <<tree, ledger, listed, read, table, documented, edits>>
  BY NoOutcomeYet DEF ListFiles
<1>3. edits = 0 => /\ ledger = tree.ledger /\ table = tree.readme
                   /\ DocumentedBy(DOMAIN tree.pages) /\ DOMAIN tree.records = EvidenceIds
                   /\ Clean(SurfaceFiles)
  BY <1>2 DEF IInv, Quiet, Reached, Clean
<1>4. /\ number' = 0 /\ block' = Workflow!None /\ scalar' = Workflow!None
      /\ pins' = {} /\ refused' = {} /\ structure' = {} /\ text' = w
  BY <1>1, <1>2 DEF Workflow!Open, IInv, Scanned, Lines
<1>5. WorkflowShape(w) /\ Len(w) \in Nat
  BY GateAssumption, EmptyIsList, ListBasics DEF GateAssumption, WorkflowShape
<1>6. Lines' = {}
  BY <1>4 DEF Lines
<1>7. outcome' # "PASS" /\ stage' \in {"text", "done"} => Scanned' /\ ReadAlike' /\ Apart'
  BY <1>4, <1>5, <1>6 DEF Scanned, ReadAlike, Apart, Workflow!None
<1>8. CASE ok /\ stage' = "text" /\ outcome' = outcome
  <2>1. documented \subseteq ClaimIds /\ RowsHold /\ WrittenOut
    BY <1>2 DEF IInv, Compared, Reached
  <2>2. TypeOK' /\ Shapes'
    BY <1>2, <1>8, <2>1, LedgerKept DEF IInv, TypeOK, Shapes, Reached
  <2>3. Compared'
    BY <1>2, <1>8, <2>1, ComparedKept, RowsKept, WrittenKept
  <2>4. edits = 0 => Clean(SurfaceFiles)'
    BY <1>2, <1>3, SurfaceKept DEF Clean
  <2>5. Quiet' /\ BlamesWorkflow'
    BY <1>2, <1>3, <1>8, <2>4, SurfaceKept, LedgerKept DEF Quiet, BlamesWorkflow, Reached
  <2> QED
    BY <1>2, <1>7, <1>8, <2>2, <2>3, <2>5 DEF IInv
<1>9. CASE ~ok /\ fail
  <2>1. ~ (edits = 0 /\ Consistent)
    BY <1>3, <1>9, AgreedFiles
  <2>2. stage' = "done" /\ outcome' = "FAIL"
    BY <1>9 DEF fail
  <2>3. TypeOK' /\ Shapes'
    BY <1>2, <2>2 DEF IInv, TypeOK, Shapes, Reached
  <2>4. Compared'
    BY <1>2, <2>2, ComparedKept
  <2>5. Quiet' /\ BlamesWorkflow'
    BY <1>2, <1>3, <2>1, <2>2, ConsistentKept DEF Quiet, BlamesWorkflow, Reached
  <2> QED
    BY <1>7, <2>2, <2>3, <2>4, <2>5 DEF IInv
<1> QED
  BY <1>8, <1>9 DEF ListFiles, Require

\* In the last stage neither the tree nor the gate's copies change, and files are
\* struck off.
LEMMA LastStageKept ==
  ASSUME IInv, stage = "text", stage' \in {"text", "done"},
         outcome' \in {"none", "PASS", "FAIL"}, stage' = "done" <=> outcome' # "none",
         UNCHANGED <<tree, ledger, read, table, documented, edits>>, due' \subseteq due
  PROVE  TypeOK' /\ Shapes' /\ Compared' /\ Quiet'
<1>1. documented \subseteq ClaimIds /\ RowsHold /\ WrittenOut /\ IsList(table.rows)
  BY DEF IInv, Shapes, Compared, Reached
<1>2. TypeOK' /\ Shapes'
  BY <1>1, LedgerKept DEF IInv, TypeOK, Shapes, Reached
<1>3. Compared'
  BY <1>1, ComparedKept, RowsKept, WrittenKept
<1>4. edits = 0 => /\ ledger = tree.ledger /\ table = tree.readme
                   /\ DocumentedBy(DOMAIN tree.pages) /\ DOMAIN tree.records = EvidenceIds
                   /\ Clean(SurfaceFiles) /\ due \subseteq PublicFiles
  BY DEF IInv, Quiet, Reached
<1>5. edits = 0 => Clean(SurfaceFiles)'
  BY <1>4, SurfaceKept DEF Clean
<1>6. Quiet'
  BY <1>4, <1>5, SurfaceKept, LedgerKept DEF Quiet, Reached
<1> QED
  BY <1>2, <1>3, <1>6

LEMMA ScanWorkflowKeeps == IInv /\ ScanWorkflow => IInv'
<1> SUFFICES ASSUME IInv, ScanWorkflow PROVE IInv'
  OBVIOUS
<1>1. /\ stage = "text" /\ outcome = "none" /\ Workflow!Read
      /\ UNCHANGED <<tree, ledger, read, table, documented, edits>> /\ due' = due
  BY NoOutcomeYet DEF ScanWorkflow, gate
<1>2. /\ text' = text /\ ReadAlike' /\ Apart'
      /\ WorkflowShape(text)' /\ number' \in 0 .. Len(text') /\ number' # 0
      /\ pins' \subseteq Lines' /\ refused' \subseteq Lines' /\ structure' \subseteq Lines'
      /\ \A k \in pins' : Workflow!Pins(text[k])
      /\ \A k \in Lines' : Workflow!Commits(text[k]) > 0 /\ k \notin pins' => k \in refused'
  BY <1>1, ReadsALine, ReadKeepsReadAlike, ReadKeepsApart, ReadKeepsLines DEF IInv
<1>5. ASSUME stage' \in {"text", "done"},
             (stage' = "text" /\ number' = Len(text')) \/ outcome' = "PASS" =>
                number' = Len(text') /\ refused' = {}
      PROVE  Scanned'
  <2>1. (\A k \in pins : Workflow!Pins(text[k]))'
    BY <1>2 DEF Workflow!Pins, Workflow!MatchesUses
  <2>2. (\A k \in Lines : Workflow!Commits(text[k]) > 0 /\ k \notin pins => k \in refused)'
    BY <1>2 DEF Workflow!Commits
  <2> QED
    BY <1>2, <1>5, <2>1, <2>2 DEF Scanned
<1>3. CASE Judged(number', refused') /\ stage' = "text" /\ outcome' = outcome
  <2>1. Scanned'
    BY <1>1, <1>2, <1>3, <1>5 DEF Judged
  <2>2. BlamesWorkflow'
    BY <1>1, <1>3 DEF BlamesWorkflow
  <2> QED
    BY <1>1, <1>2, <1>3, <2>1, <2>2, LastStageKept DEF IInv
<1>4. CASE ~Judged(number', refused') /\ fail
  <2>1. stage' = "done" /\ outcome' = "FAIL"
    BY <1>4 DEF fail
  <2>2. Scanned'
    BY <1>5, <2>1
  <2>3. BlamesWorkflow'
    BY <1>2, <1>4 DEF BlamesWorkflow, Judged
  <2> QED
    BY <1>1, <1>2, <2>1, <2>2, <2>3, LastStageKept DEF IInv
<1> QED
  BY <1>3, <1>4 DEF ScanWorkflow, Require

\* Once the workflow is read, nothing of it changes.
LEMMA WorkflowIsRead ==
  ASSUME IInv, stage = "text", number = Len(text), UNCHANGED workflow,
         stage' \in {"text", "done"}
  PROVE  Scanned' /\ ReadAlike' /\ Apart'
<1>1. Scanned'
  BY DEF IInv, Scanned, Lines, workflow, WorkflowShape, Workflow!Pins, Workflow!MatchesUses,
         Workflow!Commits
<1> QED
  BY <1>1, ReadingsKept DEF IInv

LEMMA ScanFileKeeps == IInv /\ ScanFile => IInv'
<1> SUFFICES ASSUME IInv, ScanFile PROVE IInv'
  OBVIOUS
<1> DEFINE file == CHOOSE f \in due : TRUE
<1>1. /\ stage = "text" /\ outcome = "none" /\ number = Len(text)
      /\ UNCHANGED <<tree, ledger, read, table, documented, edits, workflow>>
      /\ due' = due \ {file} /\ due # {}
      /\ Require("forbidden" \notin Texts(file), "text")
  BY NoOutcomeYet DEF ScanFile
<1>2. file \in due
  BY <1>1
<1> HIDE DEF file
<1>3. CASE "forbidden" \notin Texts(file) /\ stage' = "text" /\ outcome' = outcome
  <2>1. BlamesWorkflow'
    BY <1>1, <1>3 DEF BlamesWorkflow
  <2> QED
    BY <1>1, <1>3, <2>1, LastStageKept, WorkflowIsRead DEF IInv
<1>4. CASE "forbidden" \in Texts(file) /\ fail
  <2>1. stage' = "done" /\ outcome' = "FAIL"
    BY <1>4 DEF fail
  <2>2. ~ (edits = 0 /\ Consistent)
    BY <1>1, <1>2, <1>4, AgreedText DEF IInv, Quiet
  <2>3. BlamesWorkflow'
    BY <1>1, <2>2, ConsistentKept DEF BlamesWorkflow
  <2> QED
    BY <1>1, <2>1, <2>3, LastStageKept, WorkflowIsRead DEF IInv
<1> QED
  BY <1>1, <1>3, <1>4 DEF Require

LEMMA AcceptKeeps == IInv /\ Accept => IInv'
<1> SUFFICES ASSUME IInv, Accept PROVE IInv'
  OBVIOUS
<1>1. /\ stage = "text" /\ number = Len(text) /\ stage' = "done" /\ outcome' = "PASS"
      /\ UNCHANGED <<tree, ledger, read, table, documented, edits, workflow>> /\ due' = due
  BY DEF Accept, gate
<1>2. BlamesWorkflow'
  BY <1>1 DEF BlamesWorkflow
<1> QED
  BY <1>1, <1>2, LastStageKept, WorkflowIsRead DEF IInv

\* A file saved leaves the tree a tree with the same files.
LEMMA EditShape ==
  ASSUME IInv, Edit
  PROVE  /\ TreeShape(tree') /\ tree'.saves = tree.saves
         /\ DOMAIN tree'.pages = DOMAIN tree.pages /\ tree'.properties = tree.properties
<1>1. TreeShape(tree)
  BY DEF IInv, Shapes
<1>2. CASE \E x \in Ledgers : tree' = [tree EXCEPT !.ledger = x]
  BY <1>1, <1>2, GateAssumption DEF TreeShape, GateAssumption
<1>3. CASE \E x \in Readmes : tree' = [tree EXCEPT !.readme = x]
  BY <1>1, <1>3, GateAssumption DEF TreeShape, GateAssumption
<1>4. CASE \E x \in Records, id \in DOMAIN tree.records : tree' = [tree EXCEPT !.records[id] = x]
  <2>1. DOMAIN tree'.records = DOMAIN tree.records
    BY <1>1, <1>4 DEF TreeShape
  <2> QED
    BY <1>1, <1>4, <2>1 DEF TreeShape
<1>5. CASE \E x \in Pages, p \in DOMAIN tree.pages : tree' = [tree EXCEPT !.pages[p] = x]
  <2>1. PICK x \in Pages, p \in DOMAIN tree.pages : tree' = [tree EXCEPT !.pages[p] = x]
    BY <1>5
  <2>2. tree'.pages = [tree.pages EXCEPT ![p] = x] /\ IsList(x.blocks)
    BY <1>1, <2>1, GateAssumption DEF TreeShape, GateAssumption
  <2> QED
    BY <1>1, <2>1, <2>2 DEF TreeShape
<1> QED
  BY <1>2, <1>3, <1>4, <1>5 DEF Edit

LEMMA EditKeeps == IInv /\ Edit => IInv'
<1> SUFFICES ASSUME IInv, Edit PROVE IInv'
  OBVIOUS
<1>1. /\ edits < tree.saves /\ edits' = edits + 1 /\ edits \in Nat /\ tree.saves \in Nat
      /\ stage' = stage /\ outcome' = outcome /\ UNCHANGED gate /\ UNCHANGED workflow
  BY DEF Edit, IInv, TypeOK, Shapes, TreeShape
<1>2. TypeOK' /\ Shapes'
  BY <1>1, EditShape, LedgerKept DEF IInv, TypeOK, Shapes, Reached, gate
<1>3. Compared'
  BY <1>1, LedgerKept, SupportKept, RowsKept, WrittenKept, EditShape
     DEF IInv, Compared, Reached, gate, RecordHolds
<1>4. Quiet' /\ BlamesWorkflow'
  BY <1>1 DEF Quiet, BlamesWorkflow
<1>5. Scanned'
  BY <1>1 DEF IInv, Scanned, Lines, workflow, WorkflowShape, Workflow!Pins,
              Workflow!MatchesUses, Workflow!Commits
<1>6. ReadAlike' /\ Apart'
  BY <1>1, ReadingsKept DEF IInv
<1> QED
  BY <1>2, <1>3, <1>4, <1>5, <1>6 DEF IInv

LEMMA StutterKeeps == IInv /\ UNCHANGED vars => IInv'
<1> SUFFICES ASSUME IInv, UNCHANGED vars PROVE IInv'
  OBVIOUS
<1>1. UNCHANGED <<tree, stage, ledger, listed, read, table, documented, due, outcome, edits,
                  workflow>>
  BY DEF vars, gate
<1>2. TypeOK' /\ Shapes'
  BY <1>1, LedgerKept DEF IInv, TypeOK, Shapes, Reached
<1>3. Compared'
  BY <1>1, LedgerKept, SupportKept, RowsKept, WrittenKept
     DEF IInv, Compared, Reached, RecordHolds
<1>4. Quiet'
  BY <1>1, LedgerKept, SurfaceKept DEF IInv, Quiet, Reached, Clean
<1>5. Scanned' /\ BlamesWorkflow'
  BY <1>1, ConsistentKept
     DEF IInv, Scanned, Lines, workflow, WorkflowShape, Workflow!Pins, Workflow!MatchesUses,
         Workflow!Commits, BlamesWorkflow
<1>6. ReadAlike' /\ Apart'
  BY <1>1, ReadingsKept DEF IInv
<1> QED
  BY <1>2, <1>3, <1>4, <1>5, <1>6 DEF IInv

LEMMA NextKeeps == IInv /\ [Next]_vars => IInv'
BY LoadLedgerKeeps, CheckLedgerKeeps, ListRecordsKeeps, ReadRecordKeeps, CheckGraphKeeps,
   CheckPageKeeps, ReadReadmeKeeps, CheckLinksKeeps, ScanSurfaceKeeps, ListFilesKeeps,
   ScanWorkflowKeeps, ScanFileKeeps, AcceptKeeps, EditKeeps, StutterKeeps
   DEF Next, Validate

-----------------------------------------------------------------------------
(* The theorems.                                                           *)

THEOREM Invariant == Spec => []IInv
BY InitIInv, NextKeeps, PTL DEF Spec

\* The gate ends with an outcome, and what it has documented before are claims.
THEOREM TypeCorrect == Spec => []TypeOK
<1>1. IInv => TypeOK
  BY DEF IInv
<1> QED
  BY <1>1, Invariant, PTL

\* Three rules in three functions add up: what is called publicly reproducible rests on
\* records of public source.
THEOREM ReproducibleRestsOnPublic == Spec => []ReproducibleIsPublic
<1>1. IInv => ReproducibleIsPublic
  <2> SUFFICES ASSUME IInv, outcome = "PASS", NEW c \in Claims,
                      c.status = "public-reproducible", NEW id \in c.evidence
               PROVE  RecordOf(id).visibility = "public"
    BY DEF ReproducibleIsPublic
  <2>1. /\ Distinct /\ Len(read) = Len(ledger.evidence) /\ Supported(c) /\ LedgerShape(ledger)
        /\ IsList(read) /\ \A i \in DOMAIN read : RecordHolds(ledger.evidence[i], read[i])
    BY DEF IInv, Shapes, Compared, Reached
  <2>2. id \in EvidenceIds /\ EvidenceOf(id).assurance = "public-reproducible"
    BY <2>1 DEF Supported, ClaimAssurance
  <2>3. PICK e \in Evidence : e.id = id /\ EvidenceOf(id) = e /\ RecordHolds(e, RecordOf(id))
    BY <2>1, <2>2, EntryOf
  <2> QED
    BY <2>2, <2>3 DEF RecordHolds
<1> QED
  BY <1>1, Invariant, PTL

\* The digest ties each record read to the ledger read, whatever is saved between.
THEOREM RecordsAreBound == Spec => []DigestsBind
<1>1. IInv => DigestsBind
  BY DEF IInv, Compared, RecordHolds, DigestsBind
<1> QED
  BY <1>1, Invariant, PTL

\* The table that was read has a row for each claim of an accepted ledger and no other, the
\* last of a claim's rows is the ledger's, and each claim is written out in the properties
\* or on a proof page that was read.
THEOREM ClaimsAreShown == Spec => []PassIsShown
<1>1. IInv => PassIsShown
  <2> SUFFICES ASSUME IInv, outcome = "PASS" PROVE PassIsShown
    BY DEF PassIsShown
  <2>1. RowsHold /\ WrittenOut
    BY DEF IInv, Compared, Reached
  <2>2. ASSUME NEW c \in Claims, c.id \notin tree.properties.claims
        PROVE  c.id \in documented
    BY <2>1, <2>2 DEF WrittenOut
  <2>3. edits = 0 => documented = UNION {Named(tree.pages[p].blocks) : p \in DOMAIN tree.pages}
    BY DEF IInv, Quiet, Reached, DocumentedBy
  <2> QED
    BY <2>1, <2>2, <2>3 DEF PassIsShown, RowsHold, ClaimIds
<1> QED
  BY <1>1, Invariant, PTL

\* Where nobody edits, whatever speaks of a claim that a page proves was scanned by the
\* stricter rules, rows and blocks that a later one hides included.
THEOREM WhatSpeaksOfProofIsScanned == Spec => []PassIsScanned
<1>1. IInv => PassIsScanned
  <2> SUFFICES ASSUME IInv, outcome = "PASS", edits = 0
               PROVE  /\ \A p \in DOMAIN tree.pages : tree.pages[p].text = "clean"
                      /\ \A id \in DocumentedEvidence : tree.records[id].text = "clean"
                      /\ \A r \in ToSet(tree.readme.rows) :
                           r.claim \in documented => r.text = "clean"
                      /\ \A l \in tree.status :
                           l.names \cap (documented \cup DocumentedEvidence) # {}
                             => l.text = "clean"
    BY DEF PassIsScanned, DocumentedEvidence, Claims, IInv, Quiet, Reached, DocumentedBy
  <2>1. /\ DOMAIN tree.pages \cap DOMAIN tree.records = {}
        /\ \A f \in SingleFiles : f \notin DOMAIN tree.pages /\ f \notin DOMAIN tree.records
    BY DEF IInv, Shapes, TreeShape
  <2>2. Clean(SurfaceFiles) /\ DOMAIN tree.records = EvidenceIds
        /\ \A c \in Claims : Supported(c)
    BY DEF IInv, Quiet, Compared, Reached
  <2>3. DocumentedEvidence \subseteq DOMAIN tree.records
    BY <2>2 DEF DocumentedEvidence, Supported
  <2>4. ASSUME NEW p \in DOMAIN tree.pages PROVE tree.pages[p].text = "clean"
    <3>1. Fragments(p) = {tree.pages[p].text}
      BY <2>1 DEF Fragments, SingleFiles
    <3>2. p \in SurfaceFiles
      BY DEF SurfaceFiles
    <3> QED
      BY <2>2, <3>1, <3>2 DEF Clean
  <2>5. ASSUME NEW id \in DocumentedEvidence PROVE tree.records[id].text = "clean"
    <3>1. Fragments(id) = {tree.records[id].text}
      BY <2>1, <2>3 DEF Fragments, SingleFiles
    <3>2. id \in SurfaceFiles
      BY DEF SurfaceFiles, DocumentedEvidence
    <3> QED
      BY <2>2, <3>1, <3>2 DEF Clean
  <2>6. ASSUME NEW r \in ToSet(tree.readme.rows), r.claim \in documented
        PROVE  r.text = "clean"
    <3>1. Fragments("readme") =
            {q.text : q \in {r1 \in ToSet(tree.readme.rows) : r1.claim \in documented}}
      BY <2>1 DEF Fragments, SingleFiles
    <3>2. "readme" \in SurfaceFiles
      BY <2>6 DEF SurfaceFiles
    <3> QED
      BY <2>2, <2>6, <3>1, <3>2 DEF Clean
  <2>7. ASSUME NEW l \in tree.status, l.names \cap (documented \cup DocumentedEvidence) # {}
        PROVE  l.text = "clean"
    <3>1. Fragments("status") =
            {m.text : m \in {l1 \in tree.status :
                               l1.names \cap (documented \cup DocumentedEvidence) # {}}}
      BY <2>1 DEF Fragments, SingleFiles
    <3>2. "status" \in SurfaceFiles
      BY <2>7 DEF SurfaceFiles, DocumentedEvidence
    <3> QED
      BY <2>2, <2>7, <3>1, <3>2 DEF Clean
  <2> QED
    BY <2>4, <2>5, <2>6, <2>7
<1> QED
  BY <1>1, Invariant, PTL

\* In a workflow of any length, no commit-shaped value is waved through but the one ref of
\* an Action, on a line of structure or in the text of a scalar overlooked; and no loose
\* Action but one in another form, or in the reach of a key after a dash.
THEOREM PinsAreKept == Spec => []PassIsPinned
<1>1. IInv => PassIsPinned
  <2> SUFFICES ASSUME IInv, outcome = "PASS" PROVE PassIsPinned
    BY DEF PassIsPinned
  <2>1. number = Len(text) /\ refused = {} /\ DOMAIN text = Lines
    BY ListBasics DEF IInv, Scanned, WorkflowShape, Lines
  <2>2. \A k \in DOMAIN text : Workflow!Commits(text[k]) > 0 => k \in pins /\ LonePin(text[k])
    BY <2>1 DEF IInv, Scanned, Workflow!Pins, Workflow!MatchesUses, LonePin
  <2>3. /\ \A k \in pins : k \in structure \/ Workflow!MayBeText(k)
        /\ \A k \in structure : Workflow!Loose(text[k]) =>
             Workflow!OtherForm(text[k]) \/ Workflow!MayBeSkipped(k)
    BY <2>1 DEF IInv, Apart
  <2> QED
    BY <2>2, <2>3 DEF PassIsPinned
<1> QED
  BY <1>1, Invariant, PTL

\* The gate does not refuse a consistent tree of active claims, of any size.
THEOREM AgreeingTreesPass == Spec => []AgreedPasses
<1>1. IInv => AgreedPasses
  <2> SUFFICES ASSUME IInv, outcome = "FAIL", edits = 0, Consistent, Pinned, ~Workflow!Unread
               PROVE  FALSE
    BY DEF AgreedPasses, Consistent
  <2>1. number = Len(text) /\ refused # {}
    BY DEF IInv, BlamesWorkflow
  <2>2. PICK k \in refused : TRUE
    BY <2>1
  <2>3. k \in Lines /\ k \in DOMAIN text
    BY <2>1, ListBasics DEF IInv, Scanned, WorkflowShape, Lines
  <2>4. \/ k \in structure /\ Workflow!Violates(text[k])
        \/ Workflow!Commits(text[k]) > 0 /\ k \notin pins
    BY <2>3 DEF IInv, ReadAlike
  <2>5. k \in pins <=> k \in structure /\ Workflow!Pins(text[k])
    BY <2>3 DEF IInv, ReadAlike
  <2>6. ~Workflow!OtherForm(text[k])
    BY <2>3 DEF Workflow!Unread, Workflow!Seen, Lines
  <2> QED
    BY <2>3, <2>4, <2>5, <2>6
       DEF Pinned, LonePin, Workflow!Violates, Workflow!Pins, Workflow!MatchesUses,
           Workflow!OtherForm
<1> QED
  BY <1>1, Invariant, PTL
===============================================================================
