----------------------------- MODULE RecordGate -----------------------------
(***************************************************************************)
(* tools/validate_public_record.py: decides whether the published tree is  *)
(* one consistent public record.  The gate reads the ledger once, every    *)
(* evidence record, the proof pages, README.md and the properties page,    *)
(* compares them, and then reads most of them again to scan their text,    *)
(* while an editor may replace any file.  Of the other files a workflow is *)
(* read line by line (WorkflowPins).                                       *)
(*                                                                         *)
(* A digest stands for the content it is of.  A text is "clean", "plain"   *)
(* (refused only where the stricter rules of a proof hold) or "forbidden". *)
(* A file whose own form is refused (JSON, schema, fields, literals) is    *)
(* one Boolean, formed.                                                    *)
(***************************************************************************)
EXTENDS Naturals, Sequences, FiniteSets, SequencesExt

CONSTANTS Trees,            \* trees the gate may be started on
          Ledgers, Records, Readmes, Pages,  \* contents an editor may give a file
          Workflows,        \* workflow files
          RequirePublished  \* --require-published

\* The shapes JSON and the Markdown parsers give: lists are lists, an indent is a number
\* of columns, and no two files of a tree share a name.
IsList(s) == s \in Seq(ToSet(s))
AssuranceLevels == {"internal-ci-attestation", "public-attestation", "public-reproducible"}
LedgerShape(l) ==
  /\ IsList(l.claims) /\ IsList(l.evidence)
  /\ l.formed => \A e \in ToSet(l.evidence) : e.assurance \in AssuranceLevels
SingleFiles == {"ledger", "readme", "status", "properties", "others"}
TreeShape(t) ==
  /\ DOMAIN t = {"ledger", "records", "readme", "properties", "pages", "status", "others",
                 "present", "workflow", "saves"}
  /\ LedgerShape(t.ledger) /\ IsList(t.readme.rows) /\ t.saves \in Nat
  /\ \A p \in DOMAIN t.pages : IsList(t.pages[p].blocks)
  /\ DOMAIN t.pages \cap DOMAIN t.records = {}
  /\ SingleFiles \cap (DOMAIN t.pages \cup DOMAIN t.records) = {}
WorkflowShape(w) ==
  IsList(w) /\ \A k \in DOMAIN w : w[k].indent \in Nat /\ w[k].dash \in BOOLEAN

GateAssumption ==
  /\ \A t \in Trees : TreeShape(t)
  /\ \A l \in Ledgers : LedgerShape(l)
  /\ \A r \in Readmes : IsList(r.rows)
  /\ \A p \in Pages : IsList(p.blocks)
  /\ \A w \in Workflows : WorkflowShape(w)
ASSUME GateAssumption

\* A tree: ledger; records and pages, functions from the names of the files in
\* evidence/records and docs/proof; readme; properties; status, the lines of
\* docs/status.md; others, the worst text of all other files; present, whether all
\* required files are there; workflow, whether there is one; saves, how many files
\* somebody may save in it while the gate runs (a bound).
VARIABLES tree,
          stage, ledger, listed, read, table, documented, due,
          outcome, edits,
          text, number, block, pins, refused, scalar, structure

gate == <<ledger, listed, read, table, documented, due>>
workflow == <<text, number, block, pins, refused, scalar, structure>>
vars == <<tree, stage, gate, outcome, edits, workflow>>

Workflow == INSTANCE WorkflowPins

Init ==
  /\ tree \in Trees /\ stage = "ledger"
  /\ ledger = tree.ledger   \* of no meaning before it is read, as the rest
  /\ listed = {} /\ read = <<>> /\ table = <<>> /\ documented = {} /\ due = {}
  /\ outcome = "none" /\ edits = 0
  /\ Workflow!Init

fail == stage' = "done" /\ outcome' = "FAIL"
Require(condition, next) ==
  IF condition THEN stage' = next /\ UNCHANGED outcome ELSE fail

Claims == ToSet(ledger.claims)
Evidence == ToSet(ledger.evidence)
EvidenceIds == {e.id : e \in Evidence}
EvidenceOf(id) == CHOOSE e \in Evidence : e.id = id

-----------------------------------------------------------------------------
(* The ledger.                                                             *)

LoadLedger ==
  /\ stage = "ledger"
  /\ ledger' = tree.ledger
  /\ Require(/\ tree.ledger.formed
             /\ RequirePublished => tree.ledger.status = "published", "claims")
  /\ UNCHANGED <<tree, listed, read, table, documented, due, edits, workflow>>

\* Every claim cites evidence, none of it twice; what validate_claim and
\* validate_evidence_index hold against literals is in formed.
ClaimHolds(c) == c.evidence # {}

\* validate_snapshot_dates
NothingLater == \A x \in Claims \cup Evidence : x.observed <= ledger.prepared

CheckLedger ==
  /\ stage = "claims"
  /\ Require(/\ Claims # {} /\ Evidence # {}
             /\ \A c \in Claims : ClaimHolds(c)
             /\ NothingLater
             /\ Len(ledger.claims) = Cardinality({c.id : c \in Claims})
             /\ Len(ledger.evidence) = Cardinality(EvidenceIds), "listing")
  /\ UNCHANGED <<tree, gate, edits, workflow>>

ListRecords ==
  /\ stage = "listing"
  /\ listed' = DOMAIN tree.records
  /\ Require(DOMAIN tree.records = EvidenceIds, "records")
  /\ UNCHANGED <<tree, ledger, read, table, documented, due, edits, workflow>>

-----------------------------------------------------------------------------
(* The evidence.                                                           *)

\* Fault: the record's fields are trusted for the digest.
RecordNamed(e, r) == r.assurance = e.assurance /\ r.component = e.component

\* validate_record, of what was read in place of the record of evidence e.
RecordHolds(e, r) ==
  /\ r.formed
  /\ r.component = e.component /\ r.observed = e.observed /\ r.assurance = e.assurance
  /\ r.verdict \in {"PASS", "BLOCK", "WITHDRAWN"}
  /\ e.assurance = "public-reproducible" => r.visibility = "public"
  /\ e.digest = r

ReadRecord ==
  /\ stage = "records" /\ Len(read) < Len(ledger.evidence)
  /\ LET e == ledger.evidence[Len(read) + 1]
     IN IF e.id \in DOMAIN tree.records /\ RecordHolds(e, tree.records[e.id])
        THEN read' = Append(read, tree.records[e.id]) /\ UNCHANGED <<stage, outcome>>
        ELSE fail /\ UNCHANGED read
  /\ UNCHANGED <<tree, ledger, listed, table, documented, due, edits, workflow>>

\* Fault: a status allows the assurance of its own name only.
ExactAssurance(status) ==
  CASE status = "internally-verified" -> {"internal-ci-attestation"}
    [] status = "public-attested"     -> {"public-attestation"}
    [] status = "public-reproducible" -> {"public-reproducible"}
    [] OTHER -> {}

ClaimAssurance(status) ==
  CASE status = "internally-verified" -> AssuranceLevels
    [] status = "public-attested"     -> {"public-attestation", "public-reproducible"}
    [] status = "public-reproducible" -> {"public-reproducible"}
    [] status \in {"experimental", "design-target", "withdrawn"} -> {}

\* records_by_id
RecordOf(id) == read[CHOOSE i \in DOMAIN ledger.evidence : ledger.evidence[i].id = id]

\* Fault: one piece of evidence is enough for a claim.
SomeSupport(c) ==
  \E id \in c.evidence \cap EvidenceIds :
    /\ EvidenceOf(id).assurance \in ClaimAssurance(c.status)
    /\ RecordOf(id).verdict = "PASS"

\* validate_evidence_graph, of one claim.
Supported(c) ==
  \A id \in c.evidence :
    /\ id \in EvidenceIds
    /\ EvidenceOf(id).component = c.component
    /\ EvidenceOf(id).assurance \in ClaimAssurance(c.status)
    /\ RecordOf(id).verdict = "PASS"
    /\ c.status = "withdrawn" => RecordOf(id).verdict = "WITHDRAWN"

CheckGraph ==
  /\ stage = "records" /\ Len(read) = Len(ledger.evidence)
  /\ Require(\A c \in Claims : Supported(c), "pages")
  /\ due' = DOMAIN tree.pages   \* proof_index_paths
  /\ UNCHANGED <<tree, ledger, listed, read, table, documented, edits, workflow>>

-----------------------------------------------------------------------------
(* What readers see.                                                       *)

\* A dictionary keeps the last of several rows or blocks for one claim.
LastFor(id, items) ==
  items[CHOOSE k \in DOMAIN items :
          /\ items[k].claim = id
          /\ \A l \in DOMAIN items : items[l].claim = id => l <= k]
Named(items) == {items[k].claim : k \in DOMAIN items}
ClaimOf(id) == CHOOSE c \in Claims : c.id = id

\* Fault: a block is compared with the evidence it names alone.
BlockNames(b) == b.evidence \in EvidenceIds /\ b.digest = EvidenceOf(b.evidence).digest

\* proof_block_failures; linked: the link leads to that record's file.
BlockHolds(b) ==
  /\ \E c \in Claims : /\ c.id = b.claim /\ c.statement = b.statement
                       /\ c.status = b.band /\ b.evidence \in c.evidence
  /\ b.complete /\ b.linked
  /\ b.digest = EvidenceOf(b.evidence).digest

CheckPage ==
  /\ stage = "pages" /\ due # {}
  /\ \E p \in due :
       LET blocks == tree.pages[p].blocks
       IN /\ Require(/\ blocks # <<>> /\ Named(blocks) \cap documented = {}
                     /\ \A id \in Named(blocks) : BlockHolds(LastFor(id, blocks)), "pages")
          /\ documented' = documented \cup Named(blocks)
          /\ due' = due \ {p}
  /\ UNCHANGED <<tree, ledger, listed, read, table, edits, workflow>>

\* validate_document_links reads README.md, then the page of properties.
ReadReadme ==
  /\ stage = "pages" /\ due = {}
  /\ stage' = "links" /\ table' = tree.readme
  /\ UNCHANGED <<tree, ledger, listed, read, documented, due, outcome, edits, workflow>>

\* Fault: the rows are compared with the ledger, not the ledger with the rows.
ListedRowsHold ==
  \A id \in Named(table.rows) \cap {c.id : c \in Claims} :
    LET row == LastFor(id, table.rows)
    IN row.statement = ClaimOf(id).statement /\ row.status = ClaimOf(id).status
       /\ row.evidence = ClaimOf(id).evidence

RowsHold ==
  /\ Named(table.rows) = {c.id : c \in Claims}
  /\ \A c \in Claims :
       LET row == LastFor(c.id, table.rows)
       IN row.statement = c.statement /\ row.status = c.status /\ row.evidence = c.evidence
  /\ EvidenceIds \subseteq table.mentions \cup UNION {r.evidence : r \in ToSet(table.rows)}

\* What proof_surface_fragments will read.
DocumentedEvidence == UNION {c.evidence : c \in {d \in Claims : d.id \in documented}}
SurfaceFiles ==
  DOMAIN tree.pages \cup IF documented = {} THEN {} ELSE DocumentedEvidence \cup {"readme", "status"}

\* Fault: a proof page does not do for the page of properties.
InProperties == \A c \in Claims : c.id \in tree.properties.claims

\* Fault: that one claim is written out somewhere is enough.
SomeWrittenOut == \E c \in Claims : c.id \in tree.properties.claims \cup documented

WrittenOut == \A c \in Claims : c.id \in tree.properties.claims \cup documented

CheckLinks ==
  /\ stage = "links"
  /\ Require(WrittenOut /\ RowsHold, "surface")
  /\ due' = SurfaceFiles
  /\ UNCHANGED <<tree, ledger, listed, read, table, documented, edits, workflow>>

-----------------------------------------------------------------------------
(* The text.                                                               *)

\* Fault: of the rows for one claim the one compared is scanned.
LastRowFragments(file) ==
  CASE file \in DOMAIN tree.pages   -> {tree.pages[file].text}
    [] file \in DOMAIN tree.records -> {tree.records[file].text}
    [] file = "readme" -> {LastFor(id, table.rows).text : id \in documented}
    [] file = "status" -> {}

\* The fragments of a file that proof_surface_violation is to see.
Fragments(file) ==
  CASE file \in DOMAIN tree.pages   -> {tree.pages[file].text}
    [] file \in DOMAIN tree.records -> {tree.records[file].text}
    [] file = "readme" -> {r.text : r \in {q \in ToSet(tree.readme.rows) : q.claim \in documented}}
    [] file = "status" -> {l.text : l \in {m \in tree.status :
                                             m.names \cap (documented \cup DocumentedEvidence) # {}}}

\* Of the ledger the fragments are those in memory.
LedgerClean ==
  /\ \A c \in Claims : c.id \in documented => c.text = "clean"
  /\ \A e \in Evidence : e.id \in DocumentedEvidence => e.text = "clean"

ScanSurface ==
  /\ stage = "surface" /\ due # {}
  /\ \E file \in due :
       /\ Require(Fragments(file) \subseteq {"clean"}, "surface")
       /\ due' = due \ {file}
  /\ UNCHANGED <<tree, ledger, listed, read, table, documented, edits, workflow>>

\* all_public_files
PublicFiles ==
  DOMAIN tree.pages \cup DOMAIN tree.records \cup SingleFiles
ListFiles ==
  /\ stage = "surface" /\ due = {}
  /\ Require(LedgerClean /\ tree.present, "text")
  /\ due' = PublicFiles
  /\ \E w \in IF tree.workflow THEN Workflows ELSE {<<>>} : Workflow!Open(w)
  /\ UNCHANGED <<tree, ledger, listed, read, table, documented, edits>>

\* Fault: what an earlier line did wrong is forgotten.
JudgedByTheLast(lines, wrong) == lines = Len(text) => lines \notin wrong

\* Nothing in the workflow is wrong, judged once all its lines are read.
Judged(lines, wrong) == lines = Len(text) => wrong = {}

\* The workflows come first in the order of names.
ScanWorkflow ==
  /\ stage = "text" /\ Workflow!Read
  /\ Require(Judged(number', refused'), "text")
  /\ UNCHANGED <<tree, gate, edits>>

Texts(file) ==
  CASE file \in DOMAIN tree.pages   -> {tree.pages[file].text}
    [] file \in DOMAIN tree.records -> {tree.records[file].text}
    [] file = "ledger" -> {x.text : x \in ToSet(tree.ledger.claims) \cup ToSet(tree.ledger.evidence)}
    [] file = "readme" -> {r.text : r \in ToSet(tree.readme.rows)} \cup {tree.readme.text}
    [] file = "status" -> {l.text : l \in tree.status}
    [] file = "properties" -> {tree.properties.text}
    [] file = "others" -> {tree.others}

\* validate_public_text, of the next file in the one order of their names.
ScanFile ==
  /\ stage = "text" /\ number = Len(text) /\ due # {}
  /\ LET file == CHOOSE f \in due : TRUE
     IN /\ Require("forbidden" \notin Texts(file), "text")
        /\ due' = due \ {file}
  /\ UNCHANGED <<tree, ledger, listed, read, table, documented, edits, workflow>>

Accept ==
  /\ stage = "text" /\ number = Len(text) /\ due = {}
  /\ stage' = "done" /\ outcome' = "PASS"
  /\ UNCHANGED <<tree, gate, edits, workflow>>

-----------------------------------------------------------------------------

\* Somebody saves a file of the tree; files appear and vanish between runs only.
Edit ==
  /\ stage # "done" /\ edits < tree.saves /\ edits' = edits + 1
  /\ \/ \E x \in Ledgers : tree' = [tree EXCEPT !.ledger = x]
     \/ \E x \in Readmes : tree' = [tree EXCEPT !.readme = x]
     \/ \E x \in Records, id \in DOMAIN tree.records : tree' = [tree EXCEPT !.records[id] = x]
     \/ \E x \in Pages, p \in DOMAIN tree.pages : tree' = [tree EXCEPT !.pages[p] = x]
  /\ UNCHANGED <<stage, gate, outcome, workflow>>

Validate ==
  \/ LoadLedger \/ CheckLedger \/ ListRecords \/ ReadRecord \/ CheckGraph \/ CheckPage
  \/ ReadReadme \/ CheckLinks \/ ScanSurface \/ ListFiles \/ ScanWorkflow
  \/ ScanFile \/ Accept

Next == Validate \/ Edit

Spec == Init /\ [][Next]_vars

-----------------------------------------------------------------------------
(* Properties.                                                             *)

Statuses == {"public-reproducible", "public-attested", "internally-verified",
             "experimental", "design-target", "withdrawn"}
ClaimIds == {c.id : c \in Claims}

\* Whatever is documented in the stages after the pages is a claim of the ledger.
TypeOK ==
  /\ outcome \in {"none", "PASS", "FAIL"} /\ (stage = "done" <=> outcome # "none")
  /\ edits \in 0..tree.saves /\ Len(read) <= Len(ledger.evidence)
  /\ stage \in {"links", "surface", "text"} => documented \subseteq ClaimIds

\* However files change while it runs, what the gate calls publicly reproducible
\* rests on records of public source alone: the rule of validate_record about the
\* index and the one of validate_evidence_graph about the claims add up.
ReproducibleIsPublic ==
  outcome = "PASS" => \A c \in Claims : c.status = "public-reproducible" =>
    \A id \in c.evidence : RecordOf(id).visibility = "public"

\* The records of an accepted ledger were read as that ledger has them, also if one
\* was saved between the reading of the ledger and its own (validate_record).
DigestsBind ==
  outcome = "PASS" => \A i \in DOMAIN read : read[i] = ledger.evidence[i].digest

\* The README's table that was read has rows for the claims of the accepted ledger and
\* for no others, and the last row for a claim, the one compared, is the ledger's (an
\* earlier one may differ, though the docstring of validate_document_links has the table
\* match the ledger exactly).  And each claim is written out: in the properties, or on a
\* proof page that the gate has read, which is one of the tree if nobody saved a file.
PassIsShown ==
  outcome = "PASS" =>
    /\ Named(table.rows) = ClaimIds
    /\ \A c \in Claims :
         LET row == LastFor(c.id, table.rows)
         IN row.statement = c.statement /\ row.status = c.status /\ row.evidence = c.evidence
    /\ \A c \in Claims : c.id \notin tree.properties.claims =>
         /\ c.id \in documented
         /\ edits = 0 => \E p \in DOMAIN tree.pages : c.id \in Named(tree.pages[p].blocks)

\* In a tree accepted while nobody saved a file, nothing that speaks of a claim
\* documented by a proof breaks the stricter rules on the surfaces they are for: proof
\* pages, cited records, rows of the README's table and lines of docs/status.md, also
\* those that no comparison reads (proof_surface_fragments; the page of properties and
\* README.md outside its table are no such surfaces).
PassIsScanned ==
  (outcome = "PASS" /\ edits = 0) =>
    LET proved == UNION {Named(tree.pages[p].blocks) : p \in DOMAIN tree.pages}
        cited == UNION {c.evidence : c \in {d \in ToSet(tree.ledger.claims) : d.id \in proved}}
    IN /\ \A p \in DOMAIN tree.pages : tree.pages[p].text = "clean"
       /\ \A id \in cited : tree.records[id].text = "clean"
       /\ \A r \in ToSet(tree.readme.rows) : r.claim \in proved => r.text = "clean"
       /\ \A l \in tree.status : l.names \cap (proved \cup cited) # {} => l.text = "clean"

\* A tree whose pages, table, index and records agree and offend nowhere.
Agrees(t) ==
  LET claims == ToSet(t.ledger.claims)
      entries == ToSet(t.ledger.evidence)
      shown(c, r) == r.claim = c.id /\ r.statement = c.statement /\ r.status = c.status
                     /\ r.evidence = c.evidence
      told(c, b) == b.claim = c.id /\ b.statement = c.statement /\ b.band = c.status
                    /\ b.evidence \in c.evidence /\ b.complete /\ b.linked
                    /\ \E e \in entries : e.id = b.evidence /\ e.digest = b.digest
      blocks == UNION {ToSet(t.pages[p].blocks) : p \in DOMAIN t.pages}
  IN /\ t.ledger.formed /\ t.ledger.status = "published" /\ t.present /\ claims # {} /\ entries # {}
     /\ Cardinality({c.id : c \in claims}) = Len(t.ledger.claims)
     /\ Cardinality({e.id : e \in entries}) = Len(t.ledger.evidence)
     /\ \A x \in claims \cup entries : x.observed <= t.ledger.prepared /\ x.text = "clean"
     /\ DOMAIN t.records = {e.id : e \in entries}
     /\ \A e \in entries :
          LET r == t.records[e.id]
          IN /\ r = e.digest /\ r.formed /\ r.text = "clean"
             /\ r.component = e.component /\ r.observed = e.observed /\ r.assurance = e.assurance
             /\ r.verdict \in {"PASS", "BLOCK", "WITHDRAWN"}
             /\ e.assurance = "public-reproducible" => r.visibility = "public"
     /\ \A r \in ToSet(t.readme.rows) : \E c \in claims : shown(c, r)
     /\ \A c \in claims : \E r \in ToSet(t.readme.rows) : shown(c, r)
     /\ \A b \in blocks : \E c \in claims : told(c, b)
     /\ \A p \in DOMAIN t.pages : t.pages[p].blocks # <<>> /\ t.pages[p].text = "clean"
     /\ \A p, q \in DOMAIN t.pages :
          Named(t.pages[p].blocks) \cap Named(t.pages[q].blocks) # {} => p = q
     /\ \A c \in claims : c.id \in t.properties.claims \cup {b.claim : b \in blocks}
     /\ \A e \in entries : e.id \in t.readme.mentions \cup UNION {c.evidence : c \in claims}
     /\ \A f \in {t.readme, t.properties} \cup ToSet(t.readme.rows) \cup t.status : f.text = "clean"
     /\ t.others = "clean"

\* The evidence docs/publication-policy.md:13-18 asks of a status.
Rests(c, t) ==
  /\ c.evidence # {}
  /\ \A id \in c.evidence : \E e \in ToSet(t.ledger.evidence) :
       /\ e.id = id /\ e.component = c.component
       /\ CASE c.status = "public-reproducible" -> e.assurance = "public-reproducible"
            [] c.status = "public-attested"     -> e.assurance # "internal-ci-attestation"
            [] OTHER -> TRUE
       /\ t.records[id].verdict = IF c.status = "withdrawn" THEN "WITHDRAWN" ELSE "PASS"
Active == {"public-reproducible", "public-attested", "internally-verified"}

LonePin(l) == l.kind = "uses" /\ l.ref = "commit" /\ l.strays = 0

\* The workflow read, as YAML reads it, has no loose Action and no commit-shaped value
\* that is no pin.
Pinned ==
  \A k \in DOMAIN text :
    /\ k \in structure => ~Workflow!Loose(text[k])
    /\ Workflow!Commits(text[k]) > 0 => k \in structure /\ LonePin(text[k])

\* A consistent tree of active claims is never refused: evidence stronger than a
\* claim needs does not count against it (validate_evidence_graph; of the claims that
\* are not active, docs/publication-policy.md:15-18, none is ever accepted), nor does
\* what stands in the text of a block scalar (workflow_structure_lines), where the
\* workflow has none of the forms that the scan and YAML read differently.
AgreedPasses ==
  (outcome = "FAIL" /\ edits = 0) =>
    ~(/\ Agrees(tree)
      /\ \A c \in ToSet(tree.ledger.claims) : c.status \in Active /\ Rests(c, tree)
      /\ Pinned /\ ~Workflow!Unread)

\* In a passing tree no commit-shaped value is waved through but the one ref of an
\* Action, on a line that is structure or may be text of a scalar whose beginning the scan
\* overlooks; and each loose Action of the workflow either is written otherwise than as
\* `uses: a` or lies in the reach of a key with a block scalar after a dash.  The comments
\* at tools/validate_public_record.py:96, 99-101 and 947-955 have no such exceptions.
PassIsPinned ==
  outcome = "PASS" => \A k \in DOMAIN text :
    /\ Workflow!Commits(text[k]) > 0 =>
         LonePin(text[k]) /\ (k \in structure \/ Workflow!MayBeText(k))
    /\ k \in structure /\ Workflow!Loose(text[k]) =>
         Workflow!OtherForm(text[k]) \/ Workflow!MayBeSkipped(k)

\* What line 96 and the docstring at 947-955 say: an Action that is left loose is refused,
\* and one that the rule cannot read is refused rather than skipped.
LooseIsRefused ==
  outcome = "PASS" => \A k \in structure : ~Workflow!Loose(text[k])
=============================================================================
