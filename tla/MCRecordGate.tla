---------------------------- MODULE MCRecordGate ----------------------------
(* Trees of one or two claims, two records and one or two proof pages, an     *)
(* editor at work in two of them, and a tree with a workflow of three lines.  *)
EXTENDS RecordGate

MCLine(indents) ==
  {[indent |-> i, dash |-> d, kind |-> k, plain |-> p, ref |-> "", strays |-> 0] :
     i \in indents, d \in BOOLEAN, k \in {"block", "item", "other"}, p \in BOOLEAN}
  \cup {[indent |-> i, dash |-> d, kind |-> "uses", plain |-> p, ref |-> r, strays |-> s] :
     i \in indents, d \in BOOLEAN, p \in BOOLEAN, r \in {"commit", "loose"}, s \in {0, 1}}
  \cup {[indent |-> 0, dash |-> FALSE, kind |-> "blank", plain |-> TRUE, ref |-> "", strays |-> 0]}
\* A scalar with no key is an item of a sequence.  How else a line is written matters of
\* a scalar and of an Action, and after a dash as anywhere.
MCLines(indents) ==
  {l \in MCLine(indents) : /\ l.kind = "item" => l.dash
                           /\ l.kind \in {"item", "other"} => l.plain
                           /\ ~l.plain /\ l.kind = "uses" => ~l.dash /\ l.strays = 0}
MCWorkflows == {<<a, b, c>> : a \in MCLines({0, 2}), b \in MCLines({0, 2, 4}), c \in MCLines({0, 2, 4})}

Record(assurance, verdict, visibility) ==
  [formed |-> TRUE, component |-> "CORE", observed |-> 1, assurance |-> assurance,
   verdict |-> verdict, visibility |-> visibility, text |-> "clean"]
Index(id, r) == [id |-> id, component |-> r.component, observed |-> r.observed,
                 assurance |-> r.assurance, digest |-> r, text |-> "clean"]
Claim(id, status, evidence) ==
  [id |-> id, statement |-> "s", component |-> "CORE", status |-> status, observed |-> 1,
   evidence |-> evidence, text |-> "clean"]
Row(c) == [claim |-> c.id, statement |-> c.statement, status |-> c.status,
           evidence |-> c.evidence, text |-> "clean"]
Block(c, id, r) == [claim |-> c.id, statement |-> c.statement, band |-> c.status,
                    evidence |-> id, digest |-> r, complete |-> TRUE, linked |-> TRUE]
Page(blocks) == [blocks |-> blocks, text |-> "clean"]
Ledger(claims, entries) == [formed |-> TRUE, status |-> "published", prepared |-> 1,
                            claims |-> claims, evidence |-> entries]
Readme(rows) == [rows |-> rows, mentions |-> {"E1", "E2"}, text |-> "clean"]

Tree(claims, r1, r2, pages) ==
  [ledger |-> Ledger(claims, <<Index("E1", r1), Index("E2", r2)>>),
   records |-> [id \in {"E1", "E2"} |-> IF id = "E1" THEN r1 ELSE r2],
   readme |-> Readme([i \in DOMAIN claims |-> Row(claims[i])]),
   properties |-> [claims |-> {"C1", "C2"}, text |-> "clean"],
   pages |-> pages, status |-> {[names |-> {"C1"}, text |-> "clean"]},
   others |-> "clean", present |-> TRUE, workflow |-> FALSE, saves |-> 0]

\* Evidence: every status over every pair of records.
MCRecords == {Record(a, v, s) : a \in AssuranceLevels, v \in {"PASS", "BLOCK", "WITHDRAWN"},
                                s \in {"private", "public"}}
MCGraded == {Tree(<<Claim("C1", status, ids)>>, r1, r2, [p \in {} |-> Page(<<>>)]) :
               status \in Statuses, ids \in {{}, {"E1"}, {"E1", "E2"}}, r1 \in MCRecords, r2 \in MCRecords}

\* Documents: two claims, the second perhaps proved on one or two pages, and one or two
\* things wrong.
R1 == Record("public-reproducible", "PASS", "public")
R2 == Record("internal-ci-attestation", "PASS", "private")
C1 == Claim("C1", "public-reproducible", {"E1"})
C2 == Claim("C2", "internally-verified", {"E1", "E2"})
B1 == Block(C1, "E1", R1)
B2 == Block(C2, "E2", R2)
Wrong == [B2 EXCEPT !.digest = R1]
MCBlocks == {<<>>, <<B2>>, <<B1, B2>>, <<Wrong>>, <<Wrong, B2>>, <<B2, Wrong>>,
             <<[B2 EXCEPT !.band = "public-attested"]>>, <<[B2 EXCEPT !.statement = "t"]>>,
             <<[B2 EXCEPT !.complete = FALSE]>>, <<[B2 EXCEPT !.claim = "C3"]>>,
             <<[B2 EXCEPT !.evidence = "E3"]>>}
MCPages == {[blocks |-> b, text |-> t] : b \in MCBlocks, t \in {"clean", "plain"}}
Stale == [Row(C2) EXCEPT !.statement = "t"]
Plain == [Row(C2) EXCEPT !.text = "plain"]
MCReadmes == {Readme(rows) : rows \in {<<Row(C1), Row(C2)>>, <<Row(C1), Stale, Row(C2)>>,
                <<Row(C1), Row(C2), Stale>>, <<Row(C1)>>, <<Row(C1), Plain, Row(C2)>>,
                <<Row(C1), Row(C2), [Row(C2) EXCEPT !.claim = "C3"]>>,
                <<Row(C1), [Row(C2) EXCEPT !.evidence = {"E1"}]>>}}
             \cup {[Readme(<<Row(C1), Row(C2)>>) EXCEPT !.text = "forbidden"]}
Sound == Tree(<<C1, C2>>, R1, R2, [p \in {"p1"} |-> Page(<<B2>>)])
OfPages == {[Sound EXCEPT !.pages = ("p1" :> a)] : a \in MCPages}
           \cup {[Sound EXCEPT !.pages = ("p1" :> Page(<<B1>>)) @@ ("p2" :> b)] : b \in MCPages}
           \cup {[Sound EXCEPT !.pages = [p \in {} |-> Page(<<>>)]]}
MCOdd == {[Sound EXCEPT !.ledger.formed = FALSE], [Sound EXCEPT !.ledger.status = "superseded"],
          [Sound EXCEPT !.ledger.claims[1].observed = 2], [Sound EXCEPT !.ledger.claims = <<C1, C1>>],
          [Sound EXCEPT !.records = ("E1" :> R1)], [Sound EXCEPT !.present = FALSE],
          [Sound EXCEPT !.others = "forbidden"], [Sound EXCEPT !.records["E1"].text = "plain"],
          [Sound EXCEPT !.ledger.claims[2].component = "OFFICE"],
          [Sound EXCEPT !.ledger.claims[2].text = "plain"],
          [Sound EXCEPT !.ledger.evidence[1].digest.text = "plain", !.records["E1"].text = "plain"],
          [Sound EXCEPT !.status = {[names |-> {"E1"}, text |-> "plain"]}],
          [Sound EXCEPT !.status = {[names |-> {"C1"}, text |-> "plain"]}]}
MCWritten == MCOdd \cup {[t EXCEPT !.readme = r, !.properties.claims = c] :
                          t \in OfPages, r \in MCReadmes, c \in {{"C1"}, {"C1", "C2"}}}

\* An editor at work in a sound tree.
Saved == {[t EXCEPT !.saves = 2] :
            t \in {Sound, [Sound EXCEPT !.pages = ("p1" :> Page(<<B1>>)) @@ ("p2" :> Page(<<B2>>))]}}
Repeated == [R1 EXCEPT !.verdict = "BLOCK"]
MCNewRecords == {R1, R2, Repeated, [R1 EXCEPT !.visibility = "private"], [R2 EXCEPT !.text = "plain"]}
MCNewLedgers == {Sound.ledger, Ledger(<<C1, C2>>, <<Index("E1", Repeated), Index("E2", R2)>>),
                 Ledger(<<C1, [C2 EXCEPT !.status = "public-reproducible"]>>, Sound.ledger.evidence),
                 Ledger(<<C1>>, Sound.ledger.evidence)}
\* A sound tree with a workflow, and workflows of one line that names an Action otherwise.
WithWorkflow == [Sound EXCEPT !.pages = [p \in {} |-> Page(<<>>)], !.workflow = TRUE]
MCWorkflowTrees == {WithWorkflow}
MCOtherForms == {<<l>> : l \in {x \in MCLines({0}) : x.kind = "uses" /\ ~x.plain}}

MCTrees == MCGraded \cup MCWritten \cup Saved
           \cup MCWorkflowTrees
=============================================================================
