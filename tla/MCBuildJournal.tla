--------------------------- MODULE MCBuildJournal ---------------------------
(* Candidate journals: every supersession graph over four entries, and every *)
(* combination of status, grade, coordinate, source and page of one entry.   *)
EXTENDS BuildJournal, SequencesExt

File(tag, path) == [kind |-> "tag", tag |-> tag, path |-> path, number |-> "0"]
Numbered(kind, n) == [kind |-> kind, tag |-> "", path |-> <<>>, number |-> n]
Page(path) == [host |-> TRUE, path |-> path]

Entry(id, supersedes) ==
  [id |-> id, status |-> "PROVED", grade |-> "PUBLIC_OBSERVED", dated |-> TRUE,
   coordinate |-> File("v1", <<"f">>), url |-> Page(<<"blob", "v1", "f">>),
   supersedes |-> supersedes]

MCIds == <<"a", "b", "c", "d">>
Superseded(S) == SelectSeq(MCIds, LAMBDA id : id \in S)
MCGraphs == {[entries |-> [i \in 1..4 |-> Entry(MCIds[i], Superseded(g[i]))], views |-> <<>>] :
               g \in [1..4 -> SUBSET {"a", "b", "c", "d"}]}
MCOdd == {[entries |-> <<Entry("a", <<"x">>)>>, views |-> <<>>],
          [entries |-> <<Entry("a", <<>>), Entry("a", <<>>)>>, views |-> <<>>]}
MCSearched == MCOdd \cup {j \in MCGraphs : \A i \in 1..4 : MCIds[i] \notin ToSet(j.entries[i].supersedes)}

MCCoordinates == {File("v1", <<"f">>), File("v1", <<>>), File("v1", <<"..", "main", "f">>),
                  Numbered("issue", "7"), Numbered("run", "7")}
MCPages == {Page(<<"blob", "v1", "f">>), Page(<<"blob", "main", "f">>), Page(<<"blob", "dev", "f">>),
            Page(<<"blob", "v1", "..", "main", "f">>), Page(<<"blob", "v2", "f">>),
            Page(<<"releases", "tag", "v1">>), Page(<<"tree", "dev">>),
            Page(<<"issues", "7">>), Page(<<"issues", "8">>), Page(<<"actions", "runs", "7">>),
            [host |-> FALSE, path |-> <<"blob", "v1", "f">>]}
MCPlain == {[Entry("a", <<>>) EXCEPT !.status = s, !.grade = g, !.coordinate = c, !.url = u] :
              s \in {"PROVED", "PLANNED", "UNKNOWN"}, c \in MCCoordinates, u \in MCPages,
              g \in {"PUBLIC_OBSERVED", "PUBLIC_PROPOSAL", "UNKNOWN"}}
           \cup {[Entry("a", <<>>) EXCEPT !.dated = FALSE]}

Second == [Entry("b", <<"a">>) EXCEPT !.url = Page(<<"tree", "v1">>),
                                     !.coordinate = File("v1", <<>>)]
View(markers) == [vocabulary |-> TRUE, markers |-> markers, titles |-> {"a", "b"}]
Right(e) == View(<<MarkerOf(e), MarkerOf(Second)>>)
Stale(e) == [MarkerOf(e) EXCEPT !.status = "BLOCKED"]
MCViews(e) == {<<Right(e), Right(e)>>, <<Right(e), View(<<MarkerOf(e)>>)>>,
               <<View(<<Stale(e), MarkerOf(e), MarkerOf(Second)>>), Right(e)>>,
               <<[Right(e) EXCEPT !.titles = {"a"}], Right(e)>>,
               <<[Right(e) EXCEPT !.vocabulary = FALSE]>>}
MCListed == UNION {{[entries |-> <<e, Second>>, views |-> v] : v \in MCViews(e)} : e \in MCPlain}

MCJournals == MCSearched \cup MCListed
=============================================================================
