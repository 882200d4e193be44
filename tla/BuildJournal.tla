---------------------------- MODULE BuildJournal ----------------------------
(***************************************************************************)
(* tools/check_public_build_journal.py: accepts or refuses a public build  *)
(* journal, already valid by its schema: its entries one by one, their     *)
(* supersession graph, the pages that show them, and the reachability of   *)
(* their sources.                                                          *)
(*                                                                         *)
(* The search for a supersession cycle is the recursive function walk with *)
(* its frames as a stack; each call of it and each return is a step.       *)
(***************************************************************************)
EXTENDS Naturals, Sequences, FiniteSets

CONSTANTS Journals,   \* candidates, with the pages beside them
          Depth,      \* frames of walk that Python's recursion limit leaves
          CheckUrls   \* --check-urls

AllowedGrades ==
  [PROVED         |-> {"PUBLIC_REPRODUCIBLE", "PUBLIC_OBSERVED"},
   IN_REVIEW      |-> {"PUBLIC_OBSERVED", "PUBLIC_PROPOSAL"},
   IN_DEVELOPMENT |-> {"PUBLIC_OBSERVED", "PUBLIC_PROPOSAL"},
   BLOCKED        |-> {"PUBLIC_OBSERVED"},
   FAILED         |-> {"PUBLIC_REPRODUCIBLE", "PUBLIC_OBSERVED"},
   PLANNED        |-> {"PUBLIC_PROPOSAL"},
   UNKNOWN        |-> {"UNKNOWN"}]

\* Entries and the identifiers each supersedes are sequences, and a coordinate is of
\* one of three kinds (the schema).
ASSUME JournalAssumption ==
  /\ \A j \in Journals : \A i \in DOMAIN j.entries :
       /\ j.entries[i].supersedes \in Seq(STRING)
       /\ j.entries[i].coordinate.kind \in {"tag", "issue", "run"}
       /\ j.entries[i].coordinate.tag \in STRING
       /\ j.entries[i].coordinate.path \in Seq(STRING)
  /\ \A j \in Journals : Len(j.entries) \in Nat /\ DOMAIN j.entries = 1..Len(j.entries)
  /\ Depth \in Nat
  /\ CheckUrls \in BOOLEAN

VARIABLES journal,
          stage,     \* of validate_journal
          root,      \* the entry whose walk from the outside is under way
          stack,     \* frames of walk: an identifier, the index of its next target
          visiting, visited,
          walks,     \* history: calls of walk
          pending,   \* source URLs still to be asked for
          retry,     \* the one that refused HEAD and gets a GET, if any
          reached,   \* history: URLs that answered well
          outcome

search == <<root, stack, visiting, visited, walks>>
network == <<pending, retry, reached>>
vars == <<journal, stage, search, network, outcome>>

Entries == journal.entries
Ids == {Entries[i].id : i \in DOMAIN Entries}
EntryOf(id) == Entries[CHOOSE i \in DOMAIN Entries : Entries[i].id = id]
Targets(id) == EntryOf(id).supersedes
Successors(id) == {Targets(id)[k] : k \in DOMAIN Targets(id)}

Init ==
  /\ journal \in Journals /\ stage = "identifiers"
  /\ root = 0 /\ stack = <<>> /\ visiting = {} /\ visited = {} /\ walks = 0
  /\ pending = {Entries[i].url : i \in DOMAIN Entries} /\ retry = {} /\ reached = {}
  /\ outcome = "none"

End(how) == stage' = "done" /\ outcome' = how
Require(condition, next, how) ==
  IF condition THEN stage' = next /\ UNCHANGED outcome ELSE End(how)

-----------------------------------------------------------------------------
(* Entries.                                                                *)

CheckIdentifiers ==
  /\ stage = "identifiers"
  /\ Require(Cardinality(Ids) = Len(Entries), "entries", "duplicate")
  /\ UNCHANGED <<journal, search, network>>

\* public_source_parts.  A path is the sequence of its segments after the
\* repository; url.host stands for scheme, host and credentials together.
MutableBranches == {"main", "master", "HEAD"}
SourceIsPublic(url) ==
  /\ url.host
  /\ ~(/\ Len(url.path) >= 2 /\ url.path[1] \in {"blob", "tree", "commits"}
       /\ url.path[2] \in MutableBranches)

\* The pages a coordinate may name: a file at a tag, a tag, an Issue, a run.
TagPaths(c) == IF c.path # <<>> THEN {<<"blob", c.tag>> \o c.path}
               ELSE {<<"tree", c.tag>>, <<"commits", c.tag>>, <<"releases", "tag", c.tag>>}

\* Fault: the path of the URL is not compared.
AnyPathHolds(e) ==
  /\ SourceIsPublic(e.url)
  /\ e.coordinate.kind = "tag" \/ e.status # "PROVED"

CoordinateHolds(e) ==
  LET c == e.coordinate
  IN /\ SourceIsPublic(e.url)
     /\ CASE c.kind = "tag"   -> e.url.path \in TagPaths(c)
          [] c.kind = "issue" -> e.url.path = <<"issues", c.number>> /\ e.status # "PROVED"
          [] c.kind = "run"   -> /\ e.url.path = <<"actions", "runs", c.number>>
                                 /\ e.status # "PROVED"

EntryHolds(e) ==
  /\ e.grade \in AllowedGrades[e.status]
  /\ e.dated
  /\ CoordinateHolds(e)

CheckEntries ==
  /\ stage = "entries"
  /\ Require(\A i \in DOMAIN Entries : EntryHolds(Entries[i]), "targets", "entry")
  /\ UNCHANGED <<journal, search, network>>

-----------------------------------------------------------------------------
(* validate_supersession.                                                  *)

CheckTargets ==
  /\ stage = "targets"
  /\ Require(\A id \in Ids : Successors(id) \subseteq Ids \ {id}, "search", "target")
  /\ UNCHANGED <<journal, search, network>>

\* Fault: an entry being visited counts as visited.
WalkSeen(id, frames) ==
  /\ walks' = walks + 1
  /\ IF id \in visiting \cup visited THEN stack' = frames /\ UNCHANGED visiting
     ELSE /\ stack' = Append(frames, [id |-> id, next |-> 1])
          /\ visiting' = visiting \cup {id}
  /\ UNCHANGED <<stage, outcome>>

\* A call of walk above the frames given.
Walk(id, frames) ==
  /\ walks' = walks + 1
  /\ \/ /\ Len(frames) >= Depth
        /\ End("traceback") /\ stack' = frames /\ UNCHANGED visiting
     \/ /\ Len(frames) < Depth /\ id \in visiting
        /\ End("cycle") /\ stack' = frames /\ UNCHANGED visiting
     \/ /\ Len(frames) < Depth /\ id \notin visiting
        /\ IF id \in visited THEN stack' = frames /\ UNCHANGED visiting
           ELSE /\ stack' = Append(frames, [id |-> id, next |-> 1])
                /\ visiting' = visiting \cup {id}
        /\ UNCHANGED <<stage, outcome>>

WalkRoot ==
  /\ stage = "search" /\ stack = <<>> /\ root < Len(Entries)
  /\ root' = root + 1
  /\ Walk(Entries[root + 1].id, <<>>)
  /\ UNCHANGED <<journal, visited, network>>

Top == stack[Len(stack)]
Below == SubSeq(stack, 1, Len(stack) - 1)

WalkTarget ==
  /\ stage = "search" /\ stack # <<>> /\ Top.next <= Len(Targets(Top.id))
  /\ Walk(Targets(Top.id)[Top.next], Append(Below, [Top EXCEPT !.next = @ + 1]))
  /\ UNCHANGED <<journal, root, visited, network>>

\* Fault: an entry left is not remembered.
Forget ==
  /\ stage = "search" /\ stack # <<>> /\ Top.next > Len(Targets(Top.id))
  /\ visiting' = visiting \ {Top.id}
  /\ stack' = Below
  /\ UNCHANGED <<journal, stage, root, visited, walks, network, outcome>>

\* Fault: an entry left still counts as being visited.
LeaveVisiting ==
  /\ stage = "search" /\ stack # <<>> /\ Top.next > Len(Targets(Top.id))
  /\ visited' = visited \cup {Top.id}
  /\ stack' = Below
  /\ UNCHANGED <<journal, stage, root, visiting, walks, network, outcome>>

Return ==
  /\ stage = "search" /\ stack # <<>> /\ Top.next > Len(Targets(Top.id))
  /\ visiting' = visiting \ {Top.id}
  /\ visited' = visited \cup {Top.id}
  /\ stack' = Below
  /\ UNCHANGED <<journal, stage, root, walks, network, outcome>>

EndSearch ==
  /\ stage = "search" /\ stack = <<>> /\ root = Len(Entries)
  /\ stage' = "views"
  /\ UNCHANGED <<journal, search, network, outcome>>

-----------------------------------------------------------------------------
(* Pages and sources.                                                      *)

MarkerOf(e) == [id |-> e.id, status |-> e.status, grade |-> e.grade]

\* Fault: the last marker of an entry replaces the others.
LastMarkersHold(view) ==
  /\ view.vocabulary
  /\ \A e \in {Entries[i] : i \in DOMAIN Entries} :
       \E k \in DOMAIN view.markers :
         /\ view.markers[k] = MarkerOf(e)
         /\ \A l \in DOMAIN view.markers : view.markers[l].id = e.id => l <= k
  /\ {view.markers[k].id : k \in DOMAIN view.markers} = Ids
  /\ Ids \subseteq view.titles

\* markers_for_view: every entry is marked once, as it is, and has its title.
MarkersHold(view) ==
  /\ view.vocabulary
  /\ \A k, l \in DOMAIN view.markers : view.markers[k].id = view.markers[l].id => k = l
  /\ {view.markers[k] : k \in DOMAIN view.markers} = {MarkerOf(Entries[i]) : i \in DOMAIN Entries}
  /\ Ids \subseteq view.titles

CheckViews ==
  /\ stage = "views"
  /\ Require(\A v \in DOMAIN journal.views : MarkersHold(journal.views[v]), "urls", "view")
  /\ UNCHANGED <<journal, search, network>>

\* What urlopen may come to: a good answer, the refusal of the method, another
\* HTTP error, no connection or a timeout, or an exception nothing here catches.
Answers == {"good", "405", "error", "unreachable", "protocol"}

\* Fault: a server that refuses HEAD is taken to have the page.
AskOnce ==
  /\ stage = "urls" /\ CheckUrls /\ pending # {}
  /\ \E url \in pending, answer \in Answers :
       /\ pending' = pending \ {url}
       /\ reached' = IF answer = "good" THEN reached \cup {url} ELSE reached
       /\ IF answer \in {"good", "405"} THEN UNCHANGED <<stage, outcome>> ELSE End("source")
  /\ UNCHANGED <<journal, search, retry>>

\* Fault: a refused GET is followed by HEAD again.
AskForever ==
  /\ stage = "urls" /\ CheckUrls /\ pending # {}
  /\ \E url \in (IF retry = {} THEN pending ELSE retry), answer \in Answers :
       \/ /\ answer = "good"
          /\ pending' = pending \ {url} /\ reached' = reached \cup {url}
          /\ retry' = {} /\ UNCHANGED <<stage, outcome>>
       \/ /\ answer = "405"
          /\ retry' = {url} \ retry /\ UNCHANGED <<pending, reached, stage, outcome>>
       \/ /\ answer \notin {"good", "405"}
          /\ End("source") /\ UNCHANGED network
  /\ UNCHANGED <<journal, search>>

\* check_source_url: HEAD, and GET where HEAD is not allowed.
AskSource ==
  /\ stage = "urls" /\ CheckUrls /\ pending # {}
  /\ \E url \in (IF retry = {} THEN pending ELSE retry), answer \in Answers :
       \/ /\ answer = "good"
          /\ pending' = pending \ {url} /\ reached' = reached \cup {url}
          /\ retry' = {} /\ UNCHANGED <<stage, outcome>>
       \/ /\ answer = "405" /\ retry = {}
          /\ retry' = {url} /\ UNCHANGED <<pending, reached, stage, outcome>>
       \/ /\ answer \in {"405", "error", "unreachable"}
          /\ answer = "405" => retry # {}
          /\ End("source") /\ UNCHANGED network
       \/ /\ answer = "protocol"
          /\ End("traceback") /\ UNCHANGED network
  /\ UNCHANGED <<journal, search>>

Accept ==
  /\ stage = "urls" /\ (CheckUrls => pending = {})
  /\ End("PASS")
  /\ UNCHANGED <<journal, search, network>>

Next == \/ CheckIdentifiers \/ CheckEntries \/ CheckTargets
        \/ WalkRoot \/ WalkTarget \/ Return \/ EndSearch
        \/ CheckViews \/ AskSource \/ Accept

\* The tool is one thread that nothing stops.
Spec == Init /\ [][Next]_vars /\ WF_vars(Next)

-----------------------------------------------------------------------------
(* Properties.                                                             *)

Frames == [id : Ids, next : Nat \ {0}]
Stages == {"identifiers", "entries", "targets", "search", "views", "urls", "done"}
Outcomes == {"none", "duplicate", "entry", "target", "cycle", "view", "source",
             "traceback", "PASS"}

TypeOK ==
  /\ stage \in Stages /\ outcome \in Outcomes
  /\ root \in 0..Len(Entries) /\ stack \in Seq(Frames) /\ walks \in Nat
  /\ visiting \subseteq Ids /\ visited \subseteq Ids
  /\ LET urls == {Entries[i].url : i \in DOMAIN Entries}
     IN pending \subseteq urls /\ retry \subseteq pending /\ reached \subseteq urls

\* No cycle: every set of entries has one that supersedes none of them.
HasSink(S) == \E x \in S : Successors(x) \cap S = {}
Acyclic == \A S \in (SUBSET Ids) \ {{}} : HasSink(S)

\* An accepted journal supersedes in one direction only, also when the search runs
\* into the recursion limit (validate_supersession).
NoCycleAccepted == outcome = "PASS" => Acyclic

\* A journal refused for a cycle has one, however its entries share the entries
\* they supersede.
CycleIsReal == outcome = "cycle" => ~Acyclic

\* Of the journals that come so far, those with a cycle are refused for it and no
\* others (validate_supersession).
CyclesRefused == NoCycleAccepted /\ CycleIsReal

\* What the search keeps true.  Its frames are a path of entries in use, below each of
\* them lie its earlier targets, all left; an entry left has left its targets behind
\* and closes no cycle among the entries left (validate_supersession).
Path ==
  /\ visiting = {stack[k].id : k \in DOMAIN stack}
  /\ \A k, l \in DOMAIN stack : stack[k].id = stack[l].id => k = l
  /\ \A k \in DOMAIN stack : k + 1 \in DOMAIN stack =>
       /\ stack[k].next - 1 \in DOMAIN Targets(stack[k].id)
       /\ Targets(stack[k].id)[stack[k].next - 1] = stack[k + 1].id
Behind ==
  /\ visiting \cap visited = {}
  /\ \A k \in DOMAIN stack : \A n \in DOMAIN Targets(stack[k].id) :
       n < stack[k].next =>
         \/ Targets(stack[k].id)[n] \in visited
         \/ k + 1 \in DOMAIN stack /\ n = stack[k].next - 1
  /\ \A id \in visited : Successors(id) \subseteq visited
  /\ \A S \in (SUBSET visited) \ {{}} : HasSink(S)
Covered ==
  /\ stack # <<>> => root # 0 /\ stack[1].id = Entries[root].id
  /\ \A i \in 1..root : Entries[i].id \in visited \/ (i = root /\ stack # <<>>)
SearchInv ==
  /\ stage \in {"identifiers", "entries", "targets"} =>
       stack = <<>> /\ root = 0 /\ visiting = {} /\ visited = {}
  /\ stage \in {"search", "views", "urls"} =>
       /\ Path /\ Behind /\ Covered
       /\ \A id \in Ids : Successors(id) \subseteq Ids
  /\ stage \in {"views", "urls"} => stack = <<>> /\ root = Len(Entries)
  /\ stage = "done" <=> outcome # "none"
  /\ NoCycleAccepted /\ CycleIsReal

\* The search calls walk once per entry and once per target: entries that are
\* superseded along many ways do not multiply it.
Edges == UNION {{i} \X DOMAIN Entries[i].supersedes : i \in DOMAIN Entries}
WalksAreLinear == walks <= Len(Entries) + Cardinality(Edges)

\* The edges whose call has been made: those of an entry left, and of an entry in use
\* those before its next target.  Every call so far was of a root or of one of these.
Taken == {e \in Edges : \/ Entries[e[1]].id \in visited
                        \/ \E k \in DOMAIN stack : /\ stack[k].id = Entries[e[1]].id
                                                  /\ e[2] < stack[k].next}
Counted ==
  /\ stage \in {"entries", "targets", "search", "views", "urls"} =>
       \A i, j \in DOMAIN Entries : Entries[i].id = Entries[j].id => i = j
  /\ walks = root + Cardinality(Taken)

\* What the stages passed so far have established.
Passed ==
  /\ stage \in {"targets", "search", "views", "urls"} \/ outcome = "PASS" =>
       \A i \in DOMAIN Entries : EntryHolds(Entries[i])
  /\ stage = "urls" \/ outcome = "PASS" =>
       \A v \in DOMAIN journal.views : MarkersHold(journal.views[v])
  /\ {Entries[i].url : i \in DOMAIN Entries} \subseteq pending \cup reached
  /\ outcome = "PASS" /\ CheckUrls => pending = {}

\* On a page of an accepted journal no marker, not even a repeated one, shows an
\* entry with another status or grade than the journal's (markers_for_view).
PagesTellTheTruth ==
  outcome = "PASS" => \A v \in DOMAIN journal.views :
    \A k \in DOMAIN journal.views[v].markers :
      \E i \in DOMAIN Entries : journal.views[v].markers[k] = MarkerOf(Entries[i])

\* A journal accepted with --check-urls has answered for every source, with a page
\* (check_source_url and its second request).
SourcesAnswered ==
  (outcome = "PASS" /\ CheckUrls) => \A i \in DOMAIN Entries : Entries[i].url \in reached

\* The page a path leads to: a reader's browser takes ".." as the directory above
\* (one is enough here, in the place of a file's first segment).
Resolved(path) == IF Len(path) >= 4 /\ path[3] = ".."
                  THEN <<path[1]>> \o SubSeq(path, 4, Len(path)) ELSE path
AtTag(path, tag) == \/ path[1] \in {"blob", "tree", "commits"} /\ path[2] = tag
                    \/ path[1] = "releases" /\ path[2] = "tag" /\ path[3] = tag

OfBranch(path) == path[1] \in {"blob", "tree", "commits"} /\ path[2] \in MutableBranches

\* What is accepted as PROVED cites a page at the tag of its coordinate, and the page
\* it leads to is of no mutable branch, as long as its path has no dots
\* (validate_coordinate and public_source_parts, which must agree on every form of a
\* path).  With dots it may be of a branch, of which docs/build-journal/README.md:10-11
\* says "A mutable branch URL is never accepted as proof".
ProofIsPinned ==
  outcome = "PASS" => \A i \in DOMAIN Entries :
    LET e == Entries[i]
    IN e.status = "PROVED" =>
         /\ e.coordinate.kind = "tag" /\ AtTag(e.url.path, e.coordinate.tag)
         /\ Resolved(e.url.path) = e.url.path => ~OfBranch(Resolved(e.url.path))

\* The check comes to an end on every journal.
Ends == <>(stage = "done")
=============================================================================
