-------------------------- MODULE ReleaseManifest --------------------------
(***************************************************************************)
(* tools/build_release_manifest.py: lists the files of a release with      *)
(* their digests in a manifest and a checksum file, and reads both back.   *)
(*                                                                         *)
(* A builder is one invocation.  It never locks anything: it asks git      *)
(* whether the worktree is the commit, reads the files, asks again, writes,*)
(* and does all of it a second time to verify.  Meanwhile others edit      *)
(* files, check out commits, clear and alter the output directory, run     *)
(* builders on the same output, or kill one.  What git was told not to     *)
(* look at (Hidden) it does not see, and PassDescribesCommit exempts it.   *)
(***************************************************************************)
EXTENDS Naturals, Sequences, FiniteSets

CONSTANTS Inventory,   \* DISTRIBUTABLE_PATHS, sorted: a sequence of files
          Extra,       \* other files that would be discovered on the surface
          Values,      \* contents a file may have
          Commits, Tree,  \* the commits, and what each has in every file
          Hidden,      \* files git was told to assume unchanged
          Builders, Outputs,
          Refused,     \* outputs that are links or lie inside the worktree
          MaxRuns, MaxEdits, MaxTampers,  \* bounds
          MaxShared,   \* bound: edits when there are two runs or an output is altered
          Absent,      \* no file
          Linked,      \* a symbolic link in the place of a file
          Mixed,       \* digest of bytes of two states of a file
          Garbage      \* an output file that is cut or not the tool's

Listed == {Inventory[i] : i \in DOMAIN Inventory}
Files == Listed \cup Extra
Content == Values \cup {Absent, Linked}
Digest == Values \cup {Linked, Mixed}

ASSUME ReleaseAssumption ==
  /\ Inventory \in Seq(Listed) /\ Listed \cap Extra = {} /\ Hidden \subseteq Files
  /\ Tree \in [Commits -> [Files -> Values \cup {Absent}]]
  /\ Outputs # {} /\ Refused \subseteq Outputs /\ "nobody" \notin Builders
  /\ MaxRuns \in Nat /\ MaxEdits \in Nat /\ MaxTampers \in Nat /\ MaxShared \in Nat
  /\ Absent \notin Values /\ Linked \notin Values /\ Mixed \notin Values
  /\ Absent # Linked /\ Absent # Mixed /\ Linked # Mixed

\* _manifest, and _manifest_bytes of it or another spelling of the same.
Manifest == [commit : Commits, files : Seq(Digest), canonical : BOOLEAN]
\* _checksums_bytes: the digests in the same order, without the commit.
Sums == Seq(Digest)
ManifestOf(c, digests) == [commit |-> c, files |-> digests, canonical |-> TRUE]

\* No output file is the absence of one.
ASSUME AbsenceAssumption == Absent \notin Manifest /\ Absent \notin Sums

NoOutput == [exists |-> FALSE, manifest |-> Absent, sums |-> Absent, others |-> FALSE]

\* Fault: what is read back is compared with the manifest that was built.
ScriptOnce == <<"start", "inventory", "head", "clean", "inventory", "derive", "head",
                "clean", "mkdir", "manifest", "sums",
                "head", "clean", "list", "readback", "compare", "readsums",
                "head", "clean", "pass">>

\* What build_release_outputs and verify_release_outputs do, in order.
Script == <<"start", "inventory", "head", "clean", "inventory", "derive", "head",
            "clean", "mkdir", "manifest", "sums",
            "head", "clean", "list", "readback", "inventory", "derive",
            "compare", "readsums", "head", "clean", "pass">>

VARIABLES tree, head,   \* the worktree and its HEAD
          stamp,        \* per file, what stat says of it: changes with each edit
          outdir,       \* the output directories
          pos,          \* per builder, the place in Script, 0 when not running
          outcome,      \* per builder, how its last run ended
          commit, output, \* per builder, its arguments
          digests,      \* per builder, the digests of the manifest being made
          reading,      \* per builder, the file _digest is in the middle of
          built,        \* per builder, the manifest it writes
          observed,     \* per builder, the manifest it read back
          strays,       \* history: how often a file left the builder's commit
          stale,       \* history: output files changed since the builder read them
          runs, edits, tampers

worktree == <<tree, head, stamp>>
local == <<commit, output, digests, reading, built, observed>>
bounds == <<runs, edits, tampers>>
vars == <<worktree, outdir, pos, outcome, local, strays, stale, bounds>>

NotReading == [stage |-> "none"]

Init ==
  /\ head \in Commits /\ tree = Tree[head]
  /\ stamp = [f \in Files |-> 0]
  /\ outdir = [o \in Outputs |-> NoOutput]
  /\ pos = [b \in Builders |-> 0]
  /\ outcome = [b \in Builders |-> "none"]
  /\ commit = [b \in Builders |-> CHOOSE c \in Commits : TRUE]
  /\ output = [b \in Builders |-> CHOOSE o \in Outputs : TRUE]
  /\ digests = [b \in Builders |-> <<>>]
  /\ reading = [b \in Builders |-> NotReading]
  /\ built = [b \in Builders |-> Absent] /\ observed = [b \in Builders |-> Absent]
  /\ strays = [b \in Builders |-> [f \in Files |-> 0]]
  /\ stale = [b \in Builders |-> {}]
  /\ runs = 0 /\ edits = 0 /\ tampers = 0

At(b, step) == pos[b] \in DOMAIN Script /\ Script[pos[b]] = step
Advance(b) == pos' = [pos EXCEPT ![b] = @ + 1] /\ UNCHANGED outcome

\* fail is answered with BLOCK; any other exception ends in a traceback.
EndRun(b, how) == /\ pos' = [pos EXCEPT ![b] = 0]
                  /\ outcome' = [outcome EXCEPT ![b] = how]
Require(b, condition) == IF condition THEN Advance(b) ELSE EndRun(b, "BLOCK")

-----------------------------------------------------------------------------
(* The builder.                                                            *)

\* validate_commit admits every member of Commits.
Begin(b) ==
  /\ pos[b] = 0 /\ runs < MaxRuns /\ (runs = 0 \/ edits \leq MaxShared)
  /\ runs' = runs + 1
  /\ \E c \in Commits, o \in Outputs :
       commit' = [commit EXCEPT ![b] = c] /\ output' = [output EXCEPT ![b] = o]
  /\ pos' = [pos EXCEPT ![b] = 1] /\ outcome' = [outcome EXCEPT ![b] = "none"]
  /\ built' = [built EXCEPT ![b] = Absent] /\ observed' = [observed EXCEPT ![b] = Absent]
  /\ digests' = [digests EXCEPT ![b] = <<>>]
  /\ reading' = [reading EXCEPT ![b] = NotReading]
  /\ strays' = [strays EXCEPT ![b] = [f \in Files |-> 0]]
  /\ stale' = [stale EXCEPT ![b] = {}]
  /\ UNCHANGED <<worktree, outdir, edits, tampers>>

\* _output_path: a fresh directory outside the worktree.
CheckOutputPath(b) ==
  /\ At(b, "start")
  /\ Require(b, output[b] \notin Refused /\ ~outdir[output[b]].exists)
  /\ UNCHANGED <<worktree, outdir, local, strays, stale, bounds>>

\* _discovered_surface against the required set; then no link on any path.
InventoryHolds == {f \in Files : tree[f] # Absent} = Listed
                  /\ \A f \in Listed : tree[f] # Linked

CheckInventory(b) ==
  /\ At(b, "inventory")
  /\ Require(b, InventoryHolds)
  /\ digests' = [digests EXCEPT ![b] = <<>>]
  /\ UNCHANGED <<worktree, outdir, commit, output, reading, built, observed,
                 strays, stale, bounds>>

CheckHead(b) ==
  /\ At(b, "head")
  /\ Require(b, head = commit[b])
  /\ UNCHANGED <<worktree, outdir, local, strays, stale, bounds>>

\* git status: compares with HEAD, whatever that is by now.
Clean == \A f \in Files \ Hidden : tree[f] = Tree[head][f]

CheckClean(b) ==
  /\ At(b, "clean")
  /\ Require(b, Clean)
  /\ UNCHANGED <<worktree, outdir, local, strays, stale, bounds>>

\* _digest takes a file's identity, reads it piece by piece, and takes the
\* identity again.
NextFile(b) == Inventory[Len(digests[b]) + 1]

StatFile(b) ==
  /\ At(b, "derive") /\ Len(digests[b]) < Len(Inventory) /\ reading[b].stage = "none"
  /\ LET f == NextFile(b)
     IN IF tree[f] = Absent THEN EndRun(b, "traceback") /\ UNCHANGED reading
        ELSE /\ reading' = [reading EXCEPT ![b] =
                             [stage |-> "stat", stamp |-> stamp[f]]]
             /\ UNCHANGED <<pos, outcome>>
  /\ UNCHANGED <<worktree, outdir, commit, output, digests, built, observed,
                 strays, stale, bounds>>

ReadFirst(b) ==
  /\ At(b, "derive") /\ reading[b].stage = "stat"
  /\ LET f == NextFile(b)
     IN IF tree[f] = Absent THEN EndRun(b, "traceback") /\ UNCHANGED reading
        ELSE /\ reading' = [reading EXCEPT ![b] =
                             [stage |-> "read", stamp |-> @.stamp, first |-> tree[f]]]
             /\ UNCHANGED <<pos, outcome>>
  /\ UNCHANGED <<worktree, outdir, commit, output, digests, built, observed,
                 strays, stale, bounds>>

\* Fault: the identity is not compared.
AnyFile(b) == TRUE

SameFile(b) == reading[b].stamp = stamp[NextFile(b)]

FinishRead(b) ==
  /\ At(b, "derive") /\ reading[b].stage = "read"
  /\ reading' = [reading EXCEPT ![b] = NotReading]
  /\ LET now == tree[NextFile(b)]
         digest == IF reading[b].first = now THEN now ELSE Mixed
     IN IF now # Absent /\ SameFile(b)
        THEN /\ digests' = [digests EXCEPT ![b] = Append(@, digest)]
             /\ UNCHANGED <<pos, outcome>>
        ELSE /\ EndRun(b, IF now = Absent THEN "traceback" ELSE "BLOCK")
             /\ UNCHANGED digests
  /\ UNCHANGED <<worktree, outdir, commit, output, built, observed, strays, stale, bounds>>

\* _manifest returns; the first time, to the build.
Derived(b) ==
  /\ At(b, "derive") /\ Len(digests[b]) = Len(Inventory)
  /\ Advance(b)
  /\ built' = IF built[b] = Absent
              THEN [built EXCEPT ![b] = ManifestOf(commit[b], digests[b])] ELSE built
  /\ UNCHANGED <<worktree, outdir, commit, output, digests, reading, observed,
                 strays, stale, bounds>>

\* Writes of a builder, and changes by others, make what was read stale.
Touch(o, names, by) ==
  stale' = [b \in Builders |-> IF b # by /\ pos[b] # 0 /\ output[b] = o
                               THEN stale[b] \cup names ELSE stale[b]]

MakeDirectory(b) ==
  /\ At(b, "mkdir")
  /\ IF outdir[output[b]].exists
     THEN EndRun(b, "traceback") /\ UNCHANGED outdir
     ELSE /\ Advance(b)
          /\ outdir' = [outdir EXCEPT ![output[b]] = [NoOutput EXCEPT !.exists = TRUE]]
  /\ UNCHANGED <<worktree, local, strays, stale, bounds>>

\* Fault: a file is written over one that exists (mode "wb").
WriteOver(b, name, text) ==
  LET o == output[b]
  IN IF outdir[o].exists
     THEN /\ outdir' = [outdir EXCEPT ![o][name] = text] /\ Advance(b)
          /\ Touch(o, {name}, b)
     ELSE EndRun(b, "traceback") /\ UNCHANGED <<outdir, stale>>

\* _write_new creates the file or fails; a full disk cuts it.
WriteNew(b, name, text) ==
  LET o == output[b]
  IN \/ /\ outdir[o].exists /\ outdir[o][name] = Absent
        /\ \/ outdir' = [outdir EXCEPT ![o][name] = text] /\ Advance(b)
           \/ outdir' = [outdir EXCEPT ![o][name] = Garbage] /\ EndRun(b, "traceback")
        /\ Touch(o, {name}, b)
     \/ /\ ~outdir[o].exists \/ outdir[o][name] # Absent
        /\ EndRun(b, "traceback") /\ UNCHANGED <<outdir, stale>>

WriteManifest(b) ==
  /\ At(b, "manifest")
  /\ WriteNew(b, "manifest", built[b])
  /\ UNCHANGED <<worktree, local, strays, bounds>>

WriteSums(b) ==
  /\ At(b, "sums")
  /\ WriteNew(b, "sums", built[b].files)
  /\ UNCHANGED <<worktree, local, strays, bounds>>

ListOutput(b) ==
  /\ At(b, "list")
  /\ LET out == outdir[output[b]]
     IN IF ~out.exists THEN EndRun(b, "traceback")
        ELSE Require(b, out.manifest # Absent /\ out.sums # Absent /\ ~out.others)
  /\ UNCHANGED <<worktree, outdir, local, strays, stale, bounds>>

ReadBack(b) ==
  /\ At(b, "readback")
  /\ LET text == outdir[output[b]].manifest
     IN /\ IF text = Absent THEN EndRun(b, "traceback") ELSE Require(b, text # Garbage)
        /\ observed' = [observed EXCEPT ![b] = text]
  /\ stale' = [stale EXCEPT ![b] = @ \ {"manifest"}]
  /\ UNCHANGED <<worktree, outdir, commit, output, digests, reading, built, strays, bounds>>

CompareManifest(b) ==
  /\ At(b, "compare")
  /\ Require(b, observed[b] = ManifestOf(commit[b], digests[b]))
  /\ UNCHANGED <<worktree, outdir, local, strays, stale, bounds>>

\* Fault: the checksum file only has to be there.
ReadAnySums(b) ==
  /\ At(b, "readsums")
  /\ IF outdir[output[b]].sums = Absent THEN EndRun(b, "traceback") ELSE Advance(b)
  /\ stale' = [stale EXCEPT ![b] = @ \ {"sums"}]
  /\ UNCHANGED <<worktree, outdir, local, strays, bounds>>

ReadSums(b) ==
  /\ At(b, "readsums")
  /\ LET text == outdir[output[b]].sums
     IN IF text = Absent THEN EndRun(b, "traceback") ELSE Require(b, text = digests[b])
  /\ stale' = [stale EXCEPT ![b] = @ \ {"sums"}]
  /\ UNCHANGED <<worktree, outdir, local, strays, bounds>>

Pass(b) ==
  /\ At(b, "pass")
  /\ EndRun(b, "PASS")
  /\ UNCHANGED <<worktree, outdir, local, strays, stale, bounds>>

Builder(b) ==
  \/ CheckOutputPath(b) \/ CheckInventory(b) \/ CheckHead(b) \/ CheckClean(b)
  \/ StatFile(b) \/ ReadFirst(b) \/ FinishRead(b) \/ Derived(b)
  \/ MakeDirectory(b) \/ WriteManifest(b) \/ WriteSums(b)
  \/ ListOutput(b) \/ ReadBack(b) \/ CompareManifest(b) \/ ReadSums(b) \/ Pass(b)

-----------------------------------------------------------------------------
(* Everybody else.                                                         *)

Stray(new) ==
  strays' = [b \in Builders |-> [f \in Files |->
    IF pos[b] # 0 /\ tree[f] = Tree[commit[b]][f] /\ new[f] # tree[f]
    THEN strays[b][f] + 1 ELSE strays[b][f]]]

Change(new) ==
  /\ edits < MaxEdits /\ edits' = edits + 1
  /\ (runs \leq 1 /\ tampers = 0) \/ edits < MaxShared
  /\ tree' = new /\ Stray(new)
  /\ stamp' = [f \in Files |-> IF new[f] = tree[f] THEN stamp[f] ELSE stamp[f] + 1]
  /\ UNCHANGED <<outdir, pos, outcome, local, stale, runs, tampers>>

EditFile ==
  /\ \E f \in Files, c \in Content : c # tree[f] /\ Change([tree EXCEPT ![f] = c])
  /\ UNCHANGED head

Checkout ==
  \E c \in Commits \ {head} : /\ tree = Tree[head]
                            /\ head' = c /\ Change(Tree[c])

Kill(b) ==
  /\ pos[b] # 0
  /\ EndRun(b, "killed")
  /\ UNCHANGED <<worktree, outdir, local, strays, stale, bounds>>

\* Someone clears an output, adds to it, or spells the manifest anew, or cuts or
\* removes a file of it.
Meddle(o, out, names) ==
  /\ tampers < MaxTampers /\ tampers' = tampers + 1 /\ edits \leq MaxShared
  /\ outdir[o].exists /\ outdir' = [outdir EXCEPT ![o] = out]
  /\ Touch(o, names, "nobody")
  /\ UNCHANGED <<worktree, pos, outcome, local, strays, runs, edits>>

Tamper ==
  \E o \in Outputs :
    LET out == outdir[o]
    IN \/ Meddle(o, NoOutput, {"manifest", "sums"})
       \/ Meddle(o, [out EXCEPT !.others = TRUE], {})
       \/ /\ out.manifest \notin {Absent, Garbage}
          /\ Meddle(o, [out EXCEPT !.manifest.canonical = FALSE], {"manifest"})
       \/ \E name \in {"manifest", "sums"}, text \in {Absent, Garbage} :
            Meddle(o, [out EXCEPT ![name] = text], {name})

Next == \/ \E b \in Builders : Begin(b) \/ Builder(b) \/ Kill(b)
        \/ EditFile \/ Checkout \/ Tamper

Spec == Init /\ [][Next]_vars

-----------------------------------------------------------------------------
(* Properties.                                                             *)

OutputFile == {Absent, Garbage}

TypeOK ==
  /\ head \in Commits /\ tree \in [Files -> Content]
  /\ stamp \in [Files -> 0..MaxEdits]
  /\ \A o \in Outputs :
       /\ outdir[o].exists \in BOOLEAN /\ outdir[o].others \in BOOLEAN
       /\ outdir[o].manifest \in OutputFile \/ outdir[o].manifest \in Manifest
       /\ outdir[o].sums \in OutputFile \/ outdir[o].sums \in Sums
       /\ ~outdir[o].exists => outdir[o] = NoOutput
  /\ pos \in [Builders -> 0..Len(Script)]
  /\ outcome \in [Builders -> {"none", "PASS", "BLOCK", "traceback", "killed"}]
  /\ commit \in [Builders -> Commits] /\ output \in [Builders -> Outputs]
  /\ \A b \in Builders :
       /\ digests[b] \in Seq(Digest) /\ Len(digests[b]) <= Len(Inventory)
       /\ reading[b].stage \in {"none", "stat", "read"}
       /\ built[b] = Absent \/ built[b] \in Manifest
       /\ observed[b] \in OutputFile \/ observed[b] \in Manifest
  /\ stale \in [Builders -> SUBSET {"manifest", "sums"}]
  /\ runs \in 0..MaxRuns /\ edits \in 0..MaxEdits /\ tampers \in 0..MaxTampers

Passed(b) == outcome[b] = "PASS"

\* A PASS names the content the commit has in every listed file, unless that file
\* was taken away from the commit and brought back twice while the tool ran: once
\* under each derivation, between two questions to git each time (the assertions
\* and the second derivation of verify_release_outputs).  The manifest it read
\* back has to be the one it built: nothing compares the two, and somebody else's,
\* made during one such excursion, would do.  Files git does not look at are exempt.
PassDescribesCommit ==
  \A b \in Builders : Passed(b) /\ observed[b] = built[b] =>
    \A i \in DOMAIN Inventory :
      LET f == Inventory[i]
      IN digests[b][i] = Tree[commit[b]][f] \/ strays[b][f] >= 2 \/ f \in Hidden

\* No digest of a PASS is of a mixture of two states of a file, however often the
\* files change while they are read (_digest and its two stats).
PassNeverMixes ==
  \A b \in Builders : Passed(b) => \A i \in DOMAIN digests[b] : digests[b][i] # Mixed

\* When a builder passes, the output files nobody has changed since it read them
\* say what it derived (the readback of verify_release_outputs).
PassReadsBack ==
  \A b \in Builders : At(b, "pass") =>
    /\ "manifest" \notin stale[b] =>
         outdir[output[b]].manifest = ManifestOf(commit[b], digests[b])
    /\ "sums" \notin stale[b] => outdir[output[b]].sums = digests[b]

\* Once a builder has passed no other builder changes what it wrote, not even a
\* slow one that made the directory before it was cleared (mkdir and open "xb",
\* which both refuse what exists).
Stands(b) == /\ Passed(b)
             /\ outdir[output[b]] = [exists |-> TRUE, others |-> FALSE,
                  manifest |-> ManifestOf(commit[b], digests[b]), sums |-> digests[b]]
PassedOutputStands ==
  [][\A b \in Builders : Stands(b) /\ outdir'[output[b]] # outdir[output[b]]
                         => tampers' > tampers]_vars
=============================================================================
