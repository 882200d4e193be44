----------------------- MODULE ReleaseManifestProofs -----------------------
(***************************************************************************)
(* What a PASS of the manifest builder means, for every inventory and any  *)
(* commits, and for any number of builders, edits, checkouts, kills and    *)
(* changes of the output.                                                  *)
(***************************************************************************)
EXTENDS ReleaseManifest, TLAPS

ReadingType ==
  {NotReading} \cup [stage : {"stat"}, stamp : Nat]
               \cup [stage : {"read"}, stamp : Nat, first : Content]

OutputType == [exists : BOOLEAN, manifest : OutputFile \cup Manifest,
               sums : OutputFile \cup Sums, others : BOOLEAN]

Names == {"manifest", "sums"}

Types ==
  /\ head \in Commits /\ tree \in [Files -> Content]
  /\ stamp \in [Files -> Nat] /\ \A f \in Files : stamp[f] <= edits
  /\ outdir \in [Outputs -> OutputType]
  /\ \A o \in Outputs : ~outdir[o].exists => outdir[o] = NoOutput
  /\ pos \in [Builders -> 0..22]
  /\ outcome \in [Builders -> {"none", "PASS", "BLOCK", "traceback", "killed"}]
  /\ commit \in [Builders -> Commits] /\ output \in [Builders -> Outputs]
  /\ digests \in [Builders -> Seq(Digest)]
  /\ reading \in [Builders -> ReadingType]
  /\ built \in [Builders -> {Absent} \cup Manifest]
  /\ observed \in [Builders -> OutputFile \cup Manifest]
  /\ strays \in [Builders -> [Files -> Nat]]
  /\ stale \in [Builders -> SUBSET Names]
  /\ runs \in 0..MaxRuns /\ edits \in 0..MaxEdits /\ tampers \in 0..MaxTampers

\* A file is read only in a derivation, and its stamp is not older than the one
\* that was taken; if it is the same, the bytes read first are still there.
Reads(b) ==
  /\ Len(digests[b]) <= Len(Inventory)
  /\ \A i \in DOMAIN digests[b] : digests[b][i] # Mixed
  /\ pos[b] \notin {0, 6, 17} => reading[b] = NotReading
  /\ pos[b] \in {6, 17} /\ reading[b] # NotReading =>
       /\ Len(digests[b]) < Len(Inventory)
       /\ reading[b].stamp <= stamp[NextFile(b)]
       /\ reading[b].stage = "read" /\ reading[b].stamp = stamp[NextFile(b)]
            => reading[b].first = tree[NextFile(b)]
  /\ pos[b] \in 7..15 \cup 18..22 => Len(digests[b]) = Len(Inventory)

\* The digests of the first derivation are those of the manifest.
Builds(b) ==
  /\ pos[b] \in 1..6 => built[b] = Absent
  /\ pos[b] >= 7 => built[b] \in Manifest
  /\ pos[b] >= 19 => observed[b] = ManifestOf(commit[b], digests[b])

Off(b, f) == tree[f] # Tree[commit[b]][f]
Misread(b, i) ==
  i \in DOMAIN digests[b] /\ digests[b][i] # Tree[commit[b]][Inventory[i]]
Misbuilt(b, i) ==
  i \in DOMAIN built[b].files /\ built[b].files[i] # Tree[commit[b]][Inventory[i]]

\* How often a file has left the commit.  Each pair of questions to git saw it there:
\* the first pair before the first derivation, the second between the two.  The
\* worktree may go to another commit between the two questions of a pair, but only
\* from the commit itself.
LeavesAt(b, i) ==
  LET f == Inventory[i]
      s == strays[b][f]
  IN /\ pos[b] = 4 /\ Off(b, f) => head = commit[b] \/ s >= 1
     /\ pos[b] >= 5 /\ Off(b, f) => s >= 1
     /\ pos[b] >= 6 /\ Misread(b, i) => s >= 1
     /\ pos[b] >= 7 /\ Misbuilt(b, i) => s >= 1
     /\ pos[b] = 8 /\ Misbuilt(b, i) /\ Off(b, f) => head = commit[b] \/ s >= 2
     /\ pos[b] >= 9 /\ Misbuilt(b, i) /\ Off(b, f) => s >= 2
     /\ pos[b] >= 17 /\ Misbuilt(b, i) /\ Misread(b, i) => s >= 2

Leaves(b) ==
  \A i \in DOMAIN Inventory : Inventory[i] \notin Hidden => LeavesAt(b, i)

\* What was read back is still there unless somebody changed it since.
Fresh(b) ==
  /\ pos[b] >= 16 /\ "manifest" \notin stale[b]
       => outdir[output[b]].manifest = observed[b]
  /\ pos[b] >= 20 /\ "sums" \notin stale[b] => outdir[output[b]].sums = digests[b]

\* What a PASS says stands until the builder is started again.
Verdict(b) ==
  /\ outcome[b] # "none" => pos[b] = 0
  /\ Passed(b) =>
       /\ Len(digests[b]) = Len(Inventory)
       /\ observed[b] = ManifestOf(commit[b], digests[b])
       /\ observed[b] = built[b] =>
            \A i \in DOMAIN Inventory :
              LET f == Inventory[i]
              IN digests[b][i] = Tree[commit[b]][f] \/ strays[b][f] >= 2 \/ f \in Hidden

BuilderInv(b) == Reads(b) /\ Builds(b) /\ Leaves(b) /\ Fresh(b) /\ Verdict(b)

IInv == Types /\ \A b \in Builders : BuilderInv(b)

-----------------------------------------------------------------------------
(* The script, and what holds wherever a builder stands in it.             *)

LEMMA Places ==
  /\ Len(Script) = 22 /\ DOMAIN Script = 1..22
  /\ \A n \in 1..22 :
       /\ Script[n] = "start" <=> n = 1
       /\ Script[n] = "inventory" <=> n \in {2, 5, 16}
       /\ Script[n] = "head" <=> n \in {3, 7, 12, 20}
       /\ Script[n] = "clean" <=> n \in {4, 8, 13, 21}
       /\ Script[n] = "derive" <=> n \in {6, 17}
       /\ Script[n] = "mkdir" <=> n = 9
       /\ Script[n] = "manifest" <=> n = 10
       /\ Script[n] = "sums" <=> n = 11
       /\ Script[n] = "list" <=> n = 14
       /\ Script[n] = "readback" <=> n = 15
       /\ Script[n] = "compare" <=> n = 18
       /\ Script[n] = "readsums" <=> n = 19
       /\ Script[n] = "pass" <=> n = 22
<1>1. Len(Script) = 22 /\ DOMAIN Script = 1..22
  BY DEF Script
<1>2. /\ Script[1] = "start" /\ Script[2] = "inventory" /\ Script[3] = "head"
      /\ Script[4] = "clean" /\ Script[5] = "inventory" /\ Script[6] = "derive"
      /\ Script[7] = "head" /\ Script[8] = "clean" /\ Script[9] = "mkdir"
      /\ Script[10] = "manifest" /\ Script[11] = "sums" /\ Script[12] = "head"
      /\ Script[13] = "clean" /\ Script[14] = "list" /\ Script[15] = "readback"
      /\ Script[16] = "inventory" /\ Script[17] = "derive" /\ Script[18] = "compare"
      /\ Script[19] = "readsums" /\ Script[20] = "head" /\ Script[21] = "clean"
      /\ Script[22] = "pass"
  BY DEF Script
<1>3. \A n \in 1..22 : n \in {1, 2, 3, 4, 5, 6, 7, 8, 9, 10, 11, 12, 13, 14, 15, 16, 17,
                              18, 19, 20, 21, 22}
  OBVIOUS
<1> QED
  BY <1>1, <1>2, <1>3

LEMMA Standing ==
  ASSUME Types, NEW b \in Builders
  PROVE  /\ pos[b] \in 0..22
         /\ At(b, "start") <=> pos[b] = 1
         /\ At(b, "inventory") <=> pos[b] \in {2, 5, 16}
         /\ At(b, "head") <=> pos[b] \in {3, 7, 12, 20}
         /\ At(b, "clean") <=> pos[b] \in {4, 8, 13, 21}
         /\ At(b, "derive") <=> pos[b] \in {6, 17}
         /\ At(b, "mkdir") <=> pos[b] = 9
         /\ At(b, "manifest") <=> pos[b] = 10
         /\ At(b, "sums") <=> pos[b] = 11
         /\ At(b, "list") <=> pos[b] = 14
         /\ At(b, "readback") <=> pos[b] = 15
         /\ At(b, "compare") <=> pos[b] = 18
         /\ At(b, "readsums") <=> pos[b] = 19
         /\ At(b, "pass") <=> pos[b] = 22
<1>1. pos[b] \in 0..22
  BY DEF Types
<1> QED
  BY <1>1, Places DEF At

\* A builder whose own state and whose worktree stand still keeps what holds of it,
\* whoever touches its output in the open.
LEMMA Elsewhere ==
  ASSUME IInv, NEW b \in Builders,
         pos'[b] = pos[b], outcome'[b] = outcome[b], commit'[b] = commit[b],
         output'[b] = output[b], digests'[b] = digests[b], reading'[b] = reading[b],
         built'[b] = built[b], observed'[b] = observed[b], strays'[b] = strays[b],
         UNCHANGED worktree,
         pos[b] # 0 => /\ stale[b] \subseteq stale'[b]
                       /\ \/ outdir'[output[b]].manifest = outdir[output[b]].manifest
                          \/ "manifest" \in stale'[b]
                       /\ \/ outdir'[output[b]].sums = outdir[output[b]].sums
                          \/ "sums" \in stale'[b]
  PROVE  BuilderInv(b)'
<1>1. BuilderInv(b) /\ pos[b] \in 0..22
  BY DEF IInv, Types
<1>2. Reads(b)'
  BY <1>1 DEF BuilderInv, Reads, NextFile, worktree
<1>3. Builds(b)'
  BY <1>1 DEF BuilderInv, Builds
<1>4. Leaves(b)'
  BY <1>1 DEF BuilderInv, Leaves, LeavesAt, Off, Misread, Misbuilt, worktree
<1>5. Fresh(b)'
  BY <1>1 DEF BuilderInv, Fresh
<1>6. Verdict(b)'
  BY <1>1 DEF BuilderInv, Verdict, Passed
<1> QED
  BY <1>2, <1>3, <1>4, <1>5, <1>6 DEF BuilderInv

\* A run that ends without a PASS leaves nothing to keep.
LEMMA Ended ==
  ASSUME NEW b \in Builders, pos'[b] = 0, outcome'[b] # "PASS",
         Len(digests'[b]) <= Len(Inventory),
         \A i \in DOMAIN digests'[b] : digests'[b][i] # Mixed
  PROVE  BuilderInv(b)'
<1>1. Reads(b)'
  BY DEF Reads
<1>2. Builds(b)' /\ Leaves(b)' /\ Fresh(b)' /\ Verdict(b)'
  BY DEF Builds, Leaves, LeavesAt, Fresh, Verdict, Passed
<1> QED
  BY <1>1, <1>2 DEF BuilderInv

\* A builder that goes on to its next step outside the derivations and the inventory.
LEMMA Moves ==
  ASSUME IInv, NEW b \in Builders, pos[b] \in 1..21, pos[b] \notin {2, 5, 6, 16, 17},
         pos'[b] = pos[b] + 1, outcome'[b] = outcome[b], commit'[b] = commit[b],
         digests'[b] = digests[b], reading'[b] = reading[b], built'[b] = built[b],
         strays'[b] = strays[b], UNCHANGED worktree,
         pos[b] = 15 \/ observed'[b] = observed[b],
         pos[b] \in {3, 7} => head = commit[b],
         pos[b] \in {4, 8} => Clean,
         pos[b] = 18 => observed[b] = ManifestOf(commit[b], digests[b]),
         Fresh(b)'
  PROVE  BuilderInv(b)'
<1>1. BuilderInv(b)
  BY DEF IInv
<1>2. Reads(b)'
  <2>1. /\ pos[b] \notin {0, 6, 17} /\ pos'[b] \notin {0, 6, 17}
        /\ pos'[b] \in 7..15 \cup 18..22 => pos[b] \in 7..15 \cup 18..22
    OBVIOUS
  <2> QED
    BY <1>1, <2>1 DEF BuilderInv, Reads
<1>3. Builds(b)'
  BY <1>1 DEF BuilderInv, Builds
<1>4. Leaves(b)'
  <2> SUFFICES ASSUME NEW i \in DOMAIN Inventory, Inventory[i] \notin Hidden
               PROVE  LeavesAt(b, i)'
    BY DEF Leaves
  <2>1. LeavesAt(b, i) /\ Inventory[i] \in Files
    BY <1>1 DEF BuilderInv, Leaves, Files, Listed
  <2>2. /\ Off(b, Inventory[i])' <=> Off(b, Inventory[i])
        /\ Misread(b, i)' <=> Misread(b, i)
        /\ Misbuilt(b, i)' <=> Misbuilt(b, i)
        /\ head' = head
    BY DEF Off, Misread, Misbuilt, worktree
  <2>3. Clean /\ head = commit[b] => ~Off(b, Inventory[i])
    BY <2>1 DEF Clean, Off
  <2> QED
    BY <2>1, <2>2, <2>3 DEF LeavesAt
<1>5. Verdict(b)'
  <2>0. pos[b] # 0 /\ pos'[b] # 0
    OBVIOUS
  <2>1. outcome[b] = "none"
    BY <1>1, <2>0 DEF BuilderInv, Verdict
  <2> QED
    BY <2>0, <2>1 DEF Verdict, Passed
<1> QED
  BY <1>2, <1>3, <1>4, <1>5 DEF BuilderInv

-----------------------------------------------------------------------------
(* The steps that only go on or end the run.                               *)

Failure == {"BLOCK", "traceback", "killed"}

\* A step that looks at something and changes nothing but the place in the script.
LEMMA Asks ==
  ASSUME IInv, NEW q \in Builders,
         Advance(q) \/ \E how \in Failure : EndRun(q, how),
         UNCHANGED <<worktree, outdir, local, strays, stale, bounds>>,
         Advance(q) => /\ pos[q] \in 1..21 /\ pos[q] \notin {2, 5, 6, 15, 16, 17, 19}
                       /\ pos[q] \in {3, 7} => head = commit[q]
                       /\ pos[q] \in {4, 8} => Clean
                       /\ pos[q] = 18 => observed[q] = ManifestOf(commit[q], digests[q])
  PROVE  IInv'
<1>1. Types /\ BuilderInv(q)
  BY DEF IInv
<1>2. Types'
  <2>1. pos' \in [Builders -> 0..22]
    <3>1. CASE Advance(q)
      <4>1. pos[q] + 1 \in 0..22
        BY <3>1
      <4> QED
        BY <1>1, <3>1, <4>1 DEF Types, Advance
    <3>2. CASE \E how \in Failure : EndRun(q, how)
      BY <1>1, <3>2 DEF Types, EndRun
    <3> QED
      BY <3>1, <3>2
  <2>2. outcome' \in [Builders -> {"none", "PASS", "BLOCK", "traceback", "killed"}]
    BY <1>1 DEF Types, Advance, EndRun, Failure
  <2> QED
    BY <1>1, <2>1, <2>2 DEF Types, worktree, local, bounds
<1>3. ASSUME NEW b \in Builders, b # q PROVE BuilderInv(b)'
  BY <1>1, <1>3, Elsewhere DEF Types, Advance, EndRun, worktree, local
<1>4. CASE Advance(q)
  <2>1. /\ pos'[q] = pos[q] + 1 /\ UNCHANGED outcome
        /\ UNCHANGED <<outdir, stale, commit, output, digests, reading, built, observed,
                       strays, worktree>>
    BY <1>1, <1>4 DEF Types, Advance, local
  <2>2. Fresh(q)'
    BY <1>1, <1>4, <2>1 DEF BuilderInv, Fresh
  <2>3. BuilderInv(q)'
    BY <1>4, <2>1, <2>2, Moves
  <2> QED
    BY <1>2, <1>3, <2>3 DEF IInv
<1>5. CASE \E how \in Failure : EndRun(q, how)
  <2>1. pos'[q] = 0 /\ outcome'[q] # "PASS" /\ digests' = digests
    BY <1>1, <1>5 DEF Types, EndRun, Failure, local
  <2>2. BuilderInv(q)'
    BY <1>1, <2>1, Ended DEF BuilderInv, Reads
  <2> QED
    BY <1>2, <1>3, <2>2 DEF IInv
<1> QED
  BY <1>4, <1>5

LEMMA AsksKeep ==
  ASSUME IInv, NEW q \in Builders,
         CheckOutputPath(q) \/ CheckHead(q) \/ CheckClean(q) \/ ListOutput(q)
           \/ CompareManifest(q) \/ Kill(q)
  PROVE  IInv'
<1>s. Types
  BY DEF IInv
<1>1. CASE CheckOutputPath(q)
  <2>1. pos[q] = 1
    BY <1>s, <1>1, Standing DEF CheckOutputPath
  <2> QED
    BY <1>1, <2>1, Asks DEF CheckOutputPath, Require, Failure
<1>2. CASE CheckHead(q)
  <2>1. pos[q] \in {3, 7, 12, 20}
    BY <1>s, <1>2, Standing DEF CheckHead
  <2>2. Advance(q) => head = commit[q]
    BY <1>2, <1>s, <2>1 DEF CheckHead, Require, Advance, EndRun, Types
  <2> QED
    BY <1>2, <2>1, <2>2, Asks DEF CheckHead, Require, Failure
<1>3. CASE CheckClean(q)
  <2>1. pos[q] \in {4, 8, 13, 21}
    BY <1>s, <1>3, Standing DEF CheckClean
  <2>2. Advance(q) => Clean
    BY <1>3, <1>s, <2>1 DEF CheckClean, Require, Advance, EndRun, Types
  <2> QED
    BY <1>3, <2>1, <2>2, Asks DEF CheckClean, Require, Failure
<1>4. CASE ListOutput(q)
  <2>1. pos[q] = 14
    BY <1>s, <1>4, Standing DEF ListOutput
  <2>2. Advance(q) \/ \E how \in Failure : EndRun(q, how)
    BY <1>4 DEF ListOutput, Require, Failure
  <2> QED
    BY <1>4, <2>1, <2>2, Asks DEF ListOutput
<1>5. CASE CompareManifest(q)
  <2>1. pos[q] = 18
    BY <1>s, <1>5, Standing DEF CompareManifest
  <2>2. Advance(q) => observed[q] = ManifestOf(commit[q], digests[q])
    BY <1>5, <1>s, <2>1 DEF CompareManifest, Require, Advance, EndRun, Types
  <2> QED
    BY <1>5, <2>1, <2>2, Asks DEF CompareManifest, Require, Failure
<1>6. CASE Kill(q)
  <2>1. ~Advance(q)
    <3>1. pos'[q] = 0
      BY <1>6, <1>s DEF Kill, EndRun, Types
    <3>2. Advance(q) => pos'[q] = pos[q] + 1
      BY <1>s DEF Advance, Types
    <3>3. pos[q] \in 0..22
      BY <1>s DEF Types
    <3>4. pos[q] + 1 # 0
      BY <3>3
    <3> QED
      BY <3>1, <3>2, <3>4
  <2> QED
    BY <1>6, <2>1, Asks DEF Kill, Failure
<1> QED
  BY <1>1, <1>2, <1>3, <1>4, <1>5, <1>6

-----------------------------------------------------------------------------
(* The inventory and the derivations.                                      *)

\* A builder that starts a pass over the files has read none yet.
LEMMA InventoryKeeps ==
  ASSUME IInv, NEW q \in Builders, CheckInventory(q)
  PROVE  IInv'
<1>1. Types /\ BuilderInv(q) /\ pos[q] \in {2, 5, 16}
  BY Standing DEF IInv, CheckInventory
<1>2. /\ digests' = [digests EXCEPT ![q] = <<>>]
      /\ UNCHANGED <<worktree, outdir, commit, output, reading, built, observed, strays,
                     stale, bounds>>
      /\ Advance(q) \/ EndRun(q, "BLOCK")
  BY DEF CheckInventory, Require
<1>3. Len(Inventory) \in Nat
  BY ReleaseAssumption
<1>4. Types'
  <2>1. digests' \in [Builders -> Seq(Digest)]
    BY <1>1, <1>2 DEF Types
  <2>2. pos' \in [Builders -> 0..22]
    <3>1. pos[q] + 1 \in 0..22 /\ 0 \in 0..22
      BY <1>1
    <3>2. CASE Advance(q)
      BY <1>1, <3>1, <3>2 DEF Types, Advance
    <3>3. CASE EndRun(q, "BLOCK")
      BY <1>1, <3>1, <3>3 DEF Types, EndRun
    <3> QED
      BY <1>2, <3>2, <3>3
  <2>3. outcome' \in [Builders -> {"none", "PASS", "BLOCK", "traceback", "killed"}]
    BY <1>1, <1>2 DEF Types, Advance, EndRun
  <2> QED
    BY <1>1, <1>2, <2>1, <2>2, <2>3 DEF Types, worktree, bounds
<1>5. ASSUME NEW b \in Builders, b # q PROVE BuilderInv(b)'
  BY <1>1, <1>2, <1>5, Elsewhere DEF Types, Advance, EndRun, worktree
<1>6. digests'[q] = <<>>
  BY <1>1, <1>2 DEF Types
<1>7. BuilderInv(q)'
  <2>1. CASE EndRun(q, "BLOCK")
    <3>1. pos'[q] = 0 /\ outcome'[q] # "PASS"
      BY <1>1, <2>1 DEF Types, EndRun
    <3> QED
      BY <1>3, <1>6, <3>1, Ended
  <2>2. CASE Advance(q)
    <3>1. pos'[q] = pos[q] + 1 /\ outcome' = outcome
      BY <1>1, <2>2 DEF Types, Advance
    <3>2. Reads(q)'
      <4>1. reading'[q] = NotReading
        BY <1>1, <1>2, SMTT(30) DEF BuilderInv, Reads
      <4>2. pos'[q] \in {3, 6, 17}
        BY <1>1, <3>1
      <4>3. Len(digests'[q]) <= Len(Inventory) /\ DOMAIN digests'[q] = {}
        BY <1>3, <1>6
      <4> QED
        BY <4>1, <4>2, <4>3, SMTT(30) DEF Reads
    <3>3. Builds(q)'
      BY <1>1, <1>2, <3>1 DEF BuilderInv, Builds
    <3>4. Leaves(q)'
      <4> SUFFICES ASSUME NEW i \in DOMAIN Inventory, Inventory[i] \notin Hidden
                   PROVE  LeavesAt(q, i)'
        BY DEF Leaves
      <4>1. LeavesAt(q, i)
        BY <1>1 DEF BuilderInv, Leaves
      <4>2. /\ Off(q, Inventory[i])' <=> Off(q, Inventory[i])
            /\ ~Misread(q, i)'
            /\ Misbuilt(q, i)' <=> Misbuilt(q, i)
            /\ head' = head /\ strays' = strays
        BY <1>2, <1>6 DEF Off, Misread, Misbuilt, worktree
      <4> QED
        BY <1>1, <3>1, <4>1, <4>2 DEF LeavesAt
    <3>5. Fresh(q)'
      BY <1>1, <1>2, <3>1 DEF BuilderInv, Fresh
    <3>6. Verdict(q)'
      BY <1>1, <3>1 DEF BuilderInv, Verdict, Passed
    <3> QED
      BY <3>2, <3>3, <3>4, <3>5, <3>6 DEF BuilderInv
  <2> QED
    BY <1>2, <2>1, <2>2
<1> QED
  BY <1>4, <1>5, <1>7 DEF IInv

\* The two stats and reads of _digest that keep what they see in `reading`.
LEMMA LooksKeep ==
  ASSUME IInv, NEW q \in Builders, StatFile(q) \/ ReadFirst(q)
  PROVE  IInv'
<1>1. Types /\ BuilderInv(q) /\ pos[q] \in {6, 17}
  BY Standing DEF IInv, StatFile, ReadFirst
<1>2. UNCHANGED <<worktree, outdir, commit, output, digests, built, observed, strays,
                  stale, bounds>>
  BY DEF StatFile, ReadFirst
<1>3. CASE EndRun(q, "traceback") /\ UNCHANGED reading
  <2>1. ~Advance(q)
    <3>1. pos'[q] = 0
      BY <1>1, <1>3 DEF EndRun, Types
    <3>2. Advance(q) => pos'[q] = pos[q] + 1
      BY <1>1 DEF Advance, Types
    <3> QED
      BY <1>1, <3>1, <3>2
  <2> QED
    BY <1>2, <1>3, <2>1, Asks DEF Failure, local
<1>4. ASSUME NEW r \in ReadingType, reading' = [reading EXCEPT ![q] = r],
             UNCHANGED <<pos, outcome>>, Len(digests[q]) < Len(Inventory),
             r.stamp <= stamp[NextFile(q)],
             r.stage = "read" /\ r.stamp = stamp[NextFile(q)] => r.first = tree[NextFile(q)]
      PROVE  IInv'
  <2>1. Types'
    BY <1>1, <1>2, <1>4 DEF Types, worktree, bounds
  <2>2. ASSUME NEW b \in Builders, b # q PROVE BuilderInv(b)'
    BY <1>1, <1>2, <1>4, <2>2, Elsewhere DEF Types, worktree
  <2>3. reading'[q] = r /\ NextFile(q)' = NextFile(q) /\ tree' = tree /\ stamp' = stamp
        /\ pos' = pos /\ digests' = digests
    BY <1>1, <1>2, <1>4 DEF Types, NextFile, worktree
  <2>4. Reads(q)'
    BY <1>1, <1>4, <2>3 DEF BuilderInv, Reads
  <2>5. Builds(q)' /\ Fresh(q)' /\ Verdict(q)'
    BY <1>1, <1>2, <1>4 DEF BuilderInv, Builds, Fresh, Verdict, Passed
  <2>6. Leaves(q)'
    BY <1>1, <1>2, <1>4 DEF BuilderInv, Leaves, LeavesAt, Off, Misread, Misbuilt, worktree
  <2> QED
    BY <2>1, <2>2, <2>4, <2>5, <2>6 DEF IInv, BuilderInv
<1>5. Len(digests[q]) < Len(Inventory) => NextFile(q) \in Files
  <2>1. Len(digests[q]) \in Nat /\ Len(Inventory) \in Nat /\ DOMAIN Inventory = 1..Len(Inventory)
    BY <1>1, ReleaseAssumption DEF Types
  <2>2. Len(digests[q]) < Len(Inventory) => Len(digests[q]) + 1 \in DOMAIN Inventory
    BY <2>1
  <2> QED
    BY <2>2 DEF NextFile, Files, Listed
<1>6. CASE StatFile(q)
  <2> DEFINE r == [stage |-> "stat", stamp |-> stamp[NextFile(q)]]
  <2>1. CASE tree[NextFile(q)] = Absent
    BY <1>3, <1>6, <2>1 DEF StatFile
  <2>2. CASE tree[NextFile(q)] # Absent
    <3>1. /\ reading' = [reading EXCEPT ![q] = r] /\ UNCHANGED <<pos, outcome>>
          /\ Len(digests[q]) < Len(Inventory)
      BY <1>6, <2>2 DEF StatFile
    <3>2. stamp[NextFile(q)] \in Nat
      BY <1>1, <1>5, <3>1 DEF Types
    <3>3. r \in ReadingType /\ r.stage = "stat" /\ r.stamp = stamp[NextFile(q)]
      BY <3>2 DEF ReadingType
    <3> HIDE DEF r
    <3>4. r.stamp <= stamp[NextFile(q)]
      BY <3>2, <3>3
    <3> QED
      BY <1>4, <3>1, <3>3, <3>4
  <2> QED
    BY <2>1, <2>2
<1>7. CASE ReadFirst(q)
  <2> DEFINE r == [stage |-> "read", stamp |-> reading[q].stamp, first |-> tree[NextFile(q)]]
  <2>0. reading[q] # NotReading /\ reading[q].stage = "stat"
    BY <1>7 DEF ReadFirst, NotReading
  <2>1. CASE tree[NextFile(q)] = Absent
    BY <1>3, <1>7, <2>1 DEF ReadFirst
  <2>2. CASE tree[NextFile(q)] # Absent
    <3>1. reading' = [reading EXCEPT ![q] = r] /\ UNCHANGED <<pos, outcome>>
      BY <1>1, <1>7, <2>2 DEF ReadFirst, Types
    <3>2. Len(digests[q]) < Len(Inventory) /\ reading[q].stamp <= stamp[NextFile(q)]
      BY <1>1, <2>0 DEF BuilderInv, Reads
    <3>3. reading[q].stamp \in Nat
      BY <1>1, <2>0 DEF Types, ReadingType
    <3>4. tree[NextFile(q)] \in Content
      BY <1>1, <1>5, <3>2 DEF Types
    <3>5. r \in ReadingType /\ r.stamp = reading[q].stamp /\ r.first = tree[NextFile(q)]
      BY <3>3, <3>4 DEF ReadingType
    <3> HIDE DEF r
    <3> QED
      BY <1>4, <3>1, <3>2, <3>5
  <2> QED
    BY <2>1, <2>2
<1> QED
  BY <1>6, <1>7

\* The last read of a file.  While its stamp is the one that was taken, the bytes are
\* those read first, so the digest is of one state of the file, and the file is off the
\* commit if the digest is.
LEMMA FinishKeeps ==
  ASSUME IInv, NEW q \in Builders, FinishRead(q)
  PROVE  IInv'
<1> DEFINE f == NextFile(q)
<1> DEFINE now == tree[f]
<1> DEFINE n == Len(digests[q])
<1>1. Types /\ BuilderInv(q) /\ pos[q] \in {6, 17}
  BY Standing DEF IInv, FinishRead
<1>2. /\ reading' = [reading EXCEPT ![q] = NotReading]
      /\ UNCHANGED <<worktree, outdir, commit, output, built, observed, strays, stale, bounds>>
      /\ reading[q].stage = "read" /\ reading[q] # NotReading
  BY DEF FinishRead, NotReading
<1>3. n < Len(Inventory) /\ n \in Nat /\ n + 1 \in DOMAIN Inventory /\ f \in Files
  <2>1. n < Len(Inventory)
    BY <1>1, <1>2 DEF BuilderInv, Reads
  <2>2. n \in Nat /\ Len(Inventory) \in Nat /\ DOMAIN Inventory = 1..Len(Inventory)
    BY <1>1, ReleaseAssumption DEF Types
  <2>3. n + 1 \in DOMAIN Inventory
    BY <2>1, <2>2
  <2> QED
    BY <2>1, <2>2, <2>3 DEF NextFile, Files, Listed
<1>4. reading' \in [Builders -> ReadingType] /\ reading'[q] = NotReading
  BY <1>1, <1>2 DEF Types, ReadingType
<1>5. CASE now # Absent /\ SameFile(q)
  <2>1. reading[q].first = now
    BY <1>1, <1>2, <1>5 DEF BuilderInv, Reads, SameFile
  <2>2. /\ digests' = [digests EXCEPT ![q] = Append(@, now)] /\ UNCHANGED <<pos, outcome>>
    BY <1>5, <2>1 DEF FinishRead
  <2>3. now \in Digest /\ now # Mixed
    BY <1>1, <1>3, <1>5, ReleaseAssumption DEF Types, Content, Digest
  <2>4. digests[q] \in Seq(Digest) /\ digests'[q] = Append(digests[q], now)
    BY <1>1, <2>2 DEF Types
  <2> HIDE DEF now, f
  <2>5. /\ digests'[q] \in Seq(Digest) /\ Len(digests'[q]) = n + 1
        /\ DOMAIN digests'[q] = 1..n + 1 /\ DOMAIN digests[q] = 1..n
        /\ digests'[q][n + 1] = now
        /\ \A i \in 1..n : digests'[q][i] = digests[q][i]
    BY <2>3, <2>4
  <2>6. Types'
    <3>1. digests' \in [Builders -> Seq(Digest)]
      BY <1>1, <2>2, <2>5 DEF Types
    <3> QED
      BY <1>1, <1>2, <1>4, <2>2, <3>1 DEF Types, worktree, bounds
  <2>7. ASSUME NEW b \in Builders, b # q PROVE BuilderInv(b)'
    BY <1>1, <1>2, <2>2, <2>7, Elsewhere DEF Types, worktree
  <2>8. Reads(q)'
    <3>1. ASSUME NEW i \in DOMAIN digests'[q] PROVE digests'[q][i] # Mixed
      <4>1. CASE i = n + 1
        BY <2>3, <2>5, <4>1
      <4>2. CASE i # n + 1
        <5>1. i \in DOMAIN digests[q] /\ digests'[q][i] = digests[q][i]
          BY <1>3, <2>5, <4>2
        <5> QED
          BY <1>1, <5>1 DEF BuilderInv, Reads
      <4> QED
        BY <4>1, <4>2
    <3>2. Len(digests'[q]) <= Len(Inventory)
      BY <1>3, <2>5, ReleaseAssumption
    <3>3. pos'[q] \notin 7..15 \cup 18..22
      BY <1>1, <2>2
    <3> QED
      BY <1>4, <3>1, <3>2, <3>3 DEF Reads
  <2>9. Builds(q)' /\ Fresh(q)' /\ Verdict(q)'
    <3>1. pos'[q] \in {6, 17} /\ outcome'[q] = "none"
      BY <1>1, <2>2 DEF BuilderInv, Verdict
    <3> QED
      BY <1>1, <1>2, <2>2, <3>1 DEF BuilderInv, Builds, Fresh, Verdict, Passed
  <2>10. Leaves(q)'
    <3> SUFFICES ASSUME NEW i \in DOMAIN Inventory, Inventory[i] \notin Hidden
                 PROVE  LeavesAt(q, i)'
      BY DEF Leaves
    <3>1. LeavesAt(q, i)
      BY <1>1 DEF BuilderInv, Leaves
    <3>2. /\ Off(q, Inventory[i])' <=> Off(q, Inventory[i])
          /\ Misbuilt(q, i)' <=> Misbuilt(q, i)
          /\ head' = head /\ strays' = strays /\ pos' = pos
      BY <1>2, <2>2 DEF Off, Misbuilt, worktree
    <3>3. Misread(q, i)' => Misread(q, i) \/ Off(q, Inventory[i])
      <4>1. CASE i = n + 1
        <5>1. Inventory[i] = f
          BY <4>1 DEF f, NextFile
        <5> QED
          BY <1>2, <2>5, <4>1, <5>1 DEF Misread, Off, now
      <4>2. CASE i # n + 1
        <5>1. i \in DOMAIN digests'[q] => i \in DOMAIN digests[q] /\ digests'[q][i] = digests[q][i]
          BY <1>3, <2>5, <4>2
        <5> QED
          BY <1>2, <5>1 DEF Misread
      <4> QED
        BY <4>1, <4>2
    <3> QED
      BY <1>1, <3>1, <3>2, <3>3 DEF LeavesAt
  <2> QED
    BY <2>6, <2>7, <2>8, <2>9, <2>10 DEF IInv, BuilderInv
<1>6. CASE ~(now # Absent /\ SameFile(q))
  <2>1. PICK how \in {"BLOCK", "traceback"} : EndRun(q, how) /\ digests' = digests
    BY <1>6 DEF FinishRead
  <2>2. /\ pos'[q] = 0 /\ outcome'[q] # "PASS"
        /\ pos' = [pos EXCEPT ![q] = 0] /\ outcome' = [outcome EXCEPT ![q] = how]
    BY <1>1, <2>1 DEF Types, EndRun
  <2>3. Types'
    <3>1. 0 \in 0..22
      OBVIOUS
    <3>2. pos' \in [Builders -> 0..22]
      BY <1>1, <2>2, <3>1 DEF Types
    <3> QED
      BY <1>1, <1>2, <1>4, <2>1, <2>2, <3>2 DEF Types, worktree, bounds
  <2>4. ASSUME NEW b \in Builders, b # q PROVE BuilderInv(b)'
    BY <1>1, <1>2, <2>1, <2>2, <2>4, Elsewhere DEF Types, worktree
  <2>5. BuilderInv(q)'
    BY <1>1, <2>1, <2>2, Ended DEF BuilderInv, Reads
  <2> QED
    BY <2>3, <2>4, <2>5 DEF IInv
<1> QED
  BY <1>5, <1>6

\* The end of a derivation: of the first one the digests become the manifest's.
LEMMA DerivedKeeps ==
  ASSUME IInv, NEW q \in Builders, Derived(q)
  PROVE  IInv'
<1>1. Types /\ BuilderInv(q) /\ pos[q] \in {6, 17}
  BY Standing DEF IInv, Derived
<1>2. /\ pos' = [pos EXCEPT ![q] = @ + 1] /\ outcome' = outcome
      /\ Len(digests[q]) = Len(Inventory)
      /\ UNCHANGED <<worktree, outdir, commit, output, digests, reading, observed, strays,
                     stale, bounds>>
  BY DEF Derived, Advance
<1>3. ManifestOf(commit[q], digests[q]) \in Manifest
  BY <1>1 DEF Types, ManifestOf, Manifest
<1>4. built' = IF pos[q] = 6 THEN [built EXCEPT ![q] = ManifestOf(commit[q], digests[q])] ELSE built
  BY <1>1, AbsenceAssumption DEF Derived, BuilderInv, Builds
<1>5. Types'
  <2>1. pos[q] + 1 \in 0..22
    BY <1>1
  <2>2. pos' \in [Builders -> 0..22]
    BY <1>1, <1>2, <2>1 DEF Types
  <2>3. built' \in [Builders -> {Absent} \cup Manifest]
    BY <1>1, <1>3, <1>4 DEF Types
  <2> QED
    BY <1>1, <1>2, <2>2, <2>3 DEF Types, worktree, bounds
<1>6. ASSUME NEW b \in Builders, b # q PROVE BuilderInv(b)'
  BY <1>1, <1>2, <1>4, <1>6, Elsewhere DEF Types, worktree
<1>7. reading[q] = NotReading
  <2>1. Len(Inventory) \in Nat
    BY ReleaseAssumption
  <2> QED
    BY <1>1, <1>2, <2>1 DEF BuilderInv, Reads
<1>8. pos'[q] = pos[q] + 1 /\ pos'[q] \in {7, 18}
  BY <1>1, <1>2 DEF Types
<1>9. Reads(q)'
  BY <1>1, <1>2, <1>7, <1>8 DEF BuilderInv, Reads
<1>10. Builds(q)'
  <2>1. built'[q] \in Manifest
    BY <1>1, <1>3, <1>4 DEF BuilderInv, Builds, Types
  <2> QED
    BY <1>8, <2>1 DEF Builds
<1>11. Leaves(q)'
  <2> SUFFICES ASSUME NEW i \in DOMAIN Inventory, Inventory[i] \notin Hidden
               PROVE  LeavesAt(q, i)'
    BY DEF Leaves
  <2>1. LeavesAt(q, i)
    BY <1>1 DEF BuilderInv, Leaves
  <2>2. /\ Off(q, Inventory[i])' <=> Off(q, Inventory[i])
        /\ Misread(q, i)' <=> Misread(q, i)
        /\ head' = head /\ strays' = strays
    BY <1>2 DEF Off, Misread, worktree
  <2>3. pos[q] = 6 => (Misbuilt(q, i)' <=> Misread(q, i))
    BY <1>1, <1>2, <1>4 DEF Misbuilt, Misread, ManifestOf, Types
  <2>4. pos[q] = 17 => (Misbuilt(q, i)' <=> Misbuilt(q, i))
    BY <1>2, <1>4 DEF Misbuilt
  <2> QED
    BY <1>1, <1>8, <2>1, <2>2, <2>3, <2>4 DEF LeavesAt
<1>12. Fresh(q)'
  BY <1>1, <1>2, <1>8 DEF BuilderInv, Fresh
<1>13. Verdict(q)'
  BY <1>1, <1>2, <1>8 DEF BuilderInv, Verdict, Passed
<1> QED
  BY <1>5, <1>6, <1>9, <1>10, <1>11, <1>12, <1>13 DEF IInv, BuilderInv

-----------------------------------------------------------------------------
(* The output directory.                                                   *)

\* A step that ends the run of q or takes it on, and marks as stale, for the others,
\* what it changes in its output.
LEMMA OthersKeep ==
  ASSUME IInv, NEW q \in Builders, NEW p \in 0..22, NEW how,
         pos' = [pos EXCEPT ![q] = p], outcome' = [outcome EXCEPT ![q] = how],
         UNCHANGED <<worktree, commit, output, digests, reading, built, strays>>,
         \A b \in Builders : b # q =>
           /\ observed'[b] = observed[b]
           /\ pos[b] # 0 =>
                /\ stale[b] \subseteq stale'[b]
                /\ \/ outdir'[output[b]].manifest = outdir[output[b]].manifest
                   \/ "manifest" \in stale'[b]
                /\ \/ outdir'[output[b]].sums = outdir[output[b]].sums
                   \/ "sums" \in stale'[b]
  PROVE  \A b \in Builders : b # q => BuilderInv(b)'
<1> SUFFICES ASSUME NEW b \in Builders, b # q PROVE BuilderInv(b)'
  OBVIOUS
<1>1. /\ pos'[b] = pos[b] /\ outcome'[b] = outcome[b] /\ commit'[b] = commit[b]
      /\ output'[b] = output[b] /\ digests'[b] = digests[b] /\ reading'[b] = reading[b]
      /\ built'[b] = built[b] /\ observed'[b] = observed[b] /\ strays'[b] = strays[b]
  BY DEF IInv, Types
<1> QED
  BY <1>1, Elsewhere

LEMMA MakeDirectoryKeeps ==
  ASSUME IInv, NEW q \in Builders, MakeDirectory(q)
  PROVE  IInv'
<1> DEFINE o == output[q]
<1>1. Types /\ BuilderInv(q) /\ pos[q] = 9 /\ o \in Outputs
  BY Standing DEF IInv, MakeDirectory, Types
<1>2. UNCHANGED <<worktree, local, strays, stale, bounds>>
  BY DEF MakeDirectory
<1>3. CASE outdir[o].exists
  <2>1. EndRun(q, "traceback") /\ UNCHANGED outdir
    BY <1>3 DEF MakeDirectory
  <2>2. ~Advance(q)
    <3>1. pos'[q] = 0
      BY <1>1, <2>1 DEF EndRun, Types
    <3>2. Advance(q) => pos'[q] = pos[q] + 1
      BY <1>1 DEF Advance, Types
    <3> QED
      BY <1>1, <3>1, <3>2
  <2> QED
    BY <1>2, <2>1, <2>2, Asks DEF Failure
<1>4. CASE ~outdir[o].exists
  <2> DEFINE new == [NoOutput EXCEPT !.exists = TRUE]
  <2>1. /\ outdir' = [outdir EXCEPT ![o] = new]
        /\ pos' = [pos EXCEPT ![q] = @ + 1] /\ outcome' = outcome
    BY <1>4 DEF MakeDirectory, Advance
  <2>2. outdir[o] = NoOutput
    BY <1>1, <1>4 DEF Types
  <2>3. /\ new \in OutputType /\ new.exists = TRUE
        /\ new.manifest = NoOutput.manifest /\ new.sums = NoOutput.sums
    BY DEF NoOutput, OutputType, OutputFile
  <2> HIDE DEF new
  <2>4. outdir' \in [Outputs -> OutputType] /\ outdir'[o] = new
        /\ \A k \in Outputs : k # o => outdir'[k] = outdir[k]
    BY <1>1, <2>1, <2>3 DEF Types
  <2>5. pos' = [pos EXCEPT ![q] = 10]
    BY <1>1, <2>1
  <2>6. Types'
    <3>1. pos' \in [Builders -> 0..22]
      <4>1. 10 \in 0..22
        OBVIOUS
      <4> QED
        BY <1>1, <2>5, <4>1 DEF Types
    <3>2. \A k \in Outputs : ~outdir'[k].exists => outdir'[k] = NoOutput
      BY <1>1, <2>3, <2>4 DEF Types
    <3> QED
      BY <1>1, <1>2, <2>1, <2>4, <3>1, <3>2 DEF Types, worktree, local, bounds
  <2>7. \A b \in Builders : b # q => BuilderInv(b)'
    <3>1. \A k \in Outputs : outdir'[k].manifest = outdir[k].manifest
                             /\ outdir'[k].sums = outdir[k].sums
      BY <2>2, <2>3, <2>4
    <3>2. \A b \in Builders : output[b] \in Outputs
      BY <1>1 DEF Types
    <3>3. 10 \in 0..22 /\ outcome' = [outcome EXCEPT ![q] = outcome[q]]
      BY <1>1, <2>1 DEF Types
    <3> QED
      BY <1>2, <2>1, <2>5, <3>1, <3>2, <3>3, OthersKeep DEF local
  <2>8. BuilderInv(q)'
    <3>1. pos'[q] = 10
      BY <1>1, <2>5 DEF Types
    <3>2. Fresh(q)'
      BY <3>1 DEF Fresh
    <3> QED
      BY <1>1, <1>2, <2>1, <3>1, <3>2, Moves DEF local
  <2> QED
    BY <2>6, <2>7, <2>8 DEF IInv
<1> QED
  BY <1>3, <1>4

LEMMA WriteKeeps ==
  ASSUME IInv, NEW q \in Builders, WriteManifest(q) \/ WriteSums(q)
  PROVE  IInv'
<1> DEFINE o == output[q]
<1>1. Types /\ BuilderInv(q) /\ pos[q] \in {10, 11} /\ o \in Outputs
  BY Standing DEF IInv, WriteManifest, WriteSums, Types
<1>2. UNCHANGED <<worktree, local, strays, bounds>>
  BY DEF WriteManifest, WriteSums
<1>3. built[q] \in Manifest /\ built[q].files \in Sums
  BY <1>1 DEF BuilderInv, Builds, Manifest, Sums
<1>4. ASSUME NEW p \in {0, pos[q] + 1}, NEW how \in {"traceback", outcome[q]},
             pos' = [pos EXCEPT ![q] = p], outcome' = [outcome EXCEPT ![q] = how],
             p = 0 => how = "traceback", p # 0 => how = outcome[q],
             NEW out \in OutputType, outdir' = [outdir EXCEPT ![o] = out],
             ~out.exists => out = NoOutput,
             NEW names \in SUBSET Names,
             out.manifest = outdir[o].manifest \/ "manifest" \in names,
             out.sums = outdir[o].sums \/ "sums" \in names,
             Touch(o, names, q)
      PROVE  IInv'
  <2>1. p \in 0..22
    BY <1>1, <1>4
  <2>2. Types'
    <3>1. pos' \in [Builders -> 0..22]
      BY <1>1, <1>4, <2>1 DEF Types
    <3>2. outcome' \in [Builders -> {"none", "PASS", "BLOCK", "traceback", "killed"}]
      BY <1>1, <1>4 DEF Types
    <3>3. outdir' \in [Outputs -> OutputType]
          /\ \A k \in Outputs : ~outdir'[k].exists => outdir'[k] = NoOutput
      BY <1>1, <1>4 DEF Types
    <3>4. stale' \in [Builders -> SUBSET Names]
      BY <1>1, <1>4 DEF Types, Touch
    <3> QED
      BY <1>1, <1>2, <3>1, <3>2, <3>3, <3>4 DEF Types, worktree, local, bounds
  <2>3. \A b \in Builders : b # q => BuilderInv(b)'
    <3>1. ASSUME NEW b \in Builders, b # q, pos[b] # 0
          PROVE  /\ stale[b] \subseteq stale'[b]
                 /\ \/ outdir'[output[b]].manifest = outdir[output[b]].manifest
                    \/ "manifest" \in stale'[b]
                 /\ \/ outdir'[output[b]].sums = outdir[output[b]].sums
                    \/ "sums" \in stale'[b]
      <4>1. CASE output[b] = o
        <5>1. stale'[b] = stale[b] \cup names /\ outdir'[o] = out
          BY <1>1, <1>4, <3>1, <4>1 DEF Touch, Types
        <5> QED
          BY <1>4, <4>1, <5>1
      <4>2. CASE output[b] # o
        <5>1. stale'[b] = stale[b] /\ outdir'[output[b]] = outdir[output[b]]
          BY <1>1, <1>4, <3>1, <4>2 DEF Touch, Types
        <5> QED
          BY <5>1
      <4> QED
        BY <4>1, <4>2
    <3> QED
      BY <1>2, <1>4, <2>1, <3>1, OthersKeep DEF local
  <2>4. BuilderInv(q)'
    <3>1. pos'[q] = p /\ outcome'[q] = how
      BY <1>1, <1>4 DEF Types
    <3>2. CASE p = 0
      BY <1>1, <1>2, <1>4, <3>1, <3>2, Ended DEF BuilderInv, Reads, local
    <3>3. CASE p # 0
      <4>1. p = pos[q] + 1 /\ pos'[q] \in {11, 12}
        BY <1>1, <1>4, <3>1, <3>3
      <4>2. Fresh(q)'
        BY <4>1 DEF Fresh
      <4> QED
        BY <1>1, <1>2, <1>4, <3>1, <3>3, <4>1, <4>2, Moves DEF local
    <3> QED
      BY <3>2, <3>3
  <2> QED
    BY <2>2, <2>3, <2>4 DEF IInv
<1>5. outdir[o] \in OutputType /\ outcome = [outcome EXCEPT ![q] = outcome[q]]
  BY <1>1 DEF Types
<1>6. CASE EndRun(q, "traceback") /\ UNCHANGED <<outdir, stale>>
  <2>1. ~Advance(q)
    <3>1. pos'[q] = 0
      BY <1>1, <1>6 DEF EndRun, Types
    <3>2. Advance(q) => pos'[q] = pos[q] + 1
      BY <1>1 DEF Advance, Types
    <3> QED
      BY <1>1, <3>1, <3>2
  <2> QED
    BY <1>2, <1>6, <2>1, Asks DEF Failure
<1>7. ASSUME NEW out \in OutputType, outdir' = [outdir EXCEPT ![o] = out], out.exists = TRUE,
             NEW name \in Names, Touch(o, {name}, q),
             name # "manifest" => out.manifest = outdir[o].manifest,
             name # "sums" => out.sums = outdir[o].sums,
             Advance(q) \/ EndRun(q, "traceback")
      PROVE  IInv'
  <2>1. /\ {name} \in SUBSET Names
        /\ out.manifest = outdir[o].manifest \/ "manifest" \in {name}
        /\ out.sums = outdir[o].sums \/ "sums" \in {name}
    BY <1>7
  <2>2. CASE Advance(q)
    <3>1. pos[q] + 1 # 0 /\ pos' = [pos EXCEPT ![q] = pos[q] + 1] /\ outcome' = outcome
      BY <1>1, <2>2 DEF Advance
    <3> QED
      BY <1>4, <1>5, <1>7, <2>1, <3>1
  <2>3. CASE EndRun(q, "traceback")
    BY <1>4, <1>7, <2>1, <2>3 DEF EndRun
  <2> QED
    BY <1>7, <2>2, <2>3
<1>8. ASSUME NEW text \in OutputFile \cup Manifest, outdir[o].exists,
             outdir' = [outdir EXCEPT ![o]["manifest"] = text], Touch(o, {"manifest"}, q),
             Advance(q) \/ EndRun(q, "traceback")
      PROVE  IInv'
  <2> DEFINE out == [outdir[o] EXCEPT !.manifest = text]
  <2>1. /\ out \in OutputType /\ out.exists = TRUE /\ out.sums = outdir[o].sums
    BY <1>5, <1>8 DEF OutputType
  <2>2. outdir' = [outdir EXCEPT ![o] = out]
    BY <1>1, <1>8 DEF Types
  <2> HIDE DEF out
  <2> QED
    BY <1>7, <1>8, <2>1, <2>2 DEF Names
<1>9. ASSUME NEW text \in OutputFile \cup Sums, outdir[o].exists,
             outdir' = [outdir EXCEPT ![o]["sums"] = text], Touch(o, {"sums"}, q),
             Advance(q) \/ EndRun(q, "traceback")
      PROVE  IInv'
  <2> DEFINE out == [outdir[o] EXCEPT !.sums = text]
  <2>1. /\ out \in OutputType /\ out.exists = TRUE /\ out.manifest = outdir[o].manifest
    BY <1>5, <1>9 DEF OutputType
  <2>2. outdir' = [outdir EXCEPT ![o] = out]
    BY <1>1, <1>9 DEF Types
  <2> HIDE DEF out
  <2> QED
    BY <1>7, <1>9, <2>1, <2>2 DEF Names
<1>10. CASE WriteManifest(q)
  <2>1. WriteNew(q, "manifest", built[q])
    BY <1>10 DEF WriteManifest
  <2> QED
    BY <1>3, <1>6, <1>8, <2>1 DEF WriteNew, OutputFile
<1>11. CASE WriteSums(q)
  <2>1. WriteNew(q, "sums", built[q].files)
    BY <1>11 DEF WriteSums
  <2> QED
    BY <1>3, <1>6, <1>9, <2>1 DEF WriteNew, OutputFile
<1> QED
  BY <1>10, <1>11

\* Reading a file of the output back makes it fresh for the builder that reads.
LEMMA ReadsKeep ==
  ASSUME IInv, NEW q \in Builders, ReadBack(q) \/ ReadSums(q)
  PROVE  IInv'
<1> DEFINE o == output[q]
<1>1. Types /\ BuilderInv(q) /\ o \in Outputs /\ outdir[o] \in OutputType
  BY DEF IInv, Types
<1>2. UNCHANGED <<worktree, outdir, commit, output, digests, reading, built, strays, bounds>>
  BY DEF ReadBack, ReadSums, local
<1>p. \/ ReadBack(q) /\ pos[q] = 15
      \/ ReadSums(q) /\ pos[q] = 19
  BY <1>1, Standing DEF ReadBack, ReadSums
<1>3. PICK p \in {0, pos[q] + 1}, how \in {"traceback", "BLOCK", outcome[q]} :
        /\ pos' = [pos EXCEPT ![q] = p] /\ outcome' = [outcome EXCEPT ![q] = how]
        /\ p = 0 => how # "PASS"
        /\ p # 0 => how = outcome[q]
  <2>1. Advance(q) \/ EndRun(q, "traceback") \/ EndRun(q, "BLOCK")
    BY DEF ReadBack, ReadSums, Require
  <2>2. pos[q] + 1 # 0 /\ outcome = [outcome EXCEPT ![q] = outcome[q]]
    BY <1>1, <1>p DEF Types
  <2>3. CASE Advance(q)
    BY <2>2, <2>3 DEF Advance
  <2>4. CASE EndRun(q, "traceback")
    BY <2>4 DEF EndRun
  <2>5. CASE EndRun(q, "BLOCK")
    BY <2>5 DEF EndRun
  <2> QED
    BY <2>1, <2>3, <2>4, <2>5
<1>4. /\ p \in 0..22 /\ pos'[q] = p /\ outcome'[q] = how
  BY <1>1, <1>3, <1>p DEF Types
<1>5. PICK seen \in OutputFile \cup Manifest, name \in Names :
        /\ observed' = [observed EXCEPT ![q] = seen]
        /\ stale' = [stale EXCEPT ![q] = @ \ {name}]
        /\ p # 0 => \/ pos[q] = 15 /\ name = "manifest" /\ seen = outdir[o].manifest
                    \/ pos[q] = 19 /\ name = "sums" /\ seen = observed[q]
                         /\ outdir[o].sums = digests[q]
  <2>1. CASE ReadBack(q) /\ pos[q] = 15
    <3>1. outdir[o].manifest \in OutputFile \cup Manifest
      BY <1>1 DEF OutputType
    <3> QED
      BY <2>1, <3>1 DEF ReadBack, Names
  <2>2. CASE ReadSums(q) /\ pos[q] = 19
    <3>1. observed[q] \in OutputFile \cup Manifest /\ observed' = [observed EXCEPT ![q] = observed[q]]
      BY <1>1, <2>2 DEF Types, ReadSums, local
    <3>2. p # 0 => outdir[o].sums = digests[q]
      <4>1. p # 0 => ~EndRun(q, "traceback") /\ ~EndRun(q, "BLOCK")
        BY <1>1, <1>4 DEF EndRun, Types
      <4> QED
        BY <2>2, <4>1 DEF ReadSums, Require
    <3> QED
      BY <2>2, <3>1, <3>2 DEF ReadSums, Names
  <2> QED
    BY <1>p, <2>1, <2>2
<1>6. /\ observed'[q] = seen /\ stale'[q] = stale[q] \ {name}
      /\ \A b \in Builders : b # q => observed'[b] = observed[b] /\ stale'[b] = stale[b]
  BY <1>1, <1>5 DEF Types
<1>7. Types'
  <2>1. pos' \in [Builders -> 0..22]
    BY <1>1, <1>3, <1>4 DEF Types
  <2>2. outcome' \in [Builders -> {"none", "PASS", "BLOCK", "traceback", "killed"}]
    BY <1>1, <1>3 DEF Types
  <2>3. observed' \in [Builders -> OutputFile \cup Manifest]
    BY <1>1, <1>5 DEF Types
  <2>4. stale' \in [Builders -> SUBSET Names]
    BY <1>1, <1>5 DEF Types
  <2> QED
    BY <1>1, <1>2, <2>1, <2>2, <2>3, <2>4 DEF Types, worktree, bounds
<1>8. \A b \in Builders : b # q => BuilderInv(b)'
  BY <1>2, <1>3, <1>4, <1>6, OthersKeep
<1>9. BuilderInv(q)'
  <2>1. CASE p = 0
    BY <1>1, <1>2, <1>3, <1>4, <2>1, Ended DEF BuilderInv, Reads
  <2>2. CASE p # 0
    <3>1. p = pos[q] + 1 /\ outcome'[q] = outcome[q]
      BY <1>3, <1>4, <2>2
    <3>2. Fresh(q)'
      <4>1. CASE pos[q] = 15 /\ name = "manifest" /\ seen = outdir[o].manifest
        BY <1>2, <1>4, <1>6, <3>1, <4>1 DEF Fresh
      <4>2. CASE pos[q] = 19 /\ name = "sums" /\ seen = observed[q]
                   /\ outdir[o].sums = digests[q]
        BY <1>1, <1>2, <1>4, <1>6, <3>1, <4>2 DEF BuilderInv, Fresh
      <4> QED
        BY <1>5, <2>2, <4>1, <4>2
    <3>3. pos[q] = 15 \/ observed'[q] = observed[q]
      BY <1>5, <1>6, <2>2
    <3> QED
      BY <1>2, <1>4, <1>p, <3>1, <3>2, <3>3, Moves
  <2> QED
    BY <2>1, <2>2
<1> QED
  BY <1>7, <1>8, <1>9 DEF IInv

LEMMA PassKeeps ==
  ASSUME IInv, NEW q \in Builders, Pass(q)
  PROVE  IInv'
<1>1. Types /\ BuilderInv(q) /\ pos[q] = 22
  BY Standing DEF IInv, Pass
<1>2. /\ UNCHANGED <<worktree, outdir, local, strays, stale, bounds>>
      /\ pos' = [pos EXCEPT ![q] = 0] /\ outcome' = [outcome EXCEPT ![q] = "PASS"]
  BY DEF Pass, EndRun
<1>3. pos'[q] = 0 /\ 0 \in 0..22
  BY <1>1, <1>2 DEF Types
<1>4. Types'
  <2>1. pos' \in [Builders -> 0..22]
    BY <1>1, <1>2, <1>3 DEF Types
  <2> QED
    BY <1>1, <1>2, <2>1 DEF Types, worktree, local, bounds
<1>5. \A b \in Builders : b # q => BuilderInv(b)'
  BY <1>2, <1>3, OthersKeep DEF local
<1>6. Verdict(q)'
  <2>1. Len(digests[q]) = Len(Inventory) /\ observed[q] = ManifestOf(commit[q], digests[q])
    BY <1>1 DEF BuilderInv, Reads, Builds
  <2>2. ASSUME observed[q] = built[q], NEW i \in DOMAIN Inventory, Inventory[i] \notin Hidden,
               digests[q][i] # Tree[commit[q]][Inventory[i]]
        PROVE  strays[q][Inventory[i]] >= 2
    <3>1. i \in DOMAIN digests[q]
      BY <1>1, <2>1, ReleaseAssumption DEF Types
    <3>2. built[q].files = digests[q]
      BY <2>1, <2>2 DEF ManifestOf
    <3>3. Misread(q, i) /\ Misbuilt(q, i)
      BY <2>2, <3>1, <3>2 DEF Misread, Misbuilt
    <3>4. LeavesAt(q, i)
      BY <1>1, <2>2 DEF BuilderInv, Leaves
    <3> QED
      BY <1>1, <3>3, <3>4 DEF LeavesAt
  <2> QED
    BY <1>2, <1>3, <2>1, <2>2 DEF Verdict, Passed, local
<1>7. Reads(q)' /\ Builds(q)' /\ Leaves(q)' /\ Fresh(q)'
  <2>1. Reads(q)'
    BY <1>1, <1>2, <1>3 DEF BuilderInv, Reads, local
  <2> QED
    BY <1>3, <2>1 DEF Builds, Leaves, LeavesAt, Fresh
<1> QED
  BY <1>4, <1>5, <1>6, <1>7 DEF IInv, BuilderInv

LEMMA BeginKeeps ==
  ASSUME IInv, NEW q \in Builders, Begin(q)
  PROVE  IInv'
<1>1. Types /\ BuilderInv(q) /\ pos[q] = 0
  BY DEF IInv, Begin
<1>2. PICK c \in Commits, o \in Outputs :
        commit' = [commit EXCEPT ![q] = c] /\ output' = [output EXCEPT ![q] = o]
  BY DEF Begin
<1>3. /\ pos' = [pos EXCEPT ![q] = 1] /\ outcome' = [outcome EXCEPT ![q] = "none"]
      /\ built' = [built EXCEPT ![q] = Absent] /\ observed' = [observed EXCEPT ![q] = Absent]
      /\ digests' = [digests EXCEPT ![q] = <<>>]
      /\ reading' = [reading EXCEPT ![q] = NotReading]
      /\ strays' = [strays EXCEPT ![q] = [f \in Files |-> 0]]
      /\ stale' = [stale EXCEPT ![q] = {}]
      /\ UNCHANGED <<worktree, outdir, edits, tampers>>
      /\ runs < MaxRuns /\ runs' = runs + 1
  BY DEF Begin
<1>4. Types'
  <2>1. 1 \in 0..22 /\ runs' \in 0..MaxRuns
    BY <1>1, <1>3, ReleaseAssumption DEF Types
  <2>2. pos' \in [Builders -> 0..22]
    BY <1>1, <1>3, <2>1 DEF Types
  <2>3. strays' \in [Builders -> [Files -> Nat]]
    BY <1>1, <1>3 DEF Types
  <2>4. digests' \in [Builders -> Seq(Digest)] /\ reading' \in [Builders -> ReadingType]
    BY <1>1, <1>3 DEF Types, ReadingType
  <2>5. /\ observed' \in [Builders -> OutputFile \cup Manifest]
        /\ built' \in [Builders -> {Absent} \cup Manifest]
        /\ stale' \in [Builders -> SUBSET Names]
    BY <1>1, <1>3 DEF Types, OutputFile
  <2>6. commit' \in [Builders -> Commits] /\ output' \in [Builders -> Outputs]
    BY <1>1, <1>2 DEF Types
  <2>7. outcome' \in [Builders -> {"none", "PASS", "BLOCK", "traceback", "killed"}]
    BY <1>1, <1>3 DEF Types
  <2> QED
    BY <1>1, <1>3, <2>1, <2>2, <2>3, <2>4, <2>5, <2>6, <2>7 DEF Types, worktree
<1>5. ASSUME NEW b \in Builders, b # q PROVE BuilderInv(b)'
  BY <1>1, <1>2, <1>3, <1>5, Elsewhere DEF Types
<1>6. BuilderInv(q)'
  <2>1. /\ pos'[q] = 1 /\ outcome'[q] = "none" /\ built'[q] = Absent /\ digests'[q] = <<>>
        /\ reading'[q] = NotReading
    BY <1>1, <1>3 DEF Types
  <2>2. Len(digests'[q]) <= Len(Inventory) /\ DOMAIN digests'[q] = {}
    BY <2>1, ReleaseAssumption
  <2>3. Reads(q)'
    BY <2>1, <2>2 DEF Reads
  <2>4. Builds(q)' /\ Fresh(q)' /\ Verdict(q)'
    BY <2>1 DEF Builds, Fresh, Verdict, Passed
  <2>5. Leaves(q)'
    BY <2>1 DEF Leaves, LeavesAt
  <2> QED
    BY <2>3, <2>4, <2>5 DEF BuilderInv
<1> QED
  BY <1>4, <1>5, <1>6 DEF IInv

-----------------------------------------------------------------------------
(* Everybody else.                                                         *)

\* A change of files.  A checkout is a change that starts from the commit at HEAD.
LEMMA ChangeKeeps ==
  ASSUME IInv, NEW new \in [Files -> Content], Change(new),
         UNCHANGED head \/ tree = Tree[head], head' \in Commits
  PROVE  IInv'
<1>1. Types
  BY DEF IInv
<1>2. /\ tree' = new /\ edits < MaxEdits /\ edits' = edits + 1
      /\ stamp' = [f \in Files |-> IF new[f] = tree[f] THEN stamp[f] ELSE stamp[f] + 1]
      /\ strays' = [b \in Builders |-> [f \in Files |->
           IF pos[b] # 0 /\ tree[f] = Tree[commit[b]][f] /\ new[f] # tree[f]
           THEN strays[b][f] + 1 ELSE strays[b][f]]]
      /\ UNCHANGED <<outdir, pos, outcome, local, stale, runs, tampers>>
  BY DEF Change, Stray
<1>3. /\ edits \in Nat /\ edits' \in 0..MaxEdits
      /\ \A f \in Files : stamp[f] \in Nat /\ stamp[f] <= edits
      /\ \A b \in Builders, f \in Files : strays[b][f] \in Nat
  BY <1>1, <1>2, ReleaseAssumption DEF Types
<1>4. Types'
  <2>1. stamp' \in [Files -> Nat]
    BY <1>2, <1>3
  <2>2. \A f \in Files : stamp'[f] <= edits'
    <3> TAKE f \in Files
    <3>1. stamp'[f] = stamp[f] \/ stamp'[f] = stamp[f] + 1
      BY <1>2
    <3> QED
      BY <1>2, <1>3, <3>1
  <2>3. strays' \in [Builders -> [Files -> Nat]]
    BY <1>2, <1>3
  <2> QED
    BY <1>1, <1>2, <1>3, <2>1, <2>2, <2>3 DEF Types, local
<1>5. ASSUME NEW b \in Builders PROVE BuilderInv(b)'
  <2>1. BuilderInv(b) /\ pos[b] \in 0..22
    BY <1>1 DEF IInv, Types
  <2>2. Reads(b)'
    <3>1. CASE ~(pos[b] \in {6, 17} /\ reading[b] # NotReading)
      BY <1>2, <2>1, <3>1 DEF BuilderInv, Reads, local
    <3>2. CASE pos[b] \in {6, 17} /\ reading[b] # NotReading
      <4> DEFINE f == NextFile(b)
      <4>1. Len(digests[b]) < Len(Inventory) /\ reading[b].stamp <= stamp[f]
        BY <2>1, <3>2 DEF BuilderInv, Reads
      <4>2. f \in Files
        <5>1. Len(digests[b]) \in Nat /\ Len(Inventory) \in Nat
              /\ DOMAIN Inventory = 1..Len(Inventory)
          BY <1>1, ReleaseAssumption DEF Types
        <5>2. Len(digests[b]) + 1 \in DOMAIN Inventory
          BY <4>1, <5>1
        <5> QED
          BY <5>2 DEF NextFile, Files, Listed
      <4>3. reading[b].stamp \in Nat
        BY <1>1, <3>2 DEF Types, ReadingType
      <4>4. f' = f /\ digests' = digests /\ reading' = reading /\ pos' = pos
        BY <1>2 DEF NextFile, local
      <4> HIDE DEF f
      <4>5. CASE new[f] = tree[f]
        <5>1. stamp'[f] = stamp[f] /\ tree'[f] = tree[f]
          BY <1>2, <4>2, <4>5
        <5> QED
          BY <2>1, <3>2, <4>1, <4>4, <5>1 DEF BuilderInv, Reads, f
      <4>6. CASE new[f] # tree[f]
        <5>1. stamp'[f] = stamp[f] + 1
          BY <1>2, <4>2, <4>6
        <5>2. reading[b].stamp <= stamp'[f] /\ reading[b].stamp # stamp'[f]
          BY <1>3, <4>1, <4>2, <4>3, <5>1
        <5> QED
          BY <2>1, <3>2, <4>1, <4>4, <5>2 DEF BuilderInv, Reads, f
      <4> QED
        BY <4>5, <4>6
    <3> QED
      BY <3>1, <3>2
  <2>3. Builds(b)' /\ Fresh(b)'
    BY <1>2, <2>1 DEF BuilderInv, Builds, Fresh, local
  <2>4. Verdict(b)'
    <3>1. pos[b] = 0 => \A f \in Files : strays'[b][f] = strays[b][f]
      BY <1>2
    <3>2. \A i \in DOMAIN Inventory : Inventory[i] \in Files
      BY DEF Files, Listed
    <3>3. Passed(b) => pos[b] = 0
      BY <2>1 DEF BuilderInv, Verdict, Passed
    <3>4. Passed(b)' <=> Passed(b)
      BY <1>2 DEF Passed
    <3>5. outcome' = outcome /\ pos' = pos /\ digests' = digests /\ observed' = observed
          /\ built' = built /\ commit' = commit
      BY <1>2 DEF local
    <3> QED
      BY <2>1, <3>1, <3>2, <3>3, <3>4, <3>5 DEF BuilderInv, Verdict
  <2>5. Leaves(b)'
    <3> SUFFICES ASSUME NEW i \in DOMAIN Inventory, Inventory[i] \notin Hidden
                 PROVE  LeavesAt(b, i)'
      BY DEF Leaves
    <3> DEFINE f == Inventory[i]
    <3>1. LeavesAt(b, i) /\ f \in Files /\ strays[b][f] \in Nat
      BY <1>3, <2>1 DEF BuilderInv, Leaves, Files, Listed
    <3>2. /\ Misread(b, i)' <=> Misread(b, i)
          /\ Misbuilt(b, i)' <=> Misbuilt(b, i)
          /\ pos' = pos /\ commit' = commit
      BY <1>2 DEF Misread, Misbuilt, local
    <3>3. strays'[b][f] \in Nat /\ strays'[b][f] >= strays[b][f]
      <4>1. strays'[b][f] \in {strays[b][f], strays[b][f] + 1}
        BY <1>2, <3>1
      <4> QED
        BY <3>1, <4>1
    <3>4. Off(b, f)' /\ ~Off(b, f) /\ pos[b] # 0 => strays'[b][f] = strays[b][f] + 1
      BY <1>2, <3>1, <3>2 DEF Off
    <3>5. Off(b, f) /\ head = commit[b] => head' = head
      BY <3>1 DEF Off
    <3>6. /\ (pos[b] = 4 /\ Off(b, f) => head = commit[b] \/ strays[b][f] >= 1)
          /\ (pos[b] >= 5 /\ Off(b, f) => strays[b][f] >= 1)
          /\ (pos[b] >= 6 /\ Misread(b, i) => strays[b][f] >= 1)
          /\ (pos[b] >= 7 /\ Misbuilt(b, i) => strays[b][f] >= 1)
          /\ (pos[b] = 8 /\ Misbuilt(b, i) /\ Off(b, f) => head = commit[b] \/ strays[b][f] >= 2)
          /\ (pos[b] >= 9 /\ Misbuilt(b, i) /\ Off(b, f) => strays[b][f] >= 2)
          /\ (pos[b] >= 17 /\ Misbuilt(b, i) /\ Misread(b, i) => strays[b][f] >= 2)
      BY <3>1 DEF LeavesAt
    <3> QED
      <4> DEFINE s == strays[b][f]
      <4> DEFINE t == strays'[b][f]
      <4>1. s \in Nat /\ t \in Nat /\ t >= s
        BY <3>1, <3>3
      <4> HIDE DEF f
      <4>2. Off(b, f)' /\ ~Off(b, f) /\ pos[b] # 0 => t = s + 1
        BY <3>4
      <4> HIDE DEF s, t
      <4>3. pos[b] = 4 /\ Off(b, f)' => head' = commit[b] \/ t >= 1
        BY <2>1, <3>5, <3>6, <4>1, <4>2 DEF s
      <4>4. pos[b] >= 5 /\ Off(b, f)' => t >= 1
        BY <2>1, <3>6, <4>1, <4>2 DEF s
      <4>5. /\ pos[b] >= 6 /\ Misread(b, i) => t >= 1
            /\ pos[b] >= 7 /\ Misbuilt(b, i) => t >= 1
            /\ pos[b] >= 17 /\ Misbuilt(b, i) /\ Misread(b, i) => t >= 2
        BY <2>1, <3>6, <4>1 DEF s
      <4>6. pos[b] = 8 /\ Misbuilt(b, i) /\ Off(b, f)' => head' = commit[b] \/ t >= 2
        BY <2>1, <3>5, <3>6, <4>1, <4>2 DEF s
      <4>7. pos[b] >= 9 /\ Misbuilt(b, i) /\ Off(b, f)' => t >= 2
        BY <2>1, <3>6, <4>1, <4>2 DEF s
      <4> QED
        BY <3>2, <4>3, <4>4, <4>5, <4>6, <4>7 DEF LeavesAt, f, t
  <2> QED
    BY <2>2, <2>3, <2>4, <2>5 DEF BuilderInv
<1> QED
  BY <1>4, <1>5 DEF IInv

LEMMA WorktreeKeeps ==
  ASSUME IInv, EditFile \/ Checkout
  PROVE  IInv'
<1>1. Types
  BY DEF IInv
<1>2. CASE EditFile
  <2>1. PICK f \in Files, c \in Content : Change([tree EXCEPT ![f] = c])
    BY <1>2 DEF EditFile
  <2>2. [tree EXCEPT ![f] = c] \in [Files -> Content] /\ UNCHANGED head /\ head' \in Commits
    BY <1>1, <1>2 DEF EditFile, Types
  <2> QED
    BY <2>1, <2>2, ChangeKeeps
<1>3. CASE Checkout
  <2>1. PICK c \in Commits \ {head} : tree = Tree[head] /\ head' = c /\ Change(Tree[c])
    BY <1>3 DEF Checkout
  <2>2. Tree[c] \in [Files -> Content]
    BY ReleaseAssumption DEF Content
  <2> QED
    BY <2>1, <2>2, ChangeKeeps
<1> QED
  BY <1>2, <1>3

LEMMA TamperKeeps ==
  ASSUME IInv, Tamper
  PROVE  IInv'
<1>1. Types
  BY DEF IInv
<1>2. ASSUME NEW o \in Outputs, NEW out \in OutputType, NEW names \in SUBSET Names,
             Meddle(o, out, names), ~out.exists => out = NoOutput,
             out.manifest = outdir[o].manifest \/ "manifest" \in names,
             out.sums = outdir[o].sums \/ "sums" \in names
      PROVE  IInv'
  <2>1. /\ outdir' = [outdir EXCEPT ![o] = out] /\ Touch(o, names, "nobody")
        /\ tampers < MaxTampers /\ tampers' = tampers + 1
        /\ UNCHANGED <<worktree, pos, outcome, local, strays, runs, edits>>
    BY <1>2 DEF Meddle
  <2>2. Types'
    <3>1. outdir' \in [Outputs -> OutputType]
          /\ \A k \in Outputs : ~outdir'[k].exists => outdir'[k] = NoOutput
      BY <1>1, <1>2, <2>1 DEF Types
    <3>2. stale' \in [Builders -> SUBSET Names]
      BY <1>1, <1>2, <2>1 DEF Types, Touch
    <3>3. tampers' \in 0..MaxTampers
      BY <1>1, <2>1, ReleaseAssumption DEF Types
    <3> QED
      BY <1>1, <2>1, <3>1, <3>2, <3>3 DEF Types, worktree, local
  <2>3. ASSUME NEW b \in Builders PROVE BuilderInv(b)'
    <3>1. CASE output[b] = o
      <4>2. outdir'[o] = out
        BY <1>1, <2>1 DEF Types
      <4>3. pos[b] # 0 => stale'[b] = stale[b] \cup names
        BY <2>1, <3>1, ReleaseAssumption DEF Touch
      <4> QED
        BY <1>2, <2>1, <3>1, <4>2, <4>3, Elsewhere DEF local
    <3>2. CASE output[b] # o
      <4>1. stale'[b] = stale[b] /\ outdir'[output[b]] = outdir[output[b]]
        BY <1>1, <2>1, <3>2 DEF Touch, Types
      <4> QED
        BY <2>1, <4>1, Elsewhere DEF local
    <3> QED
      BY <3>1, <3>2
  <2> QED
    BY <2>2, <2>3 DEF IInv
<1>3. PICK o \in Outputs :
        LET out == outdir[o]
        IN \/ Meddle(o, NoOutput, {"manifest", "sums"})
           \/ Meddle(o, [out EXCEPT !.others = TRUE], {})
           \/ /\ out.manifest \notin {Absent, Garbage}
              /\ Meddle(o, [out EXCEPT !.manifest.canonical = FALSE], {"manifest"})
           \/ \E name \in {"manifest", "sums"}, text \in {Absent, Garbage} :
                Meddle(o, [out EXCEPT ![name] = text], {name})
  BY DEF Tamper
<1>4. outdir[o] \in OutputType
  BY <1>1 DEF Types
<1>5. CASE Meddle(o, NoOutput, {"manifest", "sums"})
  <2>1. NoOutput \in OutputType
    BY DEF NoOutput, OutputType, OutputFile
  <2> QED
    BY <1>2, <1>5, <2>1 DEF Names
<1>6. CASE Meddle(o, [outdir[o] EXCEPT !.others = TRUE], {})
  <2> DEFINE out == [outdir[o] EXCEPT !.others = TRUE]
  <2>1. /\ out \in OutputType /\ out.exists = outdir[o].exists
        /\ out.manifest = outdir[o].manifest /\ out.sums = outdir[o].sums
    BY <1>4 DEF OutputType
  <2>2. outdir[o].exists
    BY <1>6 DEF Meddle
  <2> HIDE DEF out
  <2>3. Meddle(o, out, {})
    BY <1>6 DEF out
  <2> QED
    BY <1>2, <2>1, <2>2, <2>3
<1>7. CASE /\ outdir[o].manifest \notin {Absent, Garbage}
           /\ Meddle(o, [outdir[o] EXCEPT !.manifest.canonical = FALSE], {"manifest"})
  <2> DEFINE out == [outdir[o] EXCEPT !.manifest.canonical = FALSE]
  <2>1. outdir[o].manifest \in Manifest
    BY <1>4, <1>7 DEF OutputType, OutputFile
  <2>2. [outdir[o].manifest EXCEPT !.canonical = FALSE] \in Manifest
    BY <2>1 DEF Manifest
  <2>3. out = [outdir[o] EXCEPT !.manifest = [outdir[o].manifest EXCEPT !.canonical = FALSE]]
    BY <1>4 DEF OutputType
  <2>4. out \in OutputType /\ out.exists = outdir[o].exists /\ out.sums = outdir[o].sums
    <3> DEFINE spelled == [outdir[o].manifest EXCEPT !.canonical = FALSE]
    <3> HIDE DEF spelled
    <3>1. [outdir[o] EXCEPT !.manifest = spelled].exists = outdir[o].exists
          /\ [outdir[o] EXCEPT !.manifest = spelled].sums = outdir[o].sums
      BY <1>4 DEF OutputType
    <3>2. [outdir[o] EXCEPT !.manifest = spelled] \in OutputType
      BY <1>4, <2>2 DEF OutputType, spelled
    <3> QED
      BY <2>3, <3>1, <3>2 DEF spelled
  <2>5. outdir[o].exists
    BY <1>7 DEF Meddle
  <2> HIDE DEF out
  <2>6. Meddle(o, out, {"manifest"})
    BY <1>7 DEF out
  <2> QED
    BY <1>2, <2>4, <2>5, <2>6 DEF Names
<1>8. ASSUME NEW name \in {"manifest", "sums"}, NEW text \in {Absent, Garbage},
             Meddle(o, [outdir[o] EXCEPT ![name] = text], {name})
      PROVE  IInv'
  <2> DEFINE out == [outdir[o] EXCEPT ![name] = text]
  <2>1. outdir[o].exists
    BY <1>8 DEF Meddle
  <2>2. /\ out \in OutputType /\ out.exists = outdir[o].exists
        /\ name = "manifest" => out.sums = outdir[o].sums
        /\ name = "sums" => out.manifest = outdir[o].manifest
    <3>1. CASE name = "manifest"
      BY <1>4, <1>8, <3>1 DEF OutputType, OutputFile
    <3>2. CASE name = "sums"
      BY <1>4, <1>8, <3>2 DEF OutputType, OutputFile
    <3> QED
      BY <1>8, <3>1, <3>2
  <2> HIDE DEF out
  <2>3. Meddle(o, out, {name})
    BY <1>8 DEF out
  <2> QED
    BY <1>2, <1>8, <2>1, <2>2, <2>3 DEF Names
<1> QED
  BY <1>3, <1>5, <1>6, <1>7, <1>8

-----------------------------------------------------------------------------
(* The theorems.                                                           *)

LEMMA InitIInv ==
  ASSUME Init
  PROVE  IInv
<1>1. /\ head \in Commits /\ tree = Tree[head] /\ tree \in [Files -> Content]
      /\ Commits # {}
  BY ReleaseAssumption DEF Init, Content
<1>2. Types
  <2>1. NoOutput \in OutputType
    BY DEF NoOutput, OutputType, OutputFile
  <2>2. outdir \in [Outputs -> OutputType] /\ \A o \in Outputs : outdir[o] = NoOutput
    BY <2>1 DEF Init
  <2>3. 0 \in 0..22 /\ 0 \in 0..MaxRuns /\ 0 \in 0..MaxEdits /\ 0 \in 0..MaxTampers
    BY ReleaseAssumption
  <2>4. /\ stamp \in [Files -> Nat] /\ \A f \in Files : stamp[f] <= edits
        /\ strays \in [Builders -> [Files -> Nat]]
    BY DEF Init
  <2>5. commit \in [Builders -> Commits]
    BY <1>1 DEF Init
  <2>6. /\ digests \in [Builders -> Seq(Digest)] /\ reading \in [Builders -> ReadingType]
        /\ built \in [Builders -> {Absent} \cup Manifest]
        /\ observed \in [Builders -> OutputFile \cup Manifest]
        /\ stale \in [Builders -> SUBSET Names]
    BY DEF Init, ReadingType, OutputFile
  <2>7. output \in [Builders -> Outputs]
    BY ReleaseAssumption DEF Init
  <2>8. /\ pos \in [Builders -> 0..22]
        /\ outcome \in [Builders -> {"none", "PASS", "BLOCK", "traceback", "killed"}]
        /\ runs \in 0..MaxRuns /\ edits \in 0..MaxEdits /\ tampers \in 0..MaxTampers
    BY <2>3 DEF Init
  <2> QED
    BY <1>1, <2>2, <2>4, <2>5, <2>6, <2>7, <2>8 DEF Types
<1>3. ASSUME NEW b \in Builders PROVE BuilderInv(b)
  <2>1. pos[b] = 0 /\ outcome[b] = "none" /\ digests[b] = <<>>
    BY DEF Init
  <2>2. Len(digests[b]) <= Len(Inventory) /\ DOMAIN digests[b] = {}
    BY <2>1, ReleaseAssumption
  <2>3. Reads(b)
    BY <2>1, <2>2 DEF Reads
  <2> QED
    BY <2>1, <2>3 DEF BuilderInv, Builds, Leaves, LeavesAt, Fresh, Verdict, Passed
<1> QED
  BY <1>2, <1>3 DEF IInv

LEMMA NextKeeps ==
  ASSUME IInv, [Next]_vars
  PROVE  IInv'
<1>1. ASSUME NEW b \in Builders, Begin(b) PROVE IInv'
  BY <1>1, BeginKeeps
<1>2. ASSUME NEW b \in Builders, Builder(b) PROVE IInv'
  BY <1>2, AsksKeep, InventoryKeeps, LooksKeep, FinishKeeps, DerivedKeeps,
     MakeDirectoryKeeps, WriteKeeps, ReadsKeep, PassKeeps DEF Builder
<1>3. ASSUME NEW b \in Builders, Kill(b) PROVE IInv'
  BY <1>3, AsksKeep
<1>4. CASE UNCHANGED vars
  <2>1. Types'
    BY <1>4 DEF IInv, Types, vars, worktree, local, bounds
  <2>2. ASSUME NEW b \in Builders PROVE BuilderInv(b)'
    BY <1>4, Elsewhere DEF vars, worktree, local
  <2> QED
    BY <2>1, <2>2 DEF IInv
<1> QED
  BY <1>1, <1>2, <1>3, <1>4, WorktreeKeeps, TamperKeeps DEF Next

THEOREM Invariant == Spec => []IInv
BY InitIInv, NextKeeps, PTL DEF Spec

\* The types of the variables, in every reachable state.
THEOREM TypeCorrect == Spec => []TypeOK
<1>1. IInv => TypeOK
  <2> SUFFICES ASSUME IInv PROVE TypeOK
    OBVIOUS
  <2>1. Types /\ \A b \in Builders : Reads(b)
    BY DEF IInv, BuilderInv
  <2>2. stamp \in [Files -> 0..MaxEdits]
    <3>1. \A f \in Files : stamp[f] \in 0..MaxEdits
      BY <2>1, ReleaseAssumption DEF Types
    <3> QED
      BY <2>1, <3>1 DEF Types
  <2>3. ASSUME NEW o \in Outputs
        PROVE  /\ outdir[o].exists \in BOOLEAN /\ outdir[o].others \in BOOLEAN
               /\ outdir[o].manifest \in OutputFile \/ outdir[o].manifest \in Manifest
               /\ outdir[o].sums \in OutputFile \/ outdir[o].sums \in Sums
               /\ ~outdir[o].exists => outdir[o] = NoOutput
    BY <2>1 DEF Types, OutputType
  <2>4. ASSUME NEW b \in Builders
        PROVE  /\ digests[b] \in Seq(Digest) /\ Len(digests[b]) <= Len(Inventory)
               /\ reading[b].stage \in {"none", "stat", "read"}
               /\ built[b] = Absent \/ built[b] \in Manifest
               /\ observed[b] \in OutputFile \/ observed[b] \in Manifest
    BY <2>1 DEF Types, Reads, ReadingType, NotReading
  <2>5. pos \in [Builders -> 0..Len(Script)]
    BY <2>1, Places DEF Types
  <2> QED
    BY <2>1, <2>2, <2>3, <2>4, <2>5 DEF Types, TypeOK, Names
<1> QED
  BY Invariant, <1>1, PTL

\* A PASS names what the commit has, file by file, unless the file was taken away from
\* the commit and brought back twice meanwhile (_manifest, _assert_commit_head,
\* _assert_clean_worktree and verify_release_outputs).
THEOREM PassDescribes == Spec => []PassDescribesCommit
<1>1. IInv => PassDescribesCommit
  BY DEF IInv, BuilderInv, Verdict, PassDescribesCommit
<1> QED
  BY Invariant, <1>1, PTL

\* No digest is of bytes of two states of one file (_digest).
THEOREM NeverMixed == Spec => []PassNeverMixes
<1>1. IInv => PassNeverMixes
  BY DEF IInv, BuilderInv, Reads, PassNeverMixes
<1> QED
  BY Invariant, <1>1, PTL

\* About to pass, a builder knows what its output says, as far as nobody has changed it
\* since (verify_release_outputs).
THEOREM ReadBackHolds == Spec => []PassReadsBack
<1>1. IInv => PassReadsBack
  <2> SUFFICES ASSUME IInv, NEW b \in Builders, At(b, "pass")
               PROVE  /\ "manifest" \notin stale[b] =>
                           outdir[output[b]].manifest = ManifestOf(commit[b], digests[b])
                      /\ "sums" \notin stale[b] => outdir[output[b]].sums = digests[b]
    BY DEF PassReadsBack
  <2>1. pos[b] = 22 /\ BuilderInv(b)
    BY Standing DEF IInv
  <2> QED
    BY <2>1 DEF BuilderInv, Builds, Fresh
<1> QED
  BY Invariant, <1>1, PTL

\* What a builder that passed has left is changed by no builder (mkdir and _write_new).
THEOREM OutputStands == Spec => PassedOutputStands
<1>1. ASSUME IInv, [Next]_vars, NEW b \in Builders, Stands(b),
             outdir'[output[b]] # outdir[output[b]]
      PROVE  tampers' > tampers
  <2> DEFINE o == output[b]
  <2>1. Types
    BY <1>1 DEF IInv
  <2>2. o \in Outputs /\ outdir[o] \in OutputType
    BY <2>1 DEF Types
  <2>3. outdir[o].exists = TRUE /\ outdir[o].manifest # Absent /\ outdir[o].sums # Absent
    <3>1. ManifestOf(commit[b], digests[b]) \in Manifest /\ digests[b] \in Sums
      BY <2>1 DEF Types, ManifestOf, Manifest, Sums
    <3> QED
      BY <1>1, <3>1, AbsenceAssumption DEF Stands
  <2> HIDE DEF o
  <2>4. ASSUME NEW q \in Builders, MakeDirectory(q) PROVE outdir'[o] = outdir[o]
    BY <2>1, <2>2, <2>3, <2>4 DEF MakeDirectory, Types
  <2>5. ASSUME NEW q \in Builders, WriteManifest(q) PROVE outdir'[o] = outdir[o]
    <3>1. CASE outdir[output[q]].exists /\ outdir[output[q]].manifest = Absent
      BY <2>1, <2>2, <2>3, <2>5, <3>1 DEF WriteManifest, WriteNew, Types
    <3>2. CASE ~(outdir[output[q]].exists /\ outdir[output[q]].manifest = Absent)
      BY <2>5, <3>2 DEF WriteManifest, WriteNew
    <3> QED
      BY <3>1, <3>2
  <2>6. ASSUME NEW q \in Builders, WriteSums(q) PROVE outdir'[o] = outdir[o]
    <3>1. CASE outdir[output[q]].exists /\ outdir[output[q]].sums = Absent
      BY <2>1, <2>2, <2>3, <2>6, <3>1 DEF WriteSums, WriteNew, Types
    <3>2. CASE ~(outdir[output[q]].exists /\ outdir[output[q]].sums = Absent)
      BY <2>6, <3>2 DEF WriteSums, WriteNew
    <3> QED
      BY <3>1, <3>2
  <2>7. ASSUME NEW q \in Builders,
               \/ Begin(q) \/ CheckOutputPath(q) \/ CheckInventory(q) \/ CheckHead(q)
               \/ CheckClean(q) \/ StatFile(q) \/ ReadFirst(q) \/ FinishRead(q) \/ Derived(q)
               \/ ListOutput(q) \/ ReadBack(q) \/ CompareManifest(q) \/ ReadSums(q)
               \/ Pass(q) \/ Kill(q)
        PROVE  outdir' = outdir
    BY <2>7 DEF Begin, CheckOutputPath, CheckInventory, CheckHead, CheckClean, StatFile,
       ReadFirst, FinishRead, Derived, ListOutput, ReadBack, CompareManifest, ReadSums,
       Pass, Kill
  <2>8. EditFile \/ Checkout \/ UNCHANGED vars => outdir' = outdir
    BY DEF EditFile, Checkout, Change, vars
  <2>9. CASE Tamper
    <3>1. tampers' = tampers + 1 /\ tampers \in 0..MaxTampers
      BY <2>1, <2>9 DEF Tamper, Meddle, Types
    <3> QED
      BY <3>1, ReleaseAssumption
  <2>10. outdir'[o] # outdir[o]
    BY <1>1 DEF o
  <2> QED
    BY <1>1, <2>4, <2>5, <2>6, <2>7, <2>8, <2>9, <2>10 DEF Next, Builder
<1>2. IInv /\ [Next]_vars =>
        (\A b \in Builders : Stands(b) /\ outdir'[output[b]] # outdir[output[b]]
                             => tampers' > tampers)
  BY <1>1
<1>3. IInv /\ [Next]_vars =>
        [\A b \in Builders : Stands(b) /\ outdir'[output[b]] # outdir[output[b]]
                             => tampers' > tampers]_vars
  BY <1>2
<1> QED
  BY Invariant, <1>3, PTL DEF Spec, PassedOutputStands
============================================================================
