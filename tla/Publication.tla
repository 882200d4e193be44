----------------------------- MODULE Publication -----------------------------
(***************************************************************************)
(* tools/build_publication.py over the public tree it writes: `add-run`,   *)
(* `generate-conformance` and `check`, with the gates of                   *)
(* tools/validate_public_record.py and tools/check_runs.py that read the   *)
(* same tree.  A command is a process that performs one file write per     *)
(* step and may die before, during or after any of them; a file killed in  *)
(* mid-write is Torn.  SHA-256 is collision free: the digest of a file is  *)
(* its content.  The twin of passport p, the target files of the run that  *)
(* p records and its evidence are named by p itself.                       *)
(***************************************************************************)
EXTENDS Naturals, FiniteSets

CONSTANTS
  Publishers,   \* invocations of the tool that may be alive at once
  Runs,         \* run numbers: examples/verified/run-NNN
  Passports,    \* passport files an operator may hand to add-run
  Targets,      \* the runs whose target files an operator may hand to it
  BasePassport, \* the passport of the run published before the first step
  Derivable,    \* passports a one-byte twin can be derived from
  Verifies,     \* passports tools/verify_run_passport.py answers PASS
  TwinRefused,  \* passports whose twin it answers BLOCK
  Reissue,      \* may an operator reuse a run number for another command?
  MaxId,        \* bound on evidence and claim identifiers
  MaxCrashes,   \* bound on the commands that are killed
  Cases,        \* refusal cases of the mutation corpus
  Reasons,      \* refusal reasons
  Provokes,     \* case -> the reason its mutation provokes
  Inputs,       \* vector files: a case is written at its place in the corpus
  Declared,     \* the reasons the verifier's source declares
  NotReachable, \* NOT_REACHABLE_BY_PUBLISHED_MUTATION
  Corpora,      \* versions of demo/refusals/test_refusals.py
  Suite,        \* version -> (vector file -> the case it holds)
  NoFile, Torn  \* an absent file; a file cut short by a crash

ASSUME ConstantsAssumption ==
  /\ MaxId \in Nat \ {0}
  /\ MaxCrashes \in Nat
  /\ BasePassport \in Passports
  /\ Targets \subseteq Passports
  /\ Derivable \subseteq Passports
  /\ Verifies \subseteq Passports
  /\ TwinRefused \subseteq Passports
  /\ Reissue \in BOOLEAN
  /\ \A c \in Cases : Provokes[c] \in Reasons
  /\ \A v \in Corpora : DOMAIN Suite[v] \subseteq Inputs
  /\ \A v \in Corpora : \A i \in DOMAIN Suite[v] : Suite[v][i] \in Cases
  /\ Corpora # {}

VARIABLES
  artifacts,  \* run -> file name -> content
  staging,    \* run -> run-NNN.staging, its files or NoFile
  records,    \* evidence id -> evidence/records/EVD-CORE-NNNN.json
  ledger,     \* evidence/ledger-v1.json
  readme,     \* the claim table of README.md
  runsIndex,  \* examples/verified/runs.md
  passportSpec, \* the refusal reasons docs/passport-spec-v1.md lists
  vectors,    \* file -> examples/verified/conformance/vectors/vector-NNN.json
  manifest,   \* examples/verified/conformance/manifest.json
  corpus,     \* the version of the mutation corpus in the tree
  crashes,    \* how many commands were killed so far
  pc,         \* publisher -> the next step of its command
  cmd,        \* publisher -> its command line
  view,       \* publisher -> the ledger it loaded
  digest,     \* publisher -> sha256_of(record_path)
  plan,       \* publisher -> derived_plan() or conformance_suite()
  listed,     \* publisher -> the staged files it found to unlink
  origin,     \* publisher -> the accepted tree it started from (history)
  shared      \* runs for which two commands were once alive at a time (history)

derived == <<readme, runsIndex, passportSpec, manifest>>
sources == <<artifacts, records, ledger, vectors>>
tree    == <<sources, derived>>
around  == <<staging, corpus, crashes, shared>>
held    == <<cmd, view, digest, plan, listed, origin>>
vars    == <<tree, around, pc, held>>

Provable == Derivable \cap Verifies \cap TwinRefused
Content  == Passports \cup {NoFile, Torn}
\* target-before is written beside target-after and read by none of this.
Names    == {"run-passport.json", "run-passport.tampered.json", "target-after"}
Staged   == {"p.json", "t.json"}
Ids      == 1 .. MaxId

\* What build_record observes of a run directory.
Record == [passport : Content, twin : Content,
           twinRefused : BOOLEAN, binding : BOOLEAN]
RecordFile == Record \cup {NoFile, Torn}
Evidence == [id : Ids, sha256 : RecordFile]
Claim    == [id : Ids, statement : Passports, evidence : Ids]
Ledger   == [evidence : SUBSET Evidence, claims : SUBSET Claim]
Command  == [run : Runs, passport : Passports, after : Passports]
Suites   == {Suite[v] : v \in Corpora}

\* A file that is there and whole is neither an absent file nor one cut short, which
\* are two things, and no command line is the absence of one.
ASSUME AbsenceAssumption ==
  /\ NoFile # Torn
  /\ NoFile \notin Command /\ NoFile \notin Passports /\ NoFile \notin Record
  /\ Torn \notin Ledger /\ Torn \notin Suites /\ Torn \notin Passports
  /\ \A index \in SUBSET (Runs \X Content) : index # Torn

\* What derived_plan() and conformance_suite() return.
AddRunPlan   == [readme : SUBSET Claim, runsIndex : SUBSET (Runs \X Content),
                 manifest : Suites]
GeneratePlan == [manifest : Suites]

BaseRecord == [passport |-> BasePassport, twin |-> BasePassport,
               twinRefused |-> TRUE, binding |-> TRUE]
BaseLedger ==
  [evidence |-> {[id |-> 1, sha256 |-> BaseRecord]},
   claims   |-> {[id |-> 1, statement |-> BasePassport, evidence |-> 1]}]

-----------------------------------------------------------------------------
(* What the tool derives from the tree.                                    *)

Greatest(S) == CHOOSE n \in S : \A m \in S : m <= n

\* Fault: the greatest identifier in use is handed out again.
ReusedIdentifier(entries) == Greatest({1} \cup {e.id : e \in entries})

\* Max + 1 over the identifiers in use, so that none is issued twice.
NextIdentifier(entries) ==
  1 + Greatest({0} \cup {e.id : e \in entries})

PublishedPassports ==
  {r \in Runs : artifacts[r]["run-passport.json"] # NoFile}

RunsIndexText ==
  {<<r, artifacts[r]["run-passport.json"]>> : r \in PublishedPassports}

ClaimRows == ledger.claims

RecordOf(r) ==
  LET dir == artifacts[r] IN
  [passport    |-> dir["run-passport.json"],
   twin        |-> dir["run-passport.tampered.json"],
   twinRefused |-> dir["run-passport.tampered.json"] \in TwinRefused,
   binding     |-> dir["target-after"] = dir["run-passport.json"]]

CasesOf(suite) == {suite[i] : i \in DOMAIN suite}

\* evaluate_coverage: the manifest on disk names the corpus's cases, each
\* vector on disk provokes the reason the manifest expects, and the reasons
\* claimed and those declared out of reach are the verifier's, exactly.
CoverageHolds ==
  /\ manifest # Torn
  /\ CasesOf(manifest) = CasesOf(Suite[corpus])
  /\ \A i \in DOMAIN manifest :
       vectors[i] \in Cases /\ Provokes[vectors[i]] = Provokes[manifest[i]]
  /\ {Provokes[c] : c \in CasesOf(manifest)} \cup NotReachable = Declared

\* The vector files a corpus derives.
VectorsOf(suite) == [i \in Inputs |-> IF i \in DOMAIN suite THEN suite[i] ELSE NoFile]

\* conformance_state_failures is empty.
VectorsCurrent == vectors = VectorsOf(Suite[corpus])

LedgerDigestsHold == \A e \in ledger.evidence : records[e.id] = e.sha256

-----------------------------------------------------------------------------
(* The gates.                                                              *)

\* Fault: the index of runs is not among the files compared.
CheckForgetsIndex ==
  /\ ledger # Torn
  /\ CoverageHolds
  /\ LedgerDigestsHold
  /\ VectorsCurrent
  /\ readme = ClaimRows
  /\ passportSpec = Declared
  /\ manifest = Suite[corpus]

\* `build_publication.py check` exits 0.
CheckPasses ==
  /\ ledger # Torn
  /\ CoverageHolds
  /\ LedgerDigestsHold
  /\ VectorsCurrent
  /\ readme = ClaimRows
  /\ \A r \in Runs : artifacts[r]["run-passport.json"] # Torn
  /\ runsIndex = RunsIndexText
  /\ passportSpec = Declared
  /\ manifest = Suite[corpus]

\* `check_runs.py` exits 0.
RunsVerify ==
  \A r \in PublishedPassports : artifacts[r]["run-passport.json"] \in Verifies

\* The record files are exactly the indexed ones, and say what is indexed.
RecordsIndexed ==
  /\ ledger # Torn
  /\ {i \in Ids : records[i] # NoFile} = {e.id : e \in ledger.evidence}
  /\ LedgerDigestsHold

\* Everything but the prose a human owes every claim.
MachineGates == CheckPasses /\ RunsVerify /\ RecordsIndexed

-----------------------------------------------------------------------------
Init ==
  /\ artifacts = [r \in Runs |-> [n \in Names |-> NoFile]]
  /\ staging = [r \in Runs |-> NoFile]
  /\ records = [i \in Ids |-> IF i = 1 THEN BaseRecord ELSE NoFile]
  /\ ledger = BaseLedger
  /\ readme = BaseLedger.claims
  /\ runsIndex = {}
  /\ passportSpec = Declared
  /\ corpus \in Corpora
  /\ manifest = Suite[corpus]
  /\ vectors = VectorsOf(Suite[corpus])
  /\ crashes = 0
  /\ pc = [q \in Publishers |-> "idle"]
  /\ cmd = [q \in Publishers |-> NoFile]
  /\ view = [q \in Publishers |-> NoFile]
  /\ digest = [q \in Publishers |-> NoFile]
  /\ plan = [q \in Publishers |-> NoFile]
  /\ listed = [q \in Publishers |-> NoFile]
  /\ origin = [q \in Publishers |-> NoFile]
  /\ shared = {}

Goto(q, step) == pc' = [pc EXCEPT ![q] = step]
At(q, step)   == pc[q] = step

\* The process ends, at its own exit or killed: its locals are gone.
Exit(q) ==
  /\ Goto(q, "idle")
  /\ cmd' = [cmd EXCEPT ![q] = NoFile]
  /\ view' = [view EXCEPT ![q] = NoFile]
  /\ digest' = [digest EXCEPT ![q] = NoFile]
  /\ plan' = [plan EXCEPT ![q] = NoFile]
  /\ listed' = [listed EXCEPT ![q] = NoFile]
  /\ origin' = [origin EXCEPT ![q] = NoFile]

Quiet         == \A q \in Publishers : At(q, "idle")

\* A run directory is reused only to repeat the command that filled it,
\* unless Reissue lets the operator overwrite it with another run.
MayUse(r, p, a) ==
  \/ Reissue
  \/ artifacts[r]["run-passport.json"] = NoFile
  \/ /\ artifacts[r]["run-passport.json"] \in {p, Torn}
     /\ artifacts[r]["target-after"] \in {a, NoFile, Torn}

-----------------------------------------------------------------------------
(* add-run.                                                                *)

\* Inputs are read and the twin derived.  Nothing asks whether another command
\* is alive at the same run number; `shared` remembers where one was.
BeginAddRun(q, r, p, a) ==
  /\ At(q, "idle")
  /\ p \in Derivable
  /\ MayUse(r, p, a)
  /\ shared' = shared \cup
       {s \in {r} : \E o \in Publishers \ {q} : cmd[o] # NoFile /\ cmd[o].run = s}
  /\ cmd' = [cmd EXCEPT ![q] = [run |-> r, passport |-> p, after |-> a]]
  /\ origin' = [origin EXCEPT ![q] =
                  IF MachineGates /\ artifacts[r] = [n \in Names |-> NoFile]
                  THEN tree ELSE NoFile]
  /\ Goto(q, "stage")
  /\ UNCHANGED <<tree, staging, corpus, crashes, view, digest, plan, listed>>

\* Fault: one directory for the pairs of all runs.
CommonStaging(q) == CHOOSE r \in Runs : TRUE

\* run-NNN.staging: one directory per run number, not per command.
StagingOf(q) == cmd[q].run

Outside == <<tree, corpus, crashes, shared>>

\* mkdir(exist_ok=True): a directory that is there is taken as it is.
MakeStaging(q) ==
  /\ At(q, "stage")
  /\ staging' = [staging EXCEPT ![StagingOf(q)] =
                   IF @ = NoFile THEN [f \in Staged |-> NoFile] ELSE @]
  /\ Goto(q, "p.json")
  /\ UNCHANGED <<Outside, held>>

AfterStaged == [f \in Staged |-> IF f = "p.json" THEN "t.json" ELSE "judge p.json"]

\* A write into a directory that another command removed raises.
StageFile(q, f) ==
  /\ At(q, f)
  /\ \/ /\ staging[StagingOf(q)] # NoFile
        /\ staging' = [staging EXCEPT ![StagingOf(q)][f] = cmd[q].passport]
        /\ Goto(q, AfterStaged[f])
     \/ /\ staging[StagingOf(q)] = NoFile
        /\ Goto(q, "abandon")
        /\ UNCHANGED staging
  /\ UNCHANGED <<Outside, held>>

\* What the verifier, a process of its own, finds under a staged file's name.
StagedFile(q, f) ==
  IF staging[StagingOf(q)] = NoFile THEN NoFile ELSE staging[StagingOf(q)][f]

\* A twin cut short is refused like one that was altered; an absent file gets
\* its verdict on stderr, where run_verifier does not look.
Convinces(f, content) ==
  content \in IF f = "p.json" THEN Verifies ELSE TwinRefused \cup {Torn}

\* Both verdicts are of what lies in the directory when the verifier reads it.
JudgeFile(q, f) ==
  /\ At(q, IF f = "p.json" THEN "judge p.json" ELSE "judge t.json")
  /\ Goto(q, IF ~ Convinces(f, StagedFile(q, f)) THEN "abandon"
             ELSE IF f = "p.json" THEN "judge t.json" ELSE "sweep")
  /\ UNCHANGED <<Outside, staging, held>>

(* The `finally` clause, with the verdicts in or an exception on its way.  *)
Sweeps(q) == pc[q] \in {"sweep", "abandon"}

\* glob reads the directory once; one that is gone has no files.
ListStaged(q) ==
  /\ Sweeps(q) /\ listed[q] = NoFile
  /\ listed' = [listed EXCEPT ![q] = {f \in Staged : StagedFile(q, f) # NoFile}]
  /\ UNCHANGED <<Outside, staging, pc, cmd, view, digest, plan, origin>>

UnlinkStaged(q) ==
  /\ Sweeps(q) /\ listed[q] # NoFile
  /\ \E f \in listed[q] :
       /\ StagedFile(q, f) # NoFile
       /\ staging' = [staging EXCEPT ![StagingOf(q)][f] = NoFile]
       /\ listed' = [listed EXCEPT ![q] = @ \ {f}]
  /\ UNCHANGED <<Outside, pc, cmd, view, digest, plan, origin>>

\* With the directory gone a proven pair goes on; the exception ends the command.
RemoveStaging(q) ==
  /\ Sweeps(q) /\ listed[q] = {}
  /\ staging[StagingOf(q)] = [f \in Staged |-> NoFile]
  /\ staging' = [staging EXCEPT ![StagingOf(q)] = NoFile]
  /\ \/ At(q, "sweep") /\ Goto(q, "load") /\ UNCHANGED held
     \/ At(q, "abandon") /\ Exit(q)
  /\ UNCHANGED Outside

\* unlink finds a file gone, or rmdir its directory gone or filled again.
SweepFails(q) ==
  /\ Sweeps(q) /\ listed[q] # NoFile
  /\ \/ \E f \in listed[q] : StagedFile(q, f) = NoFile
     \/ listed[q] = {} /\ staging[StagingOf(q)] # [f \in Staged |-> NoFile]
  /\ Exit(q)
  /\ UNCHANGED <<Outside, staging>>

\* An unreadable ledger and --dry-run both end the command here.
LoadLedger(q) ==
  /\ At(q, "load")
  /\ \/ /\ ledger # Torn
        /\ NextIdentifier(ledger.evidence) \in Ids
        /\ NextIdentifier(ledger.claims) \in Ids
        /\ view' = [view EXCEPT ![q] = ledger]
        /\ Goto(q, "run-passport.json")
        /\ UNCHANGED <<cmd, digest, plan, listed, origin>>
     \/ Exit(q)
  /\ UNCHANGED <<tree, around>>

\* The order of the `writes` dictionary.
AfterArtifact ==
  [n \in Names |->
     CASE n = "run-passport.json" -> "run-passport.tampered.json"
       [] n = "run-passport.tampered.json" -> "target-after"
       [] OTHER -> "record"]

ArtifactBytes(c, n) ==
  IF n = "target-after" THEN c.after ELSE c.passport

WriteArtifact(q, n) ==
  /\ At(q, n)
  /\ artifacts' = [artifacts EXCEPT ![cmd[q].run][n] = ArtifactBytes(cmd[q], n)]
  /\ Goto(q, AfterArtifact[n])
  /\ UNCHANGED <<records, ledger, derived, vectors, around, held>>

RecordId(q) == NextIdentifier(view[q].evidence)
ClaimId(q)  == NextIdentifier(view[q].claims)

\* build_record reads the run directory back from disk.
WriteRecord(q) ==
  /\ At(q, "record")
  /\ records' = [records EXCEPT ![RecordId(q)] = RecordOf(cmd[q].run)]
  /\ Goto(q, "digest")
  /\ UNCHANGED <<artifacts, ledger, derived, vectors, around, held>>

\* The digest is taken of the record file as written.
DigestRecord(q) ==
  /\ At(q, "digest")
  /\ digest' = [digest EXCEPT ![q] = records[RecordId(q)]]
  /\ Goto(q, "ledger")
  /\ UNCHANGED <<tree, around, cmd, view, plan, listed, origin>>

\* Fault: the new claim replaces the list instead of joining it.
LedgerOfOneClaim(q) ==
  [evidence |-> view[q].evidence
                  \cup {[id |-> RecordId(q), sha256 |-> digest[q]]},
   claims   |-> {[id |-> ClaimId(q), statement |-> cmd[q].passport,
                  evidence |-> RecordId(q)]}]

NewLedger(q) ==
  [evidence |-> view[q].evidence
                  \cup {[id |-> RecordId(q), sha256 |-> digest[q]]},
   claims   |-> view[q].claims
                  \cup {[id |-> ClaimId(q), statement |-> cmd[q].passport,
                         evidence |-> RecordId(q)]}]

WriteLedger(q) ==
  /\ At(q, "ledger")
  /\ ledger' = NewLedger(q)
  /\ Goto(q, "derive")
  /\ UNCHANGED <<artifacts, records, derived, vectors, around, held>>

\* Fault: the claim table is derived from the ledger as it was loaded.
DeriveFromView(q) ==
  /\ At(q, "derive")
  /\ IF ledger # Torn /\ readme # Torn /\ passportSpec # Torn /\ CoverageHolds
     THEN /\ plan' = [plan EXCEPT ![q] =
                [readme |-> view[q].claims, runsIndex |-> RunsIndexText,
                 manifest |-> Suite[corpus]]]
          /\ Goto(q, "readme")
          /\ UNCHANGED <<cmd, view, digest, listed, origin>>
     ELSE Exit(q)
  /\ UNCHANGED <<tree, around>>

\* derived_plan raises, with the ledger already written, when the tree cannot
\* be derived from: no claim table or reason list left, a torn passport, refusal
\* coverage that does not hold.
Derive(q) ==
  /\ At(q, "derive")
  /\ IF /\ ledger # Torn
        /\ readme # Torn
        /\ passportSpec # Torn
        /\ \A r \in Runs : artifacts[r]["run-passport.json"] # Torn
        /\ CoverageHolds
     THEN /\ plan' = [plan EXCEPT ![q] =
                [readme |-> ClaimRows, runsIndex |-> RunsIndexText,
                 manifest |-> Suite[corpus]]]
          /\ Goto(q, "readme")
          /\ UNCHANGED <<cmd, view, digest, listed, origin>>
     ELSE Exit(q)
  /\ UNCHANGED <<tree, around>>

WriteReadme(q) ==
  /\ At(q, "readme")
  /\ readme' = plan[q].readme
  /\ Goto(q, "runs.md")
  /\ UNCHANGED <<sources, runsIndex, passportSpec, manifest, around, held>>

WriteRunsIndex(q) ==
  /\ At(q, "runs.md")
  /\ runsIndex' = plan[q].runsIndex
  /\ Goto(q, "passport-spec")
  /\ UNCHANGED <<sources, readme, passportSpec, manifest, around, held>>

WritePassportSpec(q) ==
  /\ At(q, "passport-spec")
  /\ passportSpec' = Declared
  /\ Goto(q, "manifest")
  /\ UNCHANGED <<sources, readme, runsIndex, manifest, around, held>>

\* The last write of add-run and of generate-conformance: exit code 0.
WriteManifest(q) ==
  /\ At(q, "manifest")
  /\ manifest' = plan[q].manifest
  /\ Exit(q)
  /\ UNCHANGED <<sources, readme, runsIndex, passportSpec, around>>

-----------------------------------------------------------------------------
(* generate-conformance.                                                   *)

BeginGenerate(q) ==
  /\ At(q, "idle")
  /\ plan' = [plan EXCEPT ![q] = [manifest |-> Suite[corpus]]]
  /\ Goto(q, "clear")
  /\ UNCHANGED <<tree, around, cmd, view, digest, listed, origin>>

\* Fault: the old vectors stay.
ClearNothing(q) ==
  /\ At(q, "clear")
  /\ Goto(q, "vectors")
  /\ UNCHANGED <<sources, derived, around, held>>

\* shutil.rmtree removes the vectors one by one.
ClearVector(q) ==
  /\ At(q, "clear")
  /\ \/ \E i \in Inputs : /\ vectors[i] # NoFile
                          /\ vectors' = [vectors EXCEPT ![i] = NoFile]
                          /\ UNCHANGED pc
     \/ /\ \A i \in Inputs : vectors[i] = NoFile
        /\ Goto(q, "vectors")
        /\ UNCHANGED vectors
  /\ UNCHANGED <<artifacts, records, ledger, derived, around, held>>

WriteVector(q) ==
  /\ At(q, "vectors")
  /\ LET suite == plan[q].manifest
         todo  == {i \in DOMAIN suite : vectors[i] = NoFile}
     IN  \/ \E i \in todo : /\ vectors' = [vectors EXCEPT ![i] = suite[i]]
                            /\ UNCHANGED pc
         \/ todo = {} /\ Goto(q, "manifest") /\ UNCHANGED vectors
  /\ UNCHANGED <<artifacts, records, ledger, derived, around, held>>

-----------------------------------------------------------------------------
(* Failure, and the humans around the tool.                                *)

Killed(q) ==
  /\ crashes < MaxCrashes
  /\ crashes' = crashes + 1
  /\ Exit(q)

\* The process dies between two writes.
Crash(q) ==
  /\ ~ At(q, "idle")
  /\ Killed(q)
  /\ UNCHANGED <<tree, staging, corpus, shared>>

\* The process dies inside a write of its staged pair.
TearStaged(q) ==
  /\ pc[q] \in Staged /\ staging[StagingOf(q)] # NoFile
  /\ staging' = [staging EXCEPT ![StagingOf(q)][pc[q]] = Torn]
  /\ Killed(q)
  /\ UNCHANGED <<tree, corpus, shared>>

\* The process dies inside the write its pc names.
TearWrite(q) ==
  /\ Killed(q)
  /\ \/ /\ pc[q] \in Names
        /\ artifacts' = [artifacts EXCEPT ![cmd[q].run][pc[q]] = Torn]
        /\ UNCHANGED <<records, ledger, derived, vectors>>
     \/ /\ At(q, "record")
        /\ records' = [records EXCEPT ![RecordId(q)] = Torn]
        /\ UNCHANGED <<artifacts, ledger, derived, vectors>>
     \/ /\ At(q, "ledger") /\ ledger' = Torn
        /\ UNCHANGED <<artifacts, records, derived, vectors>>
     \/ /\ At(q, "readme") /\ readme' = Torn
        /\ UNCHANGED <<sources, runsIndex, passportSpec, manifest>>
     \/ /\ At(q, "runs.md") /\ runsIndex' = Torn
        /\ UNCHANGED <<sources, readme, passportSpec, manifest>>
     \/ /\ At(q, "passport-spec") /\ passportSpec' = Torn
        /\ UNCHANGED <<sources, readme, runsIndex, manifest>>
     \/ /\ At(q, "manifest") /\ manifest' = Torn
        /\ UNCHANGED <<sources, readme, runsIndex, passportSpec>>
     \/ /\ At(q, "vectors")
        /\ \E i \in DOMAIN plan[q].manifest :
             vectors[i] = NoFile /\ vectors' = [vectors EXCEPT ![i] = Torn]
        /\ UNCHANGED <<artifacts, records, ledger, derived>>
  /\ UNCHANGED <<staging, corpus, shared>>

\* A developer edits the mutation corpus between two invocations.
EditCorpus ==
  /\ Quiet
  /\ corpus' \in Corpora \ {corpus}
  /\ UNCHANGED <<tree, staging, crashes, shared, pc, held>>

\* A human mirrors the ledger's claim rows into README.md, which no command
\* does on its own: add-run is the only one that rewrites the table.
MirrorClaims ==
  /\ Quiet
  /\ ledger # Torn
  /\ readme # ClaimRows
  /\ readme' = ClaimRows
  /\ UNCHANGED <<sources, runsIndex, passportSpec, manifest, around, pc, held>>

\* Up to the moment when the pair is proven and its directory gone.
ProveStep(q) ==
  \/ MakeStaging(q)
  \/ \E f \in Staged : StageFile(q, f) \/ JudgeFile(q, f)
  \/ ListStaged(q) \/ UnlinkStaged(q) \/ RemoveStaging(q) \/ SweepFails(q)

AddRunStep(q) ==
  \/ \E r \in Runs, p \in Passports, a \in Targets : BeginAddRun(q, r, p, a)
  \/ ProveStep(q) \/ LoadLedger(q)
  \/ \E n \in Names : WriteArtifact(q, n)
  \/ WriteRecord(q) \/ DigestRecord(q) \/ WriteLedger(q)
  \/ Derive(q) \/ WriteReadme(q) \/ WriteRunsIndex(q) \/ WritePassportSpec(q)
  \/ WriteManifest(q)

GenerateStep(q) == BeginGenerate(q) \/ ClearVector(q) \/ WriteVector(q)

Human == EditCorpus \/ MirrorClaims

Next ==
  \/ \E q \in Publishers :
       \/ AddRunStep(q) \/ GenerateStep(q)
       \/ Crash(q) \/ TearStaged(q) \/ TearWrite(q)
  \/ Human

Spec == Init /\ [][Next]_vars

-----------------------------------------------------------------------------
(* Properties.                                                             *)

Steps == {"idle", "stage", "p.json", "t.json", "judge p.json", "judge t.json",
          "sweep", "abandon", "load", "record", "digest", "ledger",
          "derive", "readme", "runs.md", "passport-spec", "manifest", "clear",
          "vectors"} \cup Names

\* Every variable holds a value the files and locals of build_publication.py
\* can hold.
TypeOK ==
  /\ artifacts \in [Runs -> [Names -> Content]]
  /\ staging \in [Runs -> [Staged -> Content] \cup {NoFile}]
  /\ records \in [Ids -> RecordFile]
  /\ ledger \in Ledger \cup {Torn}
  /\ readme \in (SUBSET Claim) \cup {Torn}
  /\ runsIndex \in (SUBSET (Runs \X Content)) \cup {Torn}
  /\ passportSpec \in {Declared, Torn}
  /\ vectors \in [Inputs -> Cases \cup {NoFile, Torn}]
  /\ manifest \in Suites \cup {Torn}
  /\ corpus \in Corpora
  /\ crashes \in 0 .. MaxCrashes
  /\ pc \in [Publishers -> Steps]
  /\ cmd \in [Publishers -> Command \cup {NoFile}]
  /\ view \in [Publishers -> Ledger \cup {NoFile}]
  /\ digest \in [Publishers -> RecordFile]
  /\ plan \in [Publishers -> AddRunPlan \cup GeneratePlan \cup {NoFile}]
  /\ listed \in [Publishers -> (SUBSET Staged) \cup {NoFile}]
  /\ shared \subseteq Runs

\* "a twin that does not flip the verdict is not evidence, and must never
\* reach the tree" (build_publication.py:789-790): whatever is killed, and whatever
\* commands for other runs do meanwhile, a run directory holds no passport and no
\* twin that was not proven, unless two commands were once alive at that run
\* number: they share its staging directory, and one may be told of the other's pair.
OnlyProvenArtifacts ==
  \A r \in Runs \ shared :
    /\ artifacts[r]["run-passport.json"] \in Verifies \cup {NoFile, Torn}
    /\ artifacts[r]["run-passport.tampered.json"]
         \in TwinRefused \cup {NoFile, Torn}

\* The ledger can be trusted to describe the file it names, in the middle of
\* a publication and after any crash of it: a record an entry names is there,
\* with the digest of the entry, because a record is final before the ledger
\* names it and no later command writes an indexed record.
LedgerDescribesRecords == ledger # Torn => LedgerDigestsHold

\* A publication that started in a new directory of a tree the gates accept,
\* and ended in any way, leaves that tree, a tree the gates refuse, or the
\* run published whole: never a part of a run the gates accept.
Whole(c) ==
  /\ \A n \in Names : artifacts[c.run][n] = ArtifactBytes(c, n)
  /\ ledger # Torn
  /\ \E k \in ledger.claims, e \in ledger.evidence :
       /\ k.evidence = e.id
       /\ k.statement = c.passport
       /\ e.sha256 = RecordOf(c.run)

Ends(q) == ~ At(q, "idle") /\ pc'[q] = "idle"

NoSilentPartial ==
  [][\A q \in Publishers : \A c \in {cmd[q]} :
       Ends(q) /\ origin[q] # NoFile =>
         tree' = origin[q] \/ ~ MachineGates' \/ Whole(c)']_vars

\* An add-run that exits 0 leaves a tree every machine gate accepts, whatever
\* earlier commands left behind, if the vectors were current.
PublishedIsAccepted ==
  [][\A q \in Publishers :
       WriteManifest(q) /\ cmd[q] # NoFile /\ VectorsCurrent => MachineGates']_vars

\* generate-conformance repairs the suite from any state, also one a crashed
\* generation or a corpus edit left: once it exits 0 the vectors are current.
GenerateRepairs ==
  [][\A q \in Publishers :
       WriteManifest(q) /\ cmd[q] = NoFile =>
         (VectorsCurrent /\ manifest = Suite[corpus])']_vars

\* build_publication.py:25: "`add-run` is idempotent.  Running it twice leaves
\* the tree byte-identical, so a retry after an interrupted publication cannot
\* append a duplicate claim."
NoDuplicateClaim ==
  ledger # Torn =>
    \A c, d \in ledger.claims : c.statement = d.statement => c = d

\* build_publication.py:17: "the published record cannot drift from the
\* artifacts it describes" once `check` runs: in a tree check accepts, every
\* record describes the artifacts of some published run.
RecordsMatchArtifacts ==
  Quiet /\ CheckPasses =>
    \A e \in ledger.evidence :
      e.id = 1 \/ \E r \in Runs : records[e.id] = RecordOf(r)

-----------------------------------------------------------------------------
(* The inductive invariant behind these properties.                        *)

AddSteps   == Steps \ {"idle", "manifest", "clear", "vectors"}
Proving    == {"stage", "p.json", "t.json", "judge p.json", "judge t.json",
               "sweep", "abandon"}
AfterProof == AddSteps \ Proving
AfterLoad  == AfterProof \ {"load"}
Writing    == Names \cup {"record", "digest", "ledger"}

\* Identifiers are 1 .. k, each carried by one entry.
Numbered(entries) ==
  /\ \E k \in 0 .. MaxId : {e.id : e \in entries} = 1 .. k
  /\ \A d, e \in entries : d.id = e.id => d = e

WellNumbered(l) == Numbered(l.evidence) /\ Numbered(l.claims)

\* What the locals of a command hold at each of its steps.
LocalsOK ==
  \A q \in Publishers :
    /\ pc[q] \in AddSteps => cmd[q] \in Command
    /\ pc[q] \in AfterLoad => /\ view[q] \in Ledger
                              /\ RecordId(q) \in Ids
                              /\ ClaimId(q) \in Ids
    /\ pc[q] \in {"readme", "runs.md", "passport-spec"} => plan[q] \in AddRunPlan
    /\ pc[q] \in {"clear", "vectors"} => plan[q] \in GeneratePlan
    /\ pc[q] = "manifest" => plan[q] \in AddRunPlan \cup GeneratePlan

\* Two commands share a run number only where `shared` says so; and where none
\* does, the staged files are the command's own until it is told of both.
Apart ==
  \A q, o \in Publishers :
    cmd[q] # NoFile /\ cmd[o] # NoFile /\ cmd[q].run = cmd[o].run
      => q = o \/ cmd[q].run \in shared

ProvenSoFar(q) ==
  pc[q] \in AddSteps =>
    /\ cmd[q].passport \in Derivable
    /\ cmd[q].run \notin shared =>
         /\ pc[q] \in {"t.json", "judge p.json", "judge t.json"} =>
              StagedFile(q, "p.json") \in {cmd[q].passport, NoFile}
         /\ pc[q] \in {"judge p.json", "judge t.json"} =>
              StagedFile(q, "t.json") \in {cmd[q].passport, NoFile}
         /\ pc[q] \in {"judge t.json", "sweep"} \cup AfterProof =>
              cmd[q].passport \in Verifies
         /\ pc[q] \in {"sweep"} \cup AfterProof => cmd[q].passport \in TwinRefused

ProofsOK == Apart /\ \A q \in Publishers : ProvenSoFar(q)

NumberingOK ==
  /\ ledger # Torn => WellNumbered(ledger)
  /\ \A q \in Publishers : pc[q] \in AfterLoad => WellNumbered(view[q])

\* With one command alive at a time, the ledger it loaded is still the ledger
\* when it writes, and the digest it took is of the record on disk.
ViewsOK ==
  \A q \in Publishers :
    /\ pc[q] \in Writing => ledger # Torn /\ view[q] = ledger
    /\ pc[q] = "ledger" => digest[q] = records[RecordId(q)]

\* What a command already wrote, it still finds when it goes on; and no claim
\* of the ledger cites evidence that is not in it.
WritesOK ==
  /\ ledger # Torn =>
       \A c \in ledger.claims : \E e \in ledger.evidence : e.id = c.evidence
  /\ \A q \in Publishers :
       /\ pc[q] \in {"run-passport.tampered.json", "target-after", "record"} =>
            artifacts[cmd[q].run]["run-passport.json"] = cmd[q].passport
       /\ pc[q] \in {"target-after", "record"} =>
            artifacts[cmd[q].run]["run-passport.tampered.json"] = cmd[q].passport
       /\ pc[q] \in {"digest", "ledger"} =>
            /\ records[RecordId(q)].passport = cmd[q].passport
            /\ records[RecordId(q)].twin = cmd[q].passport
            /\ records[RecordId(q)].twinRefused

\* A command that has its plan: add-run past derived_plan.
Publishing(q) == \/ pc[q] \in {"readme", "runs.md", "passport-spec"}
                 \/ pc[q] = "manifest" /\ cmd[q] # NoFile

\* The run is published bit by bit: its files, a record of them, then the ledger's
\* claim about them.
WholeOK ==
  \A q \in Publishers :
    /\ pc[q] \in {"record", "digest", "ledger"} =>
         \A n \in Names : artifacts[cmd[q].run][n] = ArtifactBytes(cmd[q], n)
    /\ pc[q] \in {"digest", "ledger"} => records[RecordId(q)] = RecordOf(cmd[q].run)
    /\ pc[q] = "derive" \/ Publishing(q) => Whole(cmd[q])

\* Whatever was killed, at most one record lies there that the ledger does not index,
\* under the identifier that the next command overwrites.
Filed == {i \in Ids : records[i] # NoFile}
Indexed == {e.id : e \in ledger.evidence}
RecordsOK ==
  /\ ledger # Torn => /\ Indexed \subseteq Filed
                      /\ Filed \subseteq Indexed \cup {NextIdentifier(ledger.evidence)}
  /\ \A q \in Publishers :
       pc[q] = "derive" \/ Publishing(q) => ledger # Torn /\ Filed = Indexed

\* What was planned is still what the tree derives, and what was written of it is there.
PlansOK ==
  \A q \in Publishers : Publishing(q) =>
    /\ plan[q] = [readme |-> ClaimRows, runsIndex |-> RunsIndexText, manifest |-> Suite[corpus]]
    /\ \A r \in Runs : artifacts[r]["run-passport.json"] # Torn
    /\ {Provokes[c] : c \in CasesOf(Suite[corpus])} \cup NotReachable = Declared
    /\ pc[q] # "readme" => readme = plan[q].readme
    /\ pc[q] \in {"passport-spec", "manifest"} => runsIndex = plan[q].runsIndex
    /\ pc[q] = "manifest" => passportSpec = Declared

\* generate-conformance removes everything, then writes nothing but its suite.
SuiteOK ==
  \A q \in Publishers :
    /\ pc[q] \in {"idle", "clear", "vectors"} => cmd[q] = NoFile
    /\ pc[q] \in {"clear", "vectors"} => plan[q] = [manifest |-> Suite[corpus]]
    /\ pc[q] = "vectors" => \A i \in Inputs :
         vectors[i] = NoFile \/ (i \in DOMAIN Suite[corpus] /\ vectors[i] = Suite[corpus][i])
    /\ pc[q] = "manifest" /\ cmd[q] = NoFile =>
         plan[q] = [manifest |-> Suite[corpus]] /\ VectorsCurrent

\* A command that began on an accepted tree, in a new directory, has changed nothing
\* before its first file, and its run is not in the index before the index is written.
OriginOK ==
  /\ DOMAIN origin = Publishers
  /\ \A q \in Publishers : origin[q] # NoFile =>
       /\ cmd[q] # NoFile
       /\ pc[q] \in Proving \cup {"load", "run-passport.json"} =>
            tree = origin[q]
       /\ pc[q] \notin {"passport-spec", "manifest"} =>
            \A x \in Content : <<cmd[q].run, x>> \notin runsIndex

\* The inductive invariant with one publisher; its first three parts are inductive
\* for any number of them.
IInv == /\ LocalsOK /\ ProofsOK /\ NumberingOK
        /\ ViewsOK /\ WritesOK /\ WholeOK /\ RecordsOK /\ PlansOK /\ SuiteOK /\ OriginOK

-----------------------------------------------------------------------------
(* The public record that the tree carries, as PublicRecord promises it.   *)

PublishedClaim(c) ==
  [id |-> c.id, passport |-> c.statement,
   evidence |-> (CHOOSE e \in ledger.evidence : e.id = c.evidence).sha256]

Claims == IF ledger = Torn THEN {} ELSE {PublishedClaim(c) : c \in ledger.claims}

Abstract == INSTANCE PublicRecord WITH
  Provable <- Provable,
  Initial <- {[id |-> 1, passport |-> BasePassport, evidence |-> BaseRecord]},
  published <- Claims,
  lost <- (ledger = Torn)

\* Every step of every file write, crash and retry is one publication of the
\* abstract record, its loss, or nothing.
ImplementsPublicRecord == Abstract!Spec
==============================================================================
