-------------------------- MODULE PublicationProofs --------------------------
(***************************************************************************)
(* Safety of Publication for every set of publishers, runs, passports and  *)
(* corpora.  For any number of concurrent commands: types, numbered        *)
(* ledgers, and proven artifacts wherever no two commands were alive at    *)
(* one run number.  With commands run one at a time, as docs and tests run *)
(* them, and killed anywhere, the ledger describes the records on disk at  *)
(* every moment, the claims with their evidence implement PublicRecord,    *)
(* and a command that ends leaves a tree that is as it was, refused or     *)
(* whole.  Two commands that share a ledger break these three, so the      *)
(* hypothesis is needed.                                                   *)
(***************************************************************************)
EXTENDS Publication, TLAPS

-----------------------------------------------------------------------------
(* Identifiers.                                                            *)

\* Max + 1 over the identifiers 1 .. k is k + 1.
LEMMA NextOfNumbered ==
  ASSUME NEW entries, NEW k \in Nat, {e.id : e \in entries} = 1 .. k
  PROVE  NextIdentifier(entries) = 1 + k
<1>1. {0} \cup {e.id : e \in entries} = 0 .. k
  OBVIOUS
<1>2. Greatest(0 .. k) = k
  <2>1. k \in 0 .. k /\ \A m \in 0 .. k : m <= k
    OBVIOUS
  <2>2. \A n \in 0 .. k : (\A m \in 0 .. k : m <= n) => n = k
    <3> TAKE n \in 0 .. k
    <3> HAVE \A m \in 0 .. k : m <= n
    <3>1. k <= n /\ n <= k
      BY <2>1
    <3> QED
      BY <3>1
  <2> QED
    BY <2>1, <2>2 DEF Greatest
<1>3. Greatest({0} \cup {e.id : e \in entries}) = k
  BY <1>1, <1>2, Zenon
<1> QED
  BY <1>3, Zenon DEF NextIdentifier

\* An entry with the next identifier keeps a list numbered, and its
\* identifier was in no entry before.
LEMMA NextKeepsNumbered ==
  ASSUME NEW entries, Numbered(entries), NEW x,
         x.id = NextIdentifier(entries), NextIdentifier(entries) \in Ids
  PROVE  /\ Numbered(entries \cup {x})
         /\ \A e \in entries : e.id # x.id
<1>1. PICK k \in 0 .. MaxId : {e.id : e \in entries} = 1 .. k
  BY DEF Numbered
<1>2. x.id = 1 + k /\ k + 1 \in 0 .. MaxId
  <2>1. NextIdentifier(entries) = 1 + k
    BY <1>1, NextOfNumbered, ConstantsAssumption
  <2> QED
    BY <2>1, ConstantsAssumption DEF Ids
<1>3. \A e \in entries : e.id \in 1 .. k
  BY <1>1
<1>4. \A e \in entries : e.id # x.id
  BY <1>2, <1>3
<1>5. {e.id : e \in entries \cup {x}} = 1 .. (k + 1)
  <2>1. {e.id : e \in entries \cup {x}} = {e.id : e \in entries} \cup {x.id}
    OBVIOUS
  <2>2. (1 .. k) \cup {k + 1} = 1 .. (k + 1)
    BY <1>2
  <2> QED
    BY <1>1, <1>2, <2>1, <2>2
<1>6. \A d, e \in entries \cup {x} : d.id = e.id => d = e
  BY <1>4 DEF Numbered
<1> QED
  BY <1>2, <1>4, <1>5, <1>6 DEF Numbered

-----------------------------------------------------------------------------
(* Types.                                                                  *)

USE DEF At, Goto, tree, sources, derived, around, held

\* A record is made of what the run directory holds.
LEMMA RecordOfType ==
  ASSUME TypeOK, NEW r \in Runs
  PROVE  RecordOf(r) \in Record
BY DEF TypeOK, RecordOf, Record, Names

\* The index names published run directories and their passports.
LEMMA RunsIndexType ==
  ASSUME TypeOK
  PROVE  RunsIndexText \in SUBSET (Runs \X Content)
BY DEF TypeOK, RunsIndexText, PublishedPassports, Names

LEMMA InitLocals == Init => TypeOK /\ LocalsOK
<1> SUFFICES ASSUME Init PROVE TypeOK /\ LocalsOK
  OBVIOUS
<1>1. BaseRecord \in Record /\ BaseLedger \in Ledger
  BY ConstantsAssumption
  DEF BaseRecord, BaseLedger, Record, RecordFile, Ledger, Evidence, Claim, Content, Ids
<1>2. artifacts \in [Runs -> [Names -> Content]] /\ staging \in [Runs -> [Staged -> Content] \cup {NoFile}]
  BY DEF Init, Content
<1>3. vectors \in [Inputs -> Cases \cup {NoFile, Torn}]
  BY ConstantsAssumption DEF Init, VectorsOf
<1>4. readme \in SUBSET Claim
  BY <1>1 DEF Init, Ledger
<1>5. manifest \in Suites /\ corpus \in Corpora
  BY DEF Init, Suites
<1>6. records \in [Ids -> RecordFile]
  BY <1>1 DEF Init, RecordFile
<1>7. crashes \in 0 .. MaxCrashes
  BY ConstantsAssumption DEF Init
<1>8. TypeOK
  <2>1. pc \in [Publishers -> Steps]
    BY DEF Init, Steps
  <2> QED
    BY <1>1, <1>2, <1>3, <1>4, <1>5, <1>6, <1>7, <2>1 DEF Init, TypeOK, RecordFile
<1>9. LocalsOK
  BY DEF Init, LocalsOK, AddSteps, AfterLoad, AfterProof, Proving
<1> QED
  BY <1>8, <1>9

\* A command that ends leaves well-typed locals.
LEMMA ExitLocals ==
  ASSUME TypeOK, LocalsOK, NEW q \in Publishers, Exit(q)
  PROVE  /\ pc' \in [Publishers -> Steps]
         /\ cmd' \in [Publishers -> Command \cup {NoFile}]
         /\ view' \in [Publishers -> Ledger \cup {NoFile}]
         /\ digest' \in [Publishers -> RecordFile]
         /\ plan' \in [Publishers -> AddRunPlan \cup GeneratePlan \cup {NoFile}]
         /\ listed' \in [Publishers -> (SUBSET Staged) \cup {NoFile}]
         /\ LocalsOK'
<1>1. /\ pc' \in [Publishers -> Steps]
      /\ cmd' \in [Publishers -> Command \cup {NoFile}]
      /\ view' \in [Publishers -> Ledger \cup {NoFile}]
      /\ digest' \in [Publishers -> RecordFile]
      /\ plan' \in [Publishers -> AddRunPlan \cup GeneratePlan \cup {NoFile}]
      /\ listed' \in [Publishers -> (SUBSET Staged) \cup {NoFile}]
  BY DEF Exit, TypeOK, Steps, RecordFile
<1>2. LocalsOK'
  <2> SUFFICES ASSUME NEW o \in Publishers, pc'[o] # "idle"
               PROVE  /\ o # q /\ pc'[o] = pc[o] /\ cmd'[o] = cmd[o]
                      /\ view'[o] = view[o] /\ plan'[o] = plan[o]
    BY DEF LocalsOK, AddSteps, AfterLoad, AfterProof, Proving, RecordId, ClaimId
  <2> QED
    BY DEF Exit, TypeOK
<1> QED
  BY <1>1, <1>2

\* A step that proves a pair touches its staging directory and nothing of the tree;
\* the command moves on among these steps, reaches the ledger, or ends.
LEMMA ProvingMoves ==
  ASSUME NEW q \in Publishers, ProveStep(q)
  PROVE  /\ pc[q] \in Proving
         /\ UNCHANGED <<tree, corpus, crashes, shared>>
         /\ \/ staging' = staging
            \/ \E v : staging' = [staging EXCEPT ![cmd[q].run] = v]
         /\ \/ Exit(q)
            \/ /\ UNCHANGED <<cmd, view, digest, plan, origin>>
               /\ \/ pc' = pc
                  \/ \E s \in Proving \cup {"load"} : pc' = [pc EXCEPT ![q] = s]
<1> DEFINE Goal ==
         /\ pc[q] \in Proving
         /\ UNCHANGED <<tree, corpus, crashes, shared>>
         /\ \/ staging' = staging
            \/ \E v : staging' = [staging EXCEPT ![cmd[q].run] = v]
         /\ \/ Exit(q)
            \/ /\ UNCHANGED <<cmd, view, digest, plan, origin>>
               /\ \/ pc' = pc
                  \/ \E s \in Proving \cup {"load"} : pc' = [pc EXCEPT ![q] = s]
<1> USE DEF Proving, Outside, StagingOf
<1>1. CASE MakeStaging(q)
  <2>1. \E v : staging' = [staging EXCEPT ![cmd[q].run] = v]
    BY <1>1, Zenon DEF MakeStaging
  <2> QED
    BY <1>1, <2>1 DEF MakeStaging
<1>2. ASSUME NEW f \in Staged, StageFile(q, f) PROVE Goal
  <2>1. f \in {"p.json", "t.json"} /\ AfterStaged[f] \in Proving
    BY DEF Staged, AfterStaged
  <2>2. \/ staging' = staging
        \/ staging' = [staging EXCEPT ![cmd[q].run] =
                          [staging[cmd[q].run] EXCEPT ![f] = cmd[q].passport]]
    BY <1>2 DEF StageFile
  <2>3. \E s \in Proving : pc' = [pc EXCEPT ![q] = s]
    BY <1>2, <2>1 DEF StageFile
  <2> QED
    BY <1>2, <2>1, <2>2, <2>3, Zenon DEF StageFile
<1>3. ASSUME NEW f \in Staged, JudgeFile(q, f) PROVE Goal
  BY <1>3 DEF JudgeFile
<1>4. CASE ListStaged(q)
  BY <1>4 DEF ListStaged, Sweeps
<1>5. CASE UnlinkStaged(q)
  <2>1. \E v : staging' = [staging EXCEPT ![cmd[q].run] = v]
    <3>1. PICK f \in listed[q] :
            staging' = [staging EXCEPT ![cmd[q].run] = [staging[cmd[q].run] EXCEPT ![f] = NoFile]]
      BY <1>5 DEF UnlinkStaged
    <3> QED
      BY <3>1, Zenon
  <2> QED
    BY <1>5, <2>1 DEF UnlinkStaged, Sweeps
<1>6. CASE RemoveStaging(q)
  BY <1>6 DEF RemoveStaging, Sweeps
<1>7. CASE SweepFails(q)
  BY <1>7 DEF SweepFails, Sweeps
<1> QED
  BY <1>1, <1>2, <1>3, <1>4, <1>5, <1>6, <1>7 DEF ProveStep

\* Seen by every command: the one that proves its pair is not yet past it.
LEMMA ProvingSteps ==
  ASSUME TypeOK, NEW q \in Publishers, ProveStep(q), NEW o \in Publishers
  PROVE  \/ pc'[o] \in Proving \cup {"load", "idle"}
         \/ /\ pc'[o] = pc[o] /\ cmd'[o] = cmd[o] /\ view'[o] = view[o]
            /\ digest'[o] = digest[o]
<1>1. CASE Exit(q)
  BY <1>1 DEF Exit, TypeOK
<1>2. CASE ~ Exit(q)
  BY <1>2, ProvingMoves DEF TypeOK
<1> QED
  BY <1>1, <1>2

LEMMA ProveStepLocals ==
  ASSUME TypeOK, LocalsOK, NEW q \in Publishers, ProveStep(q)
  PROVE  TypeOK' /\ LocalsOK'
<1>1. pc[q] \in AddSteps /\ cmd[q] \in Command
  BY ProvingMoves DEF LocalsOK, Proving, AddSteps, Steps
<1>2. cmd[q].run \in Runs /\ cmd[q].passport \in Content /\ NoFile \in Content
  BY <1>1 DEF Command, Content
<1>3. staging' \in [Runs -> [Staged -> Content] \cup {NoFile}]
  <2> DEFINE dir == staging[cmd[q].run]
             Typed == staging' \in [Runs -> [Staged -> Content] \cup {NoFile}]
  <2> SUFFICES Typed
    OBVIOUS
  <2>1. staging \in [Runs -> [Staged -> Content] \cup {NoFile}]
    BY DEF TypeOK
  <2>2. ASSUME NEW v \in [Staged -> Content] \cup {NoFile},
               staging' = [staging EXCEPT ![cmd[q].run] = v]
        PROVE  Typed
    BY <1>2, <2>1, <2>2
  <2>3. CASE MakeStaging(q)
    <3>1. staging' = [staging EXCEPT ![cmd[q].run] =
                        IF dir = NoFile THEN [f \in Staged |-> NoFile] ELSE dir]
      BY <2>3 DEF MakeStaging, StagingOf
    <3>2. [f \in Staged |-> NoFile] \in [Staged -> Content]
      BY <1>2
    <3> QED
      BY <1>2, <2>1, <2>2, <3>1, <3>2
  <2>4. ASSUME NEW f \in Staged, StageFile(q, f)
        PROVE  Typed
    <3>1. CASE staging' = staging
      BY <2>1, <3>1
    <3>2. CASE staging' # staging
      <4>1. /\ dir # NoFile
            /\ staging' = [staging EXCEPT ![cmd[q].run] = [dir EXCEPT ![f] = cmd[q].passport]]
        BY <2>4, <3>2 DEF StageFile, StagingOf
      <4>2. [dir EXCEPT ![f] = cmd[q].passport] \in [Staged -> Content]
        BY <1>2, <2>1, <4>1
      <4> QED
        BY <2>2, <4>1, <4>2
    <3> QED
      BY <3>1, <3>2
  <2>5. CASE UnlinkStaged(q)
    <3>1. PICK f \in listed[q] :
            /\ StagedFile(q, f) # NoFile
            /\ staging' = [staging EXCEPT ![cmd[q].run] = [dir EXCEPT ![f] = NoFile]]
      BY <2>5 DEF UnlinkStaged, StagingOf
    <3>2. dir # NoFile
      BY <3>1 DEF StagedFile, StagingOf
    <3>3. [dir EXCEPT ![f] = NoFile] \in [Staged -> Content]
      BY <1>2, <2>1, <3>2
    <3> QED
      BY <2>2, <3>1, <3>3
  <2>6. CASE RemoveStaging(q)
    <3>1. staging' = [staging EXCEPT ![cmd[q].run] = NoFile]
      BY <2>6 DEF RemoveStaging, StagingOf
    <3> QED
      BY <2>2, <3>1
  <2>7. CASE UNCHANGED staging
    BY <2>1, <2>7
  <2> QED
    BY <2>3, <2>4, <2>5, <2>6, <2>7
    DEF ProveStep, JudgeFile, ListStaged, SweepFails
<1>4. CASE Exit(q)
  BY <1>3, <1>4, ProvingMoves, ExitLocals DEF TypeOK
<1>5. CASE ~ Exit(q)
  <2>1. listed' \in [Publishers -> (SUBSET Staged) \cup {NoFile}]
    <3>1. CASE UNCHANGED listed
      BY <3>1 DEF TypeOK
    <3>2. CASE ListStaged(q)
      BY <3>2 DEF ListStaged, TypeOK
    <3>3. CASE UnlinkStaged(q)
      <4>1. listed[q] \in SUBSET Staged
        BY <3>3 DEF UnlinkStaged, TypeOK
      <4>2. PICK f \in listed[q] : listed' = [listed EXCEPT ![q] = listed[q] \ {f}]
        BY <3>3 DEF UnlinkStaged
      <4> QED
        BY <4>1, <4>2 DEF TypeOK
    <3> QED
      BY <1>5, <3>1, <3>2, <3>3
      DEF ProveStep, MakeStaging, StageFile, JudgeFile, RemoveStaging, SweepFails
  <2> DEFINE s == pc'[q]
  <2>2. s \in Proving \cup {"load"} /\ pc' = [pc EXCEPT ![q] = s]
    BY <1>5, ProvingMoves DEF TypeOK
  <2> HIDE DEF s
  <2>3. UNCHANGED <<tree, corpus, crashes, shared, cmd, view, digest, plan, origin>>
    BY <1>5, ProvingMoves
  <2>4. s \in Steps /\ s \notin AfterLoad
        /\ s \notin {"readme", "runs.md", "passport-spec", "clear", "vectors", "manifest"}
    BY <2>2 DEF Proving, Steps, AfterLoad, AfterProof, Proving, AddSteps, Names
  <2>5. TypeOK'
    BY <1>3, <2>1, <2>2, <2>3, <2>4 DEF TypeOK
  <2>6. ASSUME NEW o \in Publishers
        PROVE  \/ pc'[o] = pc[o]
               \/ o = q /\ pc'[o] = s
    BY <2>2 DEF TypeOK, s
  <2>7. LocalsOK'
    BY <1>1, <2>3, <2>4, <2>6 DEF LocalsOK, RecordId, ClaimId
  <2> QED
    BY <2>5, <2>7
<1> QED
  BY <1>4, <1>5

\* A command that generates a suite goes on with the locals it has.
LEMMA FrameLocals ==
  ASSUME LocalsOK, UNCHANGED <<cmd, view, plan>>,
         \A o \in Publishers :
           \/ pc'[o] = pc[o]
           \/ /\ pc[o] \in {"clear", "vectors"}
              /\ pc'[o] \in {"vectors", "manifest"}
  PROVE  LocalsOK'
<1> SUFFICES ASSUME NEW o \in Publishers
             PROVE  (/\ pc[o] \in AddSteps => cmd[o] \in Command
                     /\ pc[o] \in AfterLoad => /\ view[o] \in Ledger
                                               /\ RecordId(o) \in Ids
                                               /\ ClaimId(o) \in Ids
                     /\ pc[o] \in {"readme", "runs.md", "passport-spec"} =>
                          plan[o] \in AddRunPlan
                     /\ pc[o] \in {"clear", "vectors"} => plan[o] \in GeneratePlan
                     /\ pc[o] = "manifest" => plan[o] \in AddRunPlan \cup GeneratePlan)'
  BY DEF LocalsOK
<1>1. CASE pc'[o] = pc[o]
  BY <1>1 DEF LocalsOK, RecordId, ClaimId
<1>2. CASE pc[o] \in {"clear", "vectors"} /\ pc'[o] \in {"vectors", "manifest"}
  <2>1. pc'[o] \notin AddSteps /\ pc'[o] \notin AfterLoad
    BY <1>2 DEF AddSteps, AfterLoad, AfterProof
  <2> QED
    BY <1>2, <2>1 DEF LocalsOK
<1> QED
  BY <1>1, <1>2

\* Every step keeps the types of the tree and what the locals hold.
LEMMA NextLocals ==
  TypeOK /\ LocalsOK /\ [Next]_vars => TypeOK' /\ LocalsOK'
<1> SUFFICES ASSUME TypeOK, LocalsOK, [Next]_vars
             PROVE  TypeOK' /\ LocalsOK'
  OBVIOUS
<1> USE DEF AddSteps, AfterProof, Proving, AfterLoad
<1>1. ASSUME NEW q \in Publishers, NEW r \in Runs, NEW p \in Passports,
             NEW a \in Passports, BeginAddRun(q, r, p, a)
      PROVE  TypeOK' /\ LocalsOK'
  <2>1. [run |-> r, passport |-> p, after |-> a] \in Command
    BY DEF Command
  <2>2. TypeOK'
    BY <1>1, <2>1 DEF BeginAddRun, TypeOK, Steps
  <2>3. LocalsOK'
    BY <1>1, <2>1 DEF BeginAddRun, TypeOK, LocalsOK, RecordId, ClaimId, Steps, Names
  <2> QED
    BY <2>2, <2>3
<1>2. ASSUME NEW q \in Publishers, ProveStep(q)
      PROVE  TypeOK' /\ LocalsOK'
  BY <1>2, ProveStepLocals
<1>3. ASSUME NEW q \in Publishers, TearStaged(q)
      PROVE  TypeOK' /\ LocalsOK'
  <2>1. staging' \in [Runs -> [Staged -> Content] \cup {NoFile}]
    <3>1. cmd[q] \in Command
      BY <1>3 DEF TearStaged, Staged, LocalsOK, Steps
    <3> QED
      BY <1>3, <3>1 DEF TearStaged, StagingOf, TypeOK, Content, Command
  <2>2. crashes' \in 0 .. MaxCrashes
    BY <1>3, ConstantsAssumption DEF TearStaged, Killed, TypeOK
  <2> QED
    BY <1>3, <2>1, <2>2, ExitLocals DEF TearStaged, Killed, TypeOK
<1>4. ASSUME NEW q \in Publishers, LoadLedger(q)
      PROVE  TypeOK' /\ LocalsOK'
  <2>1. CASE Exit(q)
    BY <1>4, <2>1, ExitLocals DEF LoadLedger, TypeOK
  <2>2. CASE ~ Exit(q)
    <3>1. TypeOK'
      <4>1. /\ UNCHANGED <<tree, around, cmd, digest, plan, listed>>
            /\ view' = [view EXCEPT ![q] = ledger] /\ ledger \in Ledger
            /\ pc' = [pc EXCEPT ![q] = "run-passport.json"]
        BY <1>4, <2>2 DEF LoadLedger, TypeOK
      <4> QED
        BY <4>1 DEF TypeOK, Steps, Names
    <3>2. /\ UNCHANGED <<cmd, plan>>
          /\ pc[q] = "load" /\ pc'[q] = "run-passport.json"
          /\ view'[q] = ledger /\ ledger \in Ledger
          /\ NextIdentifier(ledger.evidence) \in Ids /\ NextIdentifier(ledger.claims) \in Ids
          /\ \A o \in Publishers \ {q} : pc'[o] = pc[o] /\ view'[o] = view[o]
      BY <1>4, <2>2 DEF LoadLedger, TypeOK
    <3>3. ASSUME NEW o \in Publishers, pc'[o] \in AfterLoad
          PROVE  view'[o] \in Ledger /\ RecordId(o)' \in Ids /\ ClaimId(o)' \in Ids
      <4>1. CASE o = q
        BY <3>2, <4>1 DEF RecordId, ClaimId
      <4>2. CASE o # q
        BY <3>2, <3>3, <4>2 DEF LocalsOK, RecordId, ClaimId
      <4> QED
        BY <4>1, <4>2
    <3>4. LocalsOK'
      BY <3>2, <3>3 DEF LocalsOK, Steps, Names
    <3> QED
      BY <3>1, <3>4
  <2> QED
    BY <2>1, <2>2
<1>5. ASSUME NEW q \in Publishers, NEW n \in Names, WriteArtifact(q, n)
      PROVE  TypeOK' /\ LocalsOK'
  <2>1. /\ cmd[q].run \in Runs
        /\ ArtifactBytes(cmd[q], n) \in Content
        /\ AfterArtifact[n] \in Names \cup {"record"}
    BY <1>5 DEF WriteArtifact, LocalsOK, Steps, Names, Command, Content,
                ArtifactBytes, AfterArtifact, TypeOK
  <2>8. TypeOK'
    BY <1>5, <2>1 DEF WriteArtifact, TypeOK, Steps
  <2>9. LocalsOK'
    BY <1>5, <2>1 DEF WriteArtifact, TypeOK, LocalsOK, RecordId, ClaimId, Steps, Names
  <2> QED
    BY <2>8, <2>9
<1>6. ASSUME NEW q \in Publishers, WriteRecord(q)
      PROVE  TypeOK' /\ LocalsOK'
  <2>1. RecordOf(cmd[q].run) \in RecordFile /\ RecordId(q) \in Ids
    BY <1>6, RecordOfType DEF WriteRecord, LocalsOK, Steps, Command, RecordFile
  <2>8. TypeOK'
    BY <1>6, <2>1 DEF WriteRecord, Exit, TypeOK, LocalsOK, Steps
  <2>9. LocalsOK'
    BY <1>6 DEF WriteRecord, Exit, TypeOK, LocalsOK, RecordId, ClaimId, Steps, Names
  <2> QED
    BY <2>8, <2>9
<1>7. ASSUME NEW q \in Publishers, DigestRecord(q)
      PROVE  TypeOK' /\ LocalsOK'
  <2>1. RecordId(q) \in Ids
    BY <1>7 DEF DigestRecord, LocalsOK, Steps
  <2>8. TypeOK'
    BY <1>7, <2>1 DEF DigestRecord, Exit, TypeOK, LocalsOK, Steps
  <2>9. LocalsOK'
    BY <1>7 DEF DigestRecord, Exit, TypeOK, LocalsOK, RecordId, ClaimId, Steps, Names
  <2> QED
    BY <2>8, <2>9
<1>8. ASSUME NEW q \in Publishers, WriteLedger(q)
      PROVE  TypeOK' /\ LocalsOK'
  <2>1. NewLedger(q) \in Ledger
    <3>1. /\ view[q] \in Ledger /\ RecordId(q) \in Ids /\ ClaimId(q) \in Ids
          /\ cmd[q].passport \in Passports /\ digest[q] \in RecordFile
      BY <1>8 DEF WriteLedger, LocalsOK, TypeOK, Steps, Command
    <3>2. [id |-> RecordId(q), sha256 |-> digest[q]] \in Evidence
      BY <3>1 DEF Evidence
    <3>3. [id |-> ClaimId(q), statement |-> cmd[q].passport,
           evidence |-> RecordId(q)] \in Claim
      BY <3>1 DEF Claim
    <3> QED
      BY <3>1, <3>2, <3>3 DEF NewLedger, Ledger
  <2>8. TypeOK'
    BY <1>8, <2>1 DEF WriteLedger, Exit, TypeOK, LocalsOK, Steps
  <2>9. LocalsOK'
    BY <1>8 DEF WriteLedger, Exit, TypeOK, LocalsOK, RecordId, ClaimId, Steps, Names
  <2> QED
    BY <2>8, <2>9
<1>9. ASSUME NEW q \in Publishers, Derive(q)
      PROVE  TypeOK' /\ LocalsOK'
  <2>1. CASE Exit(q)
    BY <1>9, <2>1, ExitLocals DEF Derive, TypeOK
  <2>2. CASE ~ Exit(q)
    <3> DEFINE new == [readme |-> ClaimRows, runsIndex |-> RunsIndexText,
                       manifest |-> Suite[corpus]]
    <3>1. ledger # Torn
      BY <1>9, <2>2 DEF Derive
    <3>2. new \in AddRunPlan
      BY <3>1, RunsIndexType DEF TypeOK, Suites, AddRunPlan, Ledger, ClaimRows
    <3> HIDE DEF new
    <3>3. /\ plan' = [plan EXCEPT ![q] = new]
          /\ Goto(q, "readme")
          /\ UNCHANGED <<cmd, view, digest, listed, origin, staging, corpus, crashes, shared>>
      BY <1>9, <2>2 DEF Derive, new
    <3>4. TypeOK'
      <4>1. plan' \in [Publishers -> AddRunPlan \cup GeneratePlan \cup {NoFile}]
        BY <3>2, <3>3 DEF TypeOK
      <4>2. pc' \in [Publishers -> Steps]
        BY <3>3 DEF TypeOK, Steps
      <4>3. UNCHANGED <<artifacts, staging, records, ledger, readme, runsIndex,
                        passportSpec, vectors, manifest, corpus, crashes>>
        BY <1>9 DEF Derive
      <4> QED
        BY <3>3, <4>1, <4>2, <4>3 DEF TypeOK
    <3>5. LocalsOK'
      BY <1>9, <3>2, <3>3 DEF Derive, TypeOK, LocalsOK, RecordId, ClaimId, Steps, Names
    <3> QED
      BY <3>4, <3>5
  <2> QED
    BY <2>1, <2>2
<1>10. ASSUME NEW q \in Publishers, WriteReadme(q)
      PROVE  TypeOK' /\ LocalsOK'
  <2>8. TypeOK'
    BY <1>10 DEF WriteReadme, TypeOK, LocalsOK, AddRunPlan, Steps
  <2>9. LocalsOK'
    BY <1>10 DEF WriteReadme, Exit, TypeOK, LocalsOK, RecordId, ClaimId, Steps, Names
  <2> QED
    BY <2>8, <2>9
<1>11. ASSUME NEW q \in Publishers, WriteRunsIndex(q)
      PROVE  TypeOK' /\ LocalsOK'
  <2>8. TypeOK'
    BY <1>11 DEF WriteRunsIndex, TypeOK, LocalsOK, AddRunPlan, Steps
  <2>9. LocalsOK'
    BY <1>11 DEF WriteRunsIndex, Exit, TypeOK, LocalsOK, RecordId, ClaimId, Steps, Names
  <2> QED
    BY <2>8, <2>9
<1>20. ASSUME NEW q \in Publishers, WritePassportSpec(q)
      PROVE  TypeOK' /\ LocalsOK'
  <2>8. TypeOK'
    BY <1>20 DEF WritePassportSpec, TypeOK, LocalsOK, Steps
  <2>9. LocalsOK'
    BY <1>20 DEF WritePassportSpec, Exit, TypeOK, LocalsOK, RecordId, ClaimId, Steps, Names
  <2> QED
    BY <2>8, <2>9
<1>12. ASSUME NEW q \in Publishers, WriteManifest(q)
      PROVE  TypeOK' /\ LocalsOK'
  <2>1. manifest' \in Suites
    BY <1>12 DEF WriteManifest, LocalsOK, AddRunPlan, GeneratePlan
  <2> QED
    BY <1>12, <2>1, ExitLocals DEF WriteManifest, TypeOK
<1>13. ASSUME NEW q \in Publishers, BeginGenerate(q)
      PROVE  TypeOK' /\ LocalsOK'
  <2>1. [manifest |-> Suite[corpus]] \in GeneratePlan
    BY DEF TypeOK, Suites, GeneratePlan
  <2>2. TypeOK'
    BY <1>13, <2>1 DEF BeginGenerate, TypeOK, Steps
  <2>3. LocalsOK'
    BY <1>13, <2>1 DEF BeginGenerate, TypeOK, LocalsOK, RecordId, ClaimId, Steps, Names
  <2> QED
    BY <2>2, <2>3
<1>14. ASSUME NEW q \in Publishers, ClearVector(q)
      PROVE  TypeOK' /\ LocalsOK'
  <2>8. TypeOK'
    BY <1>14 DEF ClearVector, Exit, TypeOK, LocalsOK, Steps
  <2>1. UNCHANGED <<cmd, view, plan>>
        /\ \A o \in Publishers : pc'[o] = pc[o] \/ (pc[o] = "clear" /\ pc'[o] = "vectors")
    BY <1>14 DEF ClearVector, TypeOK
  <2>9. LocalsOK'
    BY <2>1, FrameLocals DEF Steps, Names
  <2> QED
    BY <2>8, <2>9
<1>15. ASSUME NEW q \in Publishers, WriteVector(q)
      PROVE  TypeOK' /\ LocalsOK'
  <2>1. \A i \in DOMAIN plan[q].manifest : plan[q].manifest[i] \in Cases
    BY <1>15, ConstantsAssumption DEF WriteVector, LocalsOK, GeneratePlan, Suites
  <2>8. TypeOK'
    BY <1>15, <2>1 DEF WriteVector, Exit, TypeOK, LocalsOK, Steps
  <2>2. UNCHANGED <<cmd, view, plan>>
        /\ \A o \in Publishers : pc'[o] = pc[o] \/ (pc[o] = "vectors" /\ pc'[o] = "manifest")
    BY <1>15 DEF WriteVector, TypeOK
  <2>9. LocalsOK'
    BY <2>2, FrameLocals DEF Steps, Names
  <2> QED
    BY <2>8, <2>9
<1>16. ASSUME NEW q \in Publishers, Crash(q)
      PROVE  TypeOK' /\ LocalsOK'
  <2>1. crashes' \in 0 .. MaxCrashes
    BY <1>16, ConstantsAssumption DEF Crash, Killed, TypeOK
  <2> QED
    BY <1>16, <2>1, ExitLocals DEF Crash, Killed, TypeOK
<1>17. ASSUME NEW q \in Publishers, TearWrite(q)
      PROVE  TypeOK' /\ LocalsOK'
  <2>1. /\ Exit(q)
        /\ crashes' \in 0 .. MaxCrashes
        /\ UNCHANGED <<staging, corpus, shared>>
    BY <1>17, ConstantsAssumption DEF TearWrite, Killed, TypeOK
  <2>2. /\ artifacts' \in [Runs -> [Names -> Content]]
        /\ records' \in [Ids -> RecordFile]
        /\ vectors' \in [Inputs -> Cases \cup {NoFile, Torn}]
    <3>1. artifacts' \in [Runs -> [Names -> Content]]
      <4>1. CASE UNCHANGED artifacts
        BY <4>1 DEF TypeOK
      <4>2. CASE artifacts' = [artifacts EXCEPT ![cmd[q].run][pc[q]] = Torn]
        <5>1. Torn \in Content
          BY DEF Content
        <5>2. artifacts \in [Runs -> [Names -> Content]]
          BY DEF TypeOK
        <5> QED
          BY <4>2, <5>1, <5>2
      <4> QED
        BY <1>17, <4>1, <4>2 DEF TearWrite
    <3>2. records' \in [Ids -> RecordFile]
      BY <1>17 DEF TearWrite, TypeOK, RecordFile
    <3>3. vectors' \in [Inputs -> Cases \cup {NoFile, Torn}]
      BY <1>17 DEF TearWrite, TypeOK
    <3> QED
      BY <3>1, <3>2, <3>3
  <2>3. /\ ledger' \in Ledger \cup {Torn}
        /\ readme' \in (SUBSET Claim) \cup {Torn}
        /\ runsIndex' \in (SUBSET (Runs \X Content)) \cup {Torn}
        /\ manifest' \in Suites \cup {Torn}
        /\ passportSpec' \in {Declared, Torn}
    BY <1>17 DEF TearWrite, TypeOK
  <2>8. TypeOK'
    BY <2>1, <2>2, <2>3, ExitLocals DEF TypeOK
  <2>9. LocalsOK'
    BY <2>1, ExitLocals
  <2> QED
    BY <2>8, <2>9
<1>18. CASE Human
  <2>1. TypeOK'
    BY <1>18 DEF Human, EditCorpus, MirrorClaims, ClaimRows, TypeOK, Ledger
  <2>2. LocalsOK'
    BY <1>18 DEF Human, EditCorpus, MirrorClaims, LocalsOK, RecordId, ClaimId
  <2> QED
    BY <2>1, <2>2
<1>19. CASE UNCHANGED vars
  BY <1>19 DEF vars, TypeOK, LocalsOK, RecordId, ClaimId
<1> QED
  BY <1>1, <1>2, <1>3, <1>4, <1>5, <1>6, <1>7, <1>8, <1>9, <1>10, <1>11, <1>12,
     <1>13, <1>14, <1>15, <1>16, <1>17, <1>18, <1>19, <1>20, ConstantsAssumption
  DEF Next, AddRunStep, GenerateStep

\* Every reachable state is well typed.
THEOREM TypeCorrect == Spec => []TypeOK
<1>1. Spec => [](TypeOK /\ LocalsOK)
  BY InitLocals, NextLocals, PTL DEF Spec
<1> QED
  BY <1>1, PTL

-----------------------------------------------------------------------------
(* Only proven artifacts reach the tree.                                   *)

\* Where two live commands have one run number, the run is known as shared.
LEMMA OthersApart ==
  ASSUME Apart, NEW q \in Publishers, NEW o \in Publishers, o # q,
         cmd[q] \in Command, cmd[o] \in Command, cmd[o].run \notin shared
  PROVE  cmd[o].run # cmd[q].run
BY AbsenceAssumption DEF Apart

\* What one command does to its staging directory tells nothing new of another's
\* proof, unless they share the run.
LEMMA OthersKept ==
  ASSUME TypeOK, LocalsOK, ProofsOK,
         NEW q \in Publishers, NEW o \in Publishers, o # q,
         pc'[o] = pc[o], cmd'[o] = cmd[o], shared \subseteq shared',
         \/ staging' = staging
         \/ cmd[q] \in Command /\ \E v : staging' = [staging EXCEPT ![cmd[q].run] = v]
  PROVE  ProvenSoFar(o)'
<1> SUFFICES ASSUME pc[o] \in AddSteps, cmd[o].run \notin shared
             PROVE  StagedFile(o, "p.json")' = StagedFile(o, "p.json")
                    /\ StagedFile(o, "t.json")' = StagedFile(o, "t.json")
  BY DEF ProofsOK, ProvenSoFar
<1>1. cmd[o] \in Command
  BY DEF LocalsOK
<1>2. staging'[cmd[o].run] = staging[cmd[o].run]
  <2>1. CASE staging' = staging
    BY <2>1
  <2>2. CASE cmd[q] \in Command /\ \E v : staging' = [staging EXCEPT ![cmd[q].run] = v]
    <3>1. cmd[o].run # cmd[q].run /\ cmd[o].run \in Runs
      BY <1>1, <2>2, OthersApart DEF ProofsOK, Command
    <3> QED
      BY <2>2, <3>1 DEF TypeOK
  <2> QED
    BY <2>1, <2>2
<1> QED
  BY <1>2 DEF StagedFile, StagingOf

\* A command that ends keeps what is known of the others.
LEMMA ExitProofs ==
  ASSUME TypeOK, LocalsOK, ProofsOK, NEW q \in Publishers, Exit(q), shared' = shared,
         \/ staging' = staging
         \/ cmd[q] \in Command /\ \E v : staging' = [staging EXCEPT ![cmd[q].run] = v]
  PROVE  ProofsOK'
<1>1. ASSUME NEW o \in Publishers, o # q
      PROVE  pc'[o] = pc[o] /\ cmd'[o] = cmd[o]
  BY <1>1 DEF Exit, TypeOK
<1>2. pc'[q] = "idle" /\ cmd'[q] = NoFile
  BY DEF Exit, TypeOK
<1>3. Apart'
  <2> SUFFICES ASSUME NEW u \in Publishers, NEW o \in Publishers,
                      cmd'[u] # NoFile, cmd'[o] # NoFile, cmd'[u].run = cmd'[o].run
               PROVE  u = o \/ cmd'[u].run \in shared'
    BY DEF Apart
  <2> QED
    BY <1>1, <1>2 DEF ProofsOK, Apart
<1>4. ASSUME NEW o \in Publishers PROVE ProvenSoFar(o)'
  <2>1. CASE o = q
    BY <1>2, <2>1 DEF ProvenSoFar, AddSteps
  <2>2. CASE o # q
    BY <1>1, <2>2, OthersKept
  <2> QED
    BY <2>1, <2>2
<1> QED
  BY <1>3, <1>4 DEF ProofsOK

LEMMA InitProofs == Init => ProofsOK /\ OnlyProvenArtifacts
BY DEF Init, ProofsOK, Apart, ProvenSoFar, OnlyProvenArtifacts, AddSteps, Names

\* A step that starts no command and touches neither the staging directories
\* nor the artifacts keeps every command where its proof put it.
LEMMA FrameProofs ==
  ASSUME ProofsOK, OnlyProvenArtifacts, UNCHANGED <<staging, artifacts, cmd, shared>>,
         \A o \in Publishers :
            \/ pc'[o] = pc[o]
            \/ pc'[o] \notin AddSteps
            \/ pc[o] \in AfterProof /\ pc'[o] \in AfterProof
  PROVE  ProofsOK' /\ OnlyProvenArtifacts'
<1>1. ASSUME NEW o \in Publishers PROVE ProvenSoFar(o)'
  <2>1. StagedFile(o, "p.json")' = StagedFile(o, "p.json")
        /\ StagedFile(o, "t.json")' = StagedFile(o, "t.json")
    BY DEF StagedFile, StagingOf
  <2>2. \A s \in AfterProof : s \in AddSteps /\ s \notin Proving
    BY DEF AfterProof, Proving
  <2> QED
    BY <2>1, <2>2 DEF ProofsOK, ProvenSoFar, Proving
<1> QED
  BY <1>1 DEF ProofsOK, Apart, OnlyProvenArtifacts

\* A command that begins marks the run as shared if another is alive at it.
LEMMA BeginProofs ==
  ASSUME TypeOK, LocalsOK, ProofsOK, OnlyProvenArtifacts,
         NEW q \in Publishers, NEW r \in Runs, NEW p \in Passports,
         NEW a \in Passports, BeginAddRun(q, r, p, a)
  PROVE  ProofsOK' /\ OnlyProvenArtifacts'
<1>1. /\ cmd' = [cmd EXCEPT ![q] = [run |-> r, passport |-> p, after |-> a]]
      /\ pc' = [pc EXCEPT ![q] = "stage"]
      /\ p \in Derivable
      /\ staging' = staging
      /\ shared \subseteq shared'
  BY DEF BeginAddRun
<1>2. ASSUME NEW o \in Publishers, o # q
      PROVE  pc'[o] = pc[o] /\ cmd'[o] = cmd[o]
  BY <1>1, <1>2 DEF TypeOK
<1>3. /\ pc'[q] = "stage" /\ cmd'[q].run = r /\ cmd'[q].passport = p
  BY <1>1 DEF TypeOK
<1>4. ASSUME NEW o \in Publishers, o # q, cmd'[o] # NoFile, cmd'[o].run = r
      PROVE  r \in shared'
  BY <1>2, <1>4 DEF BeginAddRun
<1>5. Apart'
  <2> SUFFICES ASSUME NEW u \in Publishers, NEW o \in Publishers,
                      cmd'[u] # NoFile, cmd'[o] # NoFile, cmd'[u].run = cmd'[o].run,
                      u # o
               PROVE  cmd'[u].run \in shared'
    BY DEF Apart
  <2>1. CASE u # q /\ o # q
    BY <1>1, <1>2, <2>1 DEF ProofsOK, Apart
  <2> QED
    BY <1>3, <1>4, <2>1
<1>6. ASSUME NEW o \in Publishers PROVE ProvenSoFar(o)'
  <2>1. CASE o = q
    BY <1>1, <1>3, <2>1 DEF ProvenSoFar, AfterProof, Proving
  <2>2. CASE o # q
    BY <1>1, <1>2, <2>2, OthersKept
  <2> QED
    BY <2>1, <2>2
<1>7. OnlyProvenArtifacts'
  BY <1>1 DEF BeginAddRun, OnlyProvenArtifacts
<1> QED
  BY <1>5, <1>6, <1>7 DEF ProofsOK

\* The command's own steps: what it staged is what it is told of.
LEMMA OwnProof ==
  ASSUME TypeOK, LocalsOK, ProofsOK, NEW q \in Publishers, ProveStep(q),
         cmd[q] \in Command, pc[q] \in AddSteps, pc[q] \in Proving, ~ Exit(q)
  PROVE  ProvenSoFar(q)'
<1> DEFINE r == cmd[q].run
           p == cmd[q].passport
<1>1. /\ ProvenSoFar(q) /\ p \in Derivable /\ p # Torn /\ p # NoFile /\ r \in Runs
  BY AbsenceAssumption DEF ProofsOK, ProvenSoFar, Command
<1>2. cmd' = cmd /\ shared' = shared
  BY ProvingMoves
<1>3. pc \in [Publishers -> Steps]
  BY DEF TypeOK
<1>4. \A s \in AfterProof : s \notin Proving
  BY DEF AfterProof, Proving
<1> USE DEF Proving
<1>5. CASE MakeStaging(q)
  <2>1. pc'[q] = "p.json"
    BY <1>3, <1>5 DEF MakeStaging
  <2> QED
    BY <1>1, <1>2, <1>4, <2>1 DEF ProvenSoFar
<1>6. ASSUME NEW f \in Staged, StageFile(q, f) PROVE ProvenSoFar(q)'
  <2>1. CASE pc'[q] = "abandon"
    BY <1>1, <1>2, <1>4, <2>1 DEF ProvenSoFar
  <2>2. CASE pc'[q] # "abandon"
    <3>1. /\ pc[q] = f /\ pc'[q] = AfterStaged[f] /\ staging[r] # NoFile
          /\ staging' = [staging EXCEPT ![r] = [staging[r] EXCEPT ![f] = p]]
      BY <1>3, <1>6, <2>2 DEF StageFile, StagingOf
    <3>2. staging[r] \in [Staged -> Content]
          /\ staging'[r] = [staging[r] EXCEPT ![f] = p]
      BY <1>1, <3>1 DEF TypeOK
    <3>3. staging'[r][f] = p /\ \A g \in Staged : g # f => staging'[r][g] = staging[r][g]
      BY <3>2
    <3>4. StagedFile(q, f)' \in {p, NoFile}
      BY <1>2, <3>3 DEF StagedFile, StagingOf
    <3>5. CASE f = "p.json"
      <4>1. pc'[q] = "t.json"
        BY <3>1, <3>5 DEF AfterStaged
      <4> QED
        BY <1>1, <1>2, <1>4, <3>4, <3>5, <4>1 DEF ProvenSoFar
    <3>6. CASE f = "t.json"
      <4>1. pc'[q] = "judge p.json" /\ pc[q] = "t.json"
        BY <3>1, <3>6 DEF AfterStaged
      <4>2. StagedFile(q, "p.json")' \in {StagedFile(q, "p.json"), NoFile}
        BY <1>2, <3>1, <3>3, <3>6 DEF StagedFile, StagingOf, Staged
      <4> QED
        BY <1>1, <1>2, <1>4, <3>4, <3>6, <4>1, <4>2 DEF ProvenSoFar
    <3> QED
      BY <3>5, <3>6 DEF Staged
  <2> QED
    BY <2>1, <2>2
<1>7. ASSUME NEW f \in Staged, JudgeFile(q, f) PROVE ProvenSoFar(q)'
  <2>1. /\ staging' = staging
        /\ StagedFile(q, "p.json")' = StagedFile(q, "p.json")
        /\ StagedFile(q, "t.json")' = StagedFile(q, "t.json")
    BY <1>2, <1>7 DEF JudgeFile, StagedFile, StagingOf
  <2>2. CASE pc'[q] = "abandon"
    BY <1>1, <1>2, <1>4, <2>2 DEF ProvenSoFar
  <2>3. CASE pc'[q] # "abandon"
    <3>1. Convinces(f, StagedFile(q, f))
      BY <1>3, <1>7, <2>3 DEF JudgeFile
    <3>2. NoFile \notin Verifies /\ NoFile \notin TwinRefused \cup {Torn}
      BY ConstantsAssumption, AbsenceAssumption
    <3>3. CASE f = "p.json"
      <4>1. pc[q] = "judge p.json" /\ pc'[q] = "judge t.json"
        BY <1>3, <1>7, <2>3, <3>1, <3>3 DEF JudgeFile
      <4> QED
        BY <1>1, <1>2, <1>4, <2>1, <3>1, <3>2, <3>3, <4>1 DEF ProvenSoFar, Convinces
    <3>4. CASE f = "t.json"
      <4>1. pc[q] = "judge t.json" /\ pc'[q] = "sweep"
        BY <1>3, <1>7, <2>3, <3>1, <3>4 DEF JudgeFile
      <4> QED
        BY <1>1, <1>2, <1>4, <2>1, <3>1, <3>2, <3>4, <4>1 DEF ProvenSoFar, Convinces
    <3> QED
      BY <3>3, <3>4 DEF Staged
  <2> QED
    BY <2>2, <2>3
<1>8. CASE ListStaged(q) \/ UnlinkStaged(q)
  <2>1. pc' = pc /\ pc[q] \in {"sweep", "abandon"}
    BY <1>8 DEF ListStaged, UnlinkStaged, Sweeps
  <2> QED
    BY <1>1, <1>2, <1>4, <2>1 DEF ProvenSoFar
<1>9. CASE RemoveStaging(q)
  <2>1. pc[q] = "sweep" /\ pc'[q] = "load"
    BY <1>3, <1>9 DEF RemoveStaging
  <2>2. "load" \in AfterProof
    BY DEF AfterProof, Proving, AddSteps, Steps
  <2> QED
    BY <1>1, <1>2, <1>4, <2>1, <2>2 DEF ProvenSoFar
<1> QED
  BY <1>5, <1>6, <1>7, <1>8, <1>9 DEF ProveStep, SweepFails

\* Step by step, a command that shares its run with none has its own bytes judged.
LEMMA ProveStepProofs ==
  ASSUME TypeOK, LocalsOK, ProofsOK, NEW q \in Publishers, ProveStep(q)
  PROVE  ProofsOK'
<1>1. pc[q] \in AddSteps /\ cmd[q] \in Command /\ pc[q] \in Proving
  BY ProvingMoves DEF LocalsOK, Proving, AddSteps, Steps
<1>2. shared' = shared
      /\ \/ staging' = staging
         \/ cmd[q] \in Command /\ \E v : staging' = [staging EXCEPT ![cmd[q].run] = v]
  BY <1>1, ProvingMoves
<1>3. CASE Exit(q)
  BY <1>2, <1>3, ExitProofs
<1>4. CASE ~ Exit(q)
  <2>1. /\ cmd' = cmd
        /\ pc' = pc \/ \E s \in Proving \cup {"load"} : pc' = [pc EXCEPT ![q] = s]
    BY <1>4, ProvingMoves
  <2>2. ASSUME NEW o \in Publishers, o # q PROVE ProvenSoFar(o)'
    <3>1. pc'[o] = pc[o] /\ cmd'[o] = cmd[o]
      BY <2>1, <2>2 DEF TypeOK
    <3> QED
      BY <1>2, <2>2, <3>1, OthersKept
  <2>3. ProvenSoFar(q)'
    BY <1>1, <1>4, OwnProof
  <2> QED
    BY <1>2, <2>1, <2>2, <2>3 DEF ProofsOK, Apart
<1> QED
  BY <1>3, <1>4

LEMMA NextProofs ==
  /\ TypeOK /\ LocalsOK /\ ProofsOK /\ OnlyProvenArtifacts
  /\ [Next]_vars
  => ProofsOK' /\ OnlyProvenArtifacts'
<1> SUFFICES ASSUME TypeOK, LocalsOK, ProofsOK, OnlyProvenArtifacts, [Next]_vars
             PROVE  ProofsOK' /\ OnlyProvenArtifacts'
  OBVIOUS
<1>1. ASSUME NEW q \in Publishers, NEW r \in Runs, NEW p \in Passports,
             NEW a \in Passports, BeginAddRun(q, r, p, a)
      PROVE  ProofsOK' /\ OnlyProvenArtifacts'
  BY <1>1, BeginProofs
<1>2. ASSUME NEW q \in Publishers, ProveStep(q)
      PROVE  ProofsOK' /\ OnlyProvenArtifacts'
  <2>1. ProofsOK'
    BY <1>2, ProveStepProofs
  <2> QED
    BY <1>2, <2>1, ProvingMoves DEF OnlyProvenArtifacts
<1>3. ASSUME NEW q \in Publishers, TearStaged(q)
      PROVE  ProofsOK' /\ OnlyProvenArtifacts'
  <2>1. /\ cmd[q] \in Command
        /\ \E v : staging' = [staging EXCEPT ![cmd[q].run] = v]
    BY <1>3 DEF TearStaged, StagingOf, Staged, LocalsOK, AddSteps, Steps
  <2>2. ProofsOK'
    BY <1>3, <2>1, ExitProofs DEF TearStaged, Killed
  <2> QED
    BY <1>3, <2>2 DEF TearStaged, OnlyProvenArtifacts
<1>4. ASSUME NEW q \in Publishers, LoadLedger(q)
      PROVE  ProofsOK' /\ OnlyProvenArtifacts'
  <2>1. CASE Exit(q)
    BY <1>4, <2>1, ExitProofs DEF LoadLedger, OnlyProvenArtifacts
  <2>2. CASE ~ Exit(q)
    BY <1>4, <2>2, FrameProofs
    DEF LoadLedger, TypeOK, AddSteps, AfterProof, Proving, Steps, Names
  <2> QED
    BY <2>1, <2>2
<1>5. ASSUME NEW q \in Publishers, NEW n \in Names, WriteArtifact(q, n)
      PROVE  ProofsOK' /\ OnlyProvenArtifacts'
  <2>1. pc[q] \in AfterProof
    BY <1>5 DEF WriteArtifact, AddSteps, AfterProof, Proving, Steps, Names
  <2>2. cmd[q].run \notin shared
          => cmd[q].passport \in Verifies /\ cmd[q].passport \in TwinRefused
    BY <2>1 DEF ProofsOK, ProvenSoFar, AfterProof, Proving
  <2>3. OnlyProvenArtifacts'
    <3> SUFFICES ASSUME NEW s \in Runs, s \notin shared'
                 PROVE  /\ artifacts'[s]["run-passport.json"] \in Verifies \cup {NoFile, Torn}
                        /\ artifacts'[s]["run-passport.tampered.json"]
                             \in TwinRefused \cup {NoFile, Torn}
      BY DEF OnlyProvenArtifacts
    <3>1. /\ shared' = shared
          /\ artifacts' = [artifacts EXCEPT ![cmd[q].run][n] = ArtifactBytes(cmd[q], n)]
      BY <1>5 DEF WriteArtifact
    <3>2. CASE s # cmd[q].run
      BY <3>1, <3>2 DEF OnlyProvenArtifacts, TypeOK
    <3>3. CASE s = cmd[q].run
      BY <2>2, <3>1, <3>3 DEF OnlyProvenArtifacts, ArtifactBytes, TypeOK, Names
    <3> QED
      BY <3>2, <3>3
  <2>4. AfterArtifact[n] \in AfterProof
    BY DEF AfterArtifact, AfterProof, AddSteps, Proving, Steps, Names
  <2>5. ASSUME NEW o \in Publishers PROVE ProvenSoFar(o)'
    <3>1. CASE o = q
      <4>1. pc'[q] \in AfterProof /\ cmd' = cmd /\ shared' = shared
        BY <1>5, <2>4 DEF WriteArtifact, TypeOK
      <4> QED
        BY <2>1, <2>2, <3>1, <4>1 DEF ProofsOK, ProvenSoFar, AfterProof, Proving
    <3>2. CASE o # q
      <4>1. pc'[o] = pc[o] /\ cmd' = cmd /\ shared' = shared /\ staging' = staging
        BY <1>5, <3>2 DEF WriteArtifact, TypeOK
      <4> QED
        BY <3>2, <4>1, OthersKept
    <3> QED
      BY <3>1, <3>2
  <2>6. ProofsOK'
    BY <1>5, <2>5 DEF WriteArtifact, ProofsOK, Apart
  <2> QED
    BY <2>3, <2>6
<1>6. ASSUME NEW q \in Publishers,
             WriteRecord(q) \/ DigestRecord(q) \/ WriteLedger(q)
             \/ WriteReadme(q) \/ WriteRunsIndex(q) \/ WritePassportSpec(q)
             \/ BeginGenerate(q) \/ ClearVector(q) \/ WriteVector(q)
      PROVE  ProofsOK' /\ OnlyProvenArtifacts'
  <2>1. /\ UNCHANGED <<staging, artifacts, cmd, shared>>
        /\ \A o \in Publishers :
             \/ pc'[o] = pc[o] \/ pc'[o] \in {"clear", "vectors", "manifest"}
             \/ /\ pc[o] \in {"record", "digest", "ledger", "readme", "runs.md"}
                /\ pc'[o] \in {"digest", "ledger", "derive", "runs.md", "passport-spec"}
    BY <1>6
    DEF WriteRecord, DigestRecord, WriteLedger, WriteReadme, WriteRunsIndex,
        WritePassportSpec, BeginGenerate, ClearVector, WriteVector, TypeOK
  <2> QED
    BY <2>1, FrameProofs DEF AddSteps, AfterProof, Proving, Steps
<1>7. ASSUME NEW q \in Publishers, Derive(q)
      PROVE  ProofsOK' /\ OnlyProvenArtifacts'
  <2>1. CASE Exit(q)
    BY <1>7, <2>1, ExitProofs DEF Derive, OnlyProvenArtifacts
  <2>2. CASE ~ Exit(q)
    BY <1>7, <2>2, FrameProofs DEF Derive, TypeOK, AddSteps, AfterProof, Proving, Steps
  <2> QED
    BY <2>1, <2>2
<1>8. ASSUME NEW q \in Publishers, WriteManifest(q) \/ Crash(q)
      PROVE  ProofsOK' /\ OnlyProvenArtifacts'
  BY <1>8, ExitProofs
  DEF WriteManifest, Crash, Killed, OnlyProvenArtifacts
<1>9. ASSUME NEW q \in Publishers, TearWrite(q)
      PROVE  ProofsOK' /\ OnlyProvenArtifacts'
  <2>1. ProofsOK'
    BY <1>9, ExitProofs DEF TearWrite, Killed
  <2>2. OnlyProvenArtifacts'
    <3>1. CASE UNCHANGED artifacts
      BY <1>9, <3>1 DEF TearWrite, OnlyProvenArtifacts
    <3>2. CASE artifacts' = [artifacts EXCEPT ![cmd[q].run][pc[q]] = Torn]
      BY <1>9, <3>2 DEF TearWrite, OnlyProvenArtifacts, TypeOK, Names
    <3> QED
      BY <1>9, <3>1, <3>2 DEF TearWrite
  <2> QED
    BY <2>1, <2>2
<1>10. CASE Human
  BY <1>10, FrameProofs DEF Human, EditCorpus, MirrorClaims
<1>11. CASE UNCHANGED vars
  BY <1>11, FrameProofs DEF vars
<1> QED
  BY <1>1, <1>2, <1>3, <1>4, <1>5, <1>6, <1>7, <1>8, <1>9, <1>10, <1>11,
     ConstantsAssumption
  DEF Next, AddRunStep, GenerateStep

\* Whatever runs concurrently, fails to verify or is killed, no run directory ever
\* holds a passport or a twin that was not proven, as long as no two commands were
\* alive at that run number.
THEOREM OnlyProven == Spec => []OnlyProvenArtifacts
<1>1. Spec => [](TypeOK /\ LocalsOK /\ ProofsOK /\ OnlyProvenArtifacts)
  BY InitLocals, NextLocals, InitProofs, NextProofs, PTL DEF Spec
<1> QED
  BY <1>1, PTL

-----------------------------------------------------------------------------
(* Identifiers stay numbered.                                              *)

LEMMA InitNumbering == Init => NumberingOK
<1> SUFFICES ASSUME Init PROVE NumberingOK
  OBVIOUS
<1>1. \A x : x.id = 1 => Numbered({x})
  <2> SUFFICES ASSUME NEW x, x.id = 1 PROVE Numbered({x})
    OBVIOUS
  <2>1. {e.id : e \in {x}} = 1 .. 1 /\ 1 \in 0 .. MaxId
    BY ConstantsAssumption
  <2> QED
    BY <2>1 DEF Numbered
<1>2. WellNumbered(BaseLedger)
  BY <1>1 DEF WellNumbered, BaseLedger
<1> QED
  BY <1>2 DEF Init, NumberingOK, AfterLoad, AfterProof, Proving, AddSteps

\* The ledger a command writes is numbered, since the one it loaded was.
LEMMA NewLedgerNumbered ==
  ASSUME LocalsOK, NumberingOK, NEW q \in Publishers, pc[q] \in AfterLoad
  PROVE  /\ WellNumbered(NewLedger(q))
         /\ \A e \in view[q].evidence : e.id # RecordId(q)
         /\ \A c \in view[q].claims : c.id # ClaimId(q)
<1> DEFINE e0 == [id |-> RecordId(q), sha256 |-> digest[q]]
           c0 == [id |-> ClaimId(q), statement |-> cmd[q].passport,
                  evidence |-> RecordId(q)]
<1>1. RecordId(q) \in Ids /\ ClaimId(q) \in Ids /\ WellNumbered(view[q])
  BY DEF LocalsOK, NumberingOK
<1>2. Numbered(view[q].evidence) /\ Numbered(view[q].claims)
  BY <1>1 DEF WellNumbered
<1>3. e0.id = RecordId(q) /\ c0.id = ClaimId(q)
  OBVIOUS
<1> HIDE DEF e0, c0
<1>4. /\ Numbered(view[q].evidence \cup {e0})
      /\ \A e \in view[q].evidence : e.id # e0.id
  BY <1>1, <1>2, <1>3, NextKeepsNumbered DEF RecordId
<1>5. /\ Numbered(view[q].claims \cup {c0})
      /\ \A c \in view[q].claims : c.id # c0.id
  BY <1>1, <1>2, <1>3, NextKeepsNumbered DEF ClaimId
<1>6. NewLedger(q) = [evidence |-> view[q].evidence \cup {e0},
                      claims |-> view[q].claims \cup {c0}]
  BY DEF NewLedger, e0, c0
<1> QED
  BY <1>3, <1>4, <1>5, <1>6 DEF WellNumbered

\* A step that leaves the ledger and the loaded ledgers alone keeps them
\* numbered, as long as no command gets past LoadLedger by it.
LEMMA FrameNumbering ==
  ASSUME NumberingOK, ledger' = ledger \/ ledger' = Torn,
         \A o \in Publishers :
            \/ pc'[o] \notin AfterLoad
            \/ pc[o] \in AfterLoad /\ view'[o] = view[o]
  PROVE  NumberingOK'
BY DEF NumberingOK, AfterLoad, AfterProof, Proving, AddSteps, Steps

LEMMA NextNumbering ==
  TypeOK /\ LocalsOK /\ NumberingOK /\ [Next]_vars => NumberingOK'
<1> SUFFICES ASSUME TypeOK, LocalsOK, NumberingOK, [Next]_vars
             PROVE  NumberingOK'
  OBVIOUS
<1> USE DEF AddSteps, AfterProof, Proving, AfterLoad
<1>1. ASSUME NEW q \in Publishers, NEW r \in Runs, NEW p \in Passports,
             NEW a \in Passports, BeginAddRun(q, r, p, a)
      PROVE  NumberingOK'
  BY <1>1, FrameNumbering DEF BeginAddRun, TypeOK, Steps
<1>2. ASSUME NEW q \in Publishers, ProveStep(q)
      PROVE  NumberingOK'
  BY <1>2, ProvingMoves, ProvingSteps, FrameNumbering
<1>3. ASSUME NEW q \in Publishers, LoadLedger(q)
      PROVE  NumberingOK'
  <2>1. CASE Exit(q)
    BY <1>3, <2>1, FrameNumbering DEF LoadLedger, Exit, TypeOK, Steps
  <2>2. CASE ~ Exit(q)
    <3>1. /\ ledger # Torn /\ ledger' = ledger
          /\ \A o \in Publishers :
               \/ o = q /\ view'[o] = ledger
               \/ pc'[o] = pc[o] /\ view'[o] = view[o]
      BY <1>3, <2>2 DEF LoadLedger, TypeOK
    <3> QED
      BY <3>1 DEF NumberingOK
  <2> QED
    BY <2>1, <2>2
<1>4. ASSUME NEW q \in Publishers, NEW n \in Names, WriteArtifact(q, n)
      PROVE  NumberingOK'
  BY <1>4, FrameNumbering DEF WriteArtifact, AfterArtifact, TypeOK, Steps, Names
<1>5. ASSUME NEW q \in Publishers, WriteLedger(q)
      PROVE  NumberingOK'
  <2>1. WellNumbered(NewLedger(q))
    BY <1>5, NewLedgerNumbered DEF WriteLedger, Steps
  <2> QED
    BY <1>5, <2>1 DEF WriteLedger, NumberingOK, TypeOK, Steps
<1>6. ASSUME NEW q \in Publishers,
             WriteRecord(q) \/ DigestRecord(q) \/ Derive(q) \/ WriteReadme(q)
             \/ WriteRunsIndex(q) \/ WritePassportSpec(q)
      PROVE  NumberingOK'
  <2>1. /\ ledger' = ledger
        /\ \A o \in Publishers :
             \/ pc'[o] \in {"idle", "manifest"}
             \/ pc'[o] = pc[o] /\ view'[o] = view[o]
             \/ /\ pc[o] \in {"record", "digest", "derive", "readme", "runs.md"}
                /\ view'[o] = view[o]
    BY <1>6
    DEF WriteRecord, DigestRecord, Derive, WriteReadme, WriteRunsIndex,
        WritePassportSpec, Exit, TypeOK
  <2> QED
    BY <2>1, FrameNumbering DEF Steps
<1>7. ASSUME NEW q \in Publishers,
             WriteManifest(q) \/ BeginGenerate(q) \/ ClearVector(q) \/ WriteVector(q)
      PROVE  NumberingOK'
  <2>1. /\ ledger' = ledger
        /\ \A o \in Publishers :
             \/ pc'[o] \in {"idle", "clear", "vectors", "manifest"}
             \/ pc'[o] = pc[o] /\ view'[o] = view[o]
    BY <1>7
    DEF WriteManifest, BeginGenerate, ClearVector, WriteVector, Exit, TypeOK
  <2> QED
    BY <2>1, FrameNumbering
<1>8. ASSUME NEW q \in Publishers, Crash(q) \/ TearStaged(q) \/ TearWrite(q)
      PROVE  NumberingOK'
  <2>1. /\ ledger' = ledger \/ ledger' = Torn
        /\ \A o \in Publishers :
             pc'[o] = "idle" \/ (pc'[o] = pc[o] /\ view'[o] = view[o])
    BY <1>8 DEF Crash, TearStaged, TearWrite, Killed, Exit, TypeOK
  <2> QED
    BY <2>1, FrameNumbering
<1>9. CASE Human \/ UNCHANGED vars
  BY <1>9, FrameNumbering DEF Human, EditCorpus, MirrorClaims, vars
<1> QED
  BY <1>1, <1>2, <1>3, <1>4, <1>5, <1>6, <1>7, <1>8, <1>9, ConstantsAssumption
  DEF Next, AddRunStep, GenerateStep

-----------------------------------------------------------------------------
(* One command at a time.                                                  *)

\* No two commands are alive at once.
OneAtATime == \A a, b \in Publishers : a = b

\* Then no run number is ever shared.
LEMMA NextShared ==
  ASSUME OneAtATime
  PROVE  shared = {} /\ [Next]_vars => shared' = {}
<1> SUFFICES ASSUME shared = {}, [Next]_vars PROVE shared' = {}
  OBVIOUS
<1>1. ASSUME NEW q \in Publishers, NEW r \in Runs, NEW p \in Passports,
             NEW a \in Targets, BeginAddRun(q, r, p, a)
      PROVE  shared' = {}
  BY <1>1, OneAtATime DEF OneAtATime, BeginAddRun
<1>2. ASSUME NEW q \in Publishers, ProveStep(q)
      PROVE  shared' = {}
  BY <1>2, ProvingMoves
<1>3. ASSUME NEW q \in Publishers,
             \/ LoadLedger(q) \/ \E n \in Names : WriteArtifact(q, n)
             \/ WriteRecord(q) \/ DigestRecord(q) \/ WriteLedger(q) \/ Derive(q)
             \/ WriteReadme(q) \/ WriteRunsIndex(q) \/ WritePassportSpec(q)
             \/ WriteManifest(q) \/ GenerateStep(q)
             \/ Crash(q) \/ TearStaged(q) \/ TearWrite(q)
      PROVE  shared' = {}
  BY <1>3
  DEF LoadLedger, WriteArtifact, WriteRecord, DigestRecord, WriteLedger, Derive,
      WriteReadme, WriteRunsIndex, WritePassportSpec, WriteManifest, GenerateStep,
      BeginGenerate, ClearVector, WriteVector, Crash, TearStaged, TearWrite, Killed
<1>4. CASE Human \/ UNCHANGED vars
  BY <1>4 DEF Human, EditCorpus, MirrorClaims, vars
<1> QED
  BY <1>1, <1>2, <1>3, <1>4 DEF Next, AddRunStep

\* A command that goes on after its proof has a pair that was judged as it is.
LEMMA ProvenAlone ==
  ASSUME ProofsOK, shared = {}, NEW q \in Publishers, pc[q] \in AfterProof
  PROVE  cmd[q].passport \in Provable
BY DEF ProofsOK, ProvenSoFar, AfterProof, Proving, Provable

-----------------------------------------------------------------------------
(* The ledger describes the records.                                       *)

LEMMA InitViews == Init => ViewsOK /\ LedgerDescribesRecords
<1> SUFFICES ASSUME Init PROVE ViewsOK /\ LedgerDescribesRecords
  OBVIOUS
<1>1. records[1] = BaseRecord
  BY ConstantsAssumption DEF Init, Ids
<1>2. LedgerDigestsHold
  BY <1>1 DEF Init, BaseLedger, LedgerDigestsHold
<1> QED
  BY <1>2 DEF Init, ViewsOK, LedgerDescribesRecords, Writing, Names

\* A step that leaves ledger and records alone, or tears the ledger while no
\* other command is alive, keeps what the commands know of them.
LEMMA FrameViews ==
  ASSUME ViewsOK, LedgerDescribesRecords, UNCHANGED records,
         \/ UNCHANGED ledger
         \/ ledger' = Torn /\ \A o \in Publishers : pc'[o] \notin Writing,
         \A o \in Publishers :
            \/ pc'[o] \notin Writing
            \/ /\ pc[o] \in Writing /\ view'[o] = view[o]
               /\ pc'[o] = "ledger" =>
                    pc[o] = "ledger" /\ digest'[o] = digest[o]
  PROVE  ViewsOK' /\ LedgerDescribesRecords'
<1>1. LedgerDescribesRecords'
  BY DEF LedgerDescribesRecords, LedgerDigestsHold
<1>2. ViewsOK'
  BY DEF ViewsOK, RecordId, Writing
<1> QED
  BY <1>1, <1>2

LEMMA NextViews ==
  ASSUME OneAtATime
  PROVE  /\ TypeOK /\ LocalsOK /\ NumberingOK /\ ViewsOK /\ LedgerDescribesRecords
         /\ [Next]_vars
         => ViewsOK' /\ LedgerDescribesRecords'
<1> SUFFICES ASSUME TypeOK, LocalsOK, NumberingOK, ViewsOK,
                    LedgerDescribesRecords, [Next]_vars
             PROVE  ViewsOK' /\ LedgerDescribesRecords'
  OBVIOUS
<1>1. ASSUME NEW q \in Publishers, NEW r \in Runs, NEW p \in Passports,
             NEW a \in Passports, BeginAddRun(q, r, p, a)
      PROVE  ViewsOK' /\ LedgerDescribesRecords'
  BY <1>1, FrameViews DEF BeginAddRun, TypeOK, Writing, Names
<1>2. ASSUME NEW q \in Publishers,
             ProveStep(q) \/ BeginGenerate(q)
      PROVE  ViewsOK' /\ LedgerDescribesRecords'
  <2>1. CASE ProveStep(q)
    BY <2>1, ProvingMoves, ProvingSteps, FrameViews DEF Proving, Writing, Names
  <2>2. CASE BeginGenerate(q)
    BY <2>2, FrameViews DEF BeginGenerate, TypeOK, Writing, Names
  <2> QED
    BY <1>2, <2>1, <2>2
<1>3. ASSUME NEW q \in Publishers, LoadLedger(q)
      PROVE  ViewsOK' /\ LedgerDescribesRecords'
  <2>1. CASE Exit(q)
    BY <1>3, <2>1, FrameViews DEF LoadLedger, Exit, TypeOK, Writing, Names
  <2>2. CASE ~ Exit(q)
    <3>1. /\ ledger # Torn /\ view' = [view EXCEPT ![q] = ledger]
          /\ pc' = [pc EXCEPT ![q] = "run-passport.json"]
          /\ UNCHANGED <<ledger, records, digest>>
      BY <1>3, <2>2 DEF LoadLedger
    <3>2. ViewsOK'
      BY <3>1 DEF ViewsOK, TypeOK, RecordId, Writing, Names
    <3> QED
      BY <3>1, <3>2 DEF LedgerDescribesRecords, LedgerDigestsHold
  <2> QED
    BY <2>1, <2>2
<1>4. ASSUME NEW q \in Publishers, NEW n \in Names, WriteArtifact(q, n)
      PROVE  ViewsOK' /\ LedgerDescribesRecords'
  BY <1>4, FrameViews DEF WriteArtifact, AfterArtifact, TypeOK, Writing, Names
<1>5. ASSUME NEW q \in Publishers, NEW v,
             pc[q] = "record", records' = [records EXCEPT ![RecordId(q)] = v],
             UNCHANGED ledger
      PROVE  LedgerDescribesRecords'
  <2>1. view[q] = ledger /\ pc[q] \in AfterLoad /\ RecordId(q) \in Ids
    BY <1>5 DEF ViewsOK, LocalsOK, Writing, AfterLoad, AfterProof, Proving, AddSteps, Steps
  <2>2. \A e \in ledger.evidence : e.id # RecordId(q)
    BY <2>1, NewLedgerNumbered
  <2> QED
    BY <1>5, <2>1, <2>2 DEF TypeOK, LedgerDescribesRecords, LedgerDigestsHold
<1>6. ASSUME NEW q \in Publishers, WriteRecord(q)
      PROVE  ViewsOK' /\ LedgerDescribesRecords'
  <2>1. ViewsOK'
    BY <1>6, OneAtATime DEF OneAtATime, WriteRecord, ViewsOK, TypeOK, RecordId, Writing
  <2>2. LedgerDescribesRecords'
    BY <1>5, <1>6 DEF WriteRecord
  <2> QED
    BY <2>1, <2>2
<1>7. ASSUME NEW q \in Publishers, DigestRecord(q)
      PROVE  ViewsOK' /\ LedgerDescribesRecords'
  <2>1. ViewsOK'
    BY <1>7, OneAtATime DEF OneAtATime, DigestRecord, ViewsOK, TypeOK, RecordId, Writing
  <2> QED
    BY <1>7, <2>1 DEF DigestRecord, LedgerDescribesRecords, LedgerDigestsHold
<1>8. ASSUME NEW q \in Publishers, WriteLedger(q)
      PROVE  ViewsOK' /\ LedgerDescribesRecords'
  <2>1. /\ view[q] = ledger /\ ledger # Torn
        /\ digest[q] = records[RecordId(q)]
    BY <1>8 DEF WriteLedger, ViewsOK, Writing
  <2>2. \A e \in NewLedger(q).evidence : records[e.id] = e.sha256
    BY <2>1 DEF NewLedger, LedgerDescribesRecords, LedgerDigestsHold
  <2>3. LedgerDescribesRecords'
    BY <1>8, <2>2 DEF WriteLedger, LedgerDescribesRecords, LedgerDigestsHold
  <2>4. ViewsOK'
    BY <1>8, OneAtATime DEF OneAtATime, WriteLedger, ViewsOK, TypeOK, Writing, Names
  <2> QED
    BY <2>3, <2>4
<1>9. ASSUME NEW q \in Publishers,
             Derive(q) \/ WriteReadme(q) \/ WriteRunsIndex(q)
             \/ WritePassportSpec(q) \/ WriteManifest(q)
             \/ ClearVector(q) \/ WriteVector(q) \/ Crash(q) \/ TearStaged(q)
      PROVE  ViewsOK' /\ LedgerDescribesRecords'
  BY <1>9, FrameViews
  DEF Derive, WriteReadme, WriteRunsIndex, WritePassportSpec, WriteManifest,
      ClearVector, WriteVector,
      Crash, TearStaged, Killed, Exit, TypeOK, Writing, Names
<1>10. ASSUME NEW q \in Publishers, TearWrite(q)
      PROVE  ViewsOK' /\ LedgerDescribesRecords'
  <2>1. \A o \in Publishers : pc'[o] = "idle"
    BY <1>10, OneAtATime DEF OneAtATime, TearWrite, Killed, Exit, TypeOK
  <2>2. ViewsOK'
    BY <2>1 DEF ViewsOK, Writing, Names
  <2>3. CASE UNCHANGED records
    BY <1>10, <2>2, <2>3 DEF TearWrite, LedgerDescribesRecords, LedgerDigestsHold
  <2>4. CASE pc[q] = "record" /\ UNCHANGED ledger
             /\ records' = [records EXCEPT ![RecordId(q)] = Torn]
    BY <1>5, <2>2, <2>4
  <2> QED
    BY <1>10, <2>2, <2>3, <2>4 DEF TearWrite
<1>11. CASE Human \/ UNCHANGED vars
  BY <1>11, FrameViews DEF Human, EditCorpus, MirrorClaims, vars
<1> QED
  BY <1>1, <1>2, <1>3, <1>4, <1>6, <1>7, <1>8, <1>9, <1>10, <1>11, ConstantsAssumption
  DEF Next, AddRunStep, GenerateStep

\* Publications that run one at a time never leave an entry of the ledger
\* whose record is absent, torn or another one, wherever they are killed.
THEOREM LedgerDescribes ==
  ASSUME OneAtATime
  PROVE  Spec => []LedgerDescribesRecords
<1> DEFINE Inv == TypeOK /\ LocalsOK /\ NumberingOK /\ ViewsOK /\ LedgerDescribesRecords
<1>1. Init => Inv
  BY InitLocals, InitNumbering, InitViews
<1>2. Inv /\ [Next]_vars => Inv'
  BY OneAtATime, NextLocals, NextNumbering, NextViews
<1> QED
  BY <1>1, <1>2, PTL DEF Spec

-----------------------------------------------------------------------------
(* The ledger implements the public record.                                *)

LEMMA InitWrites == Init => WritesOK
<1> SUFFICES ASSUME Init PROVE WritesOK
  OBVIOUS
<1>1. \A c \in ledger.claims : c.evidence = 1
  BY DEF Init, BaseLedger
<1>2. \E e \in ledger.evidence : e.id = 1
  BY DEF Init, BaseLedger
<1>3. \A o \in Publishers : pc[o] = "idle"
  BY DEF Init
<1> QED
  BY <1>1, <1>2, <1>3 DEF WritesOK

\* A step that leaves records and artifacts alone, and the ledger too unless
\* it tears it, keeps what the commands already wrote where it is.
LEMMA FrameWrites ==
  ASSUME WritesOK, UNCHANGED <<artifacts, records>>,
         ledger' = ledger \/ ledger' = Torn,
         \A o \in Publishers :
            \/ pc'[o] \notin {"run-passport.tampered.json", "target-after",
                              "record", "digest", "ledger"}
            \/ /\ pc'[o] = pc[o] \/ (pc[o] = "digest" /\ pc'[o] = "ledger")
               /\ cmd'[o] = cmd[o] /\ view'[o] = view[o]
  PROVE  WritesOK'
BY DEF WritesOK, RecordId

LEMMA NextWrites ==
  ASSUME OneAtATime
  PROVE  /\ TypeOK /\ LocalsOK /\ ProofsOK /\ shared = {} /\ ViewsOK /\ WritesOK
         /\ [Next]_vars
         => WritesOK'
<1> SUFFICES ASSUME TypeOK, LocalsOK, ProofsOK, shared = {}, ViewsOK, WritesOK,
                    [Next]_vars
             PROVE  WritesOK'
  OBVIOUS
<1>1. ASSUME NEW q \in Publishers, NEW r \in Runs, NEW p \in Passports,
             NEW a \in Passports, BeginAddRun(q, r, p, a)
      PROVE  WritesOK'
  BY <1>1, FrameWrites DEF BeginAddRun, TypeOK
<1>2. ASSUME NEW q \in Publishers,
             \/ LoadLedger(q) \/ DigestRecord(q)
             \/ Derive(q) \/ WriteReadme(q) \/ WriteRunsIndex(q)
             \/ WritePassportSpec(q) \/ WriteManifest(q)
             \/ BeginGenerate(q) \/ ClearVector(q) \/ WriteVector(q)
             \/ Crash(q) \/ TearStaged(q)
      PROVE  WritesOK'
  BY <1>2, FrameWrites
  DEF LoadLedger, DigestRecord, Derive, WriteReadme,
      WriteRunsIndex, WritePassportSpec, WriteManifest, BeginGenerate, ClearVector, WriteVector,
      Crash, TearStaged, Killed, Exit, TypeOK
<1>3. ASSUME NEW q \in Publishers, NEW n \in Names, WriteArtifact(q, n)
      PROVE  WritesOK'
  <2>1. cmd[q].run \in Runs
    BY <1>3 DEF WriteArtifact, LocalsOK, AddSteps, Steps, Names, Command
  <2>2. artifacts'[cmd[q].run][n] = ArtifactBytes(cmd[q], n)
    BY <1>3, <2>1 DEF WriteArtifact, TypeOK
  <2>3. \A m \in Names : m # n => artifacts'[cmd[q].run][m] = artifacts[cmd[q].run][m]
    BY <1>3, <2>1 DEF WriteArtifact, TypeOK
  <2> QED
    BY <1>3, <2>2, <2>3, OneAtATime
    DEF OneAtATime, WriteArtifact, WritesOK, ArtifactBytes, AfterArtifact, TypeOK,
        Names, RecordId
<1>4. ASSUME NEW q \in Publishers, WriteRecord(q)
      PROVE  WritesOK'
  <2>1. RecordId(q) \in Ids /\ cmd[q].passport \in TwinRefused
    <3>1. pc[q] \in AfterLoad /\ pc[q] \in AfterProof
      BY <1>4 DEF WriteRecord, AfterLoad, AfterProof, AddSteps, Proving, Steps
    <3> QED
      BY <3>1, ProvenAlone DEF LocalsOK, Provable
  <2>2. records'[RecordId(q)] = RecordOf(cmd[q].run)
    BY <1>4, <2>1 DEF WriteRecord, TypeOK
  <2>3. /\ RecordOf(cmd[q].run).passport = cmd[q].passport
        /\ RecordOf(cmd[q].run).twin = cmd[q].passport
        /\ RecordOf(cmd[q].run).twinRefused
    BY <1>4, <2>1 DEF WriteRecord, WritesOK, RecordOf
  <2> QED
    BY <1>4, <2>2, <2>3, OneAtATime DEF OneAtATime, WriteRecord, WritesOK, TypeOK, RecordId
<1>5. ASSUME NEW q \in Publishers, WriteLedger(q)
      PROVE  WritesOK'
  <2>1. view[q] = ledger /\ ledger # Torn
    BY <1>5 DEF WriteLedger, ViewsOK, Writing
  <2>2. \A c \in NewLedger(q).claims :
          \E e \in NewLedger(q).evidence : e.id = c.evidence
    <3>1. [id |-> RecordId(q), sha256 |-> digest[q]] \in NewLedger(q).evidence
      BY DEF NewLedger
    <3>2. ledger.evidence \subseteq NewLedger(q).evidence
      BY <2>1 DEF NewLedger
    <3>3. \A c \in ledger.claims : \E e \in ledger.evidence : e.id = c.evidence
      BY <2>1 DEF WritesOK
    <3>4. \A c \in NewLedger(q).claims : c \in ledger.claims \/ c.evidence = RecordId(q)
      BY <2>1 DEF NewLedger
    <3> QED
      BY <3>1, <3>2, <3>3, <3>4
  <2> QED
    BY <1>5, <2>2, OneAtATime DEF OneAtATime, WriteLedger, WritesOK, TypeOK
<1>6. ASSUME NEW q \in Publishers, TearWrite(q)
      PROVE  WritesOK'
  <2>1. \A o \in Publishers : pc'[o] = "idle"
    BY <1>6, OneAtATime DEF OneAtATime, TearWrite, Killed, Exit, TypeOK
  <2>2. ledger' = ledger \/ ledger' = Torn
    BY <1>6 DEF TearWrite
  <2> QED
    BY <2>1, <2>2 DEF WritesOK
<1>7. ASSUME NEW q \in Publishers, ProveStep(q)
      PROVE  WritesOK'
  BY <1>7, ProvingMoves, ProvingSteps, FrameWrites DEF Proving
<1>8. CASE Human \/ UNCHANGED vars
  BY <1>8, FrameWrites DEF Human, EditCorpus, MirrorClaims, vars
<1> QED
  BY <1>1, <1>2, <1>3, <1>4, <1>5, <1>6, <1>7, <1>8, ConstantsAssumption
  DEF Next, AddRunStep, GenerateStep

LEMMA NewLedgerIsWhole ==
  ASSUME TypeOK, LocalsOK, NEW q \in Publishers, pc[q] = "ledger"
  PROVE  NewLedger(q) \in Ledger /\ NewLedger(q) # Torn
<1>1. /\ view[q] \in Ledger /\ RecordId(q) \in Ids /\ ClaimId(q) \in Ids
      /\ cmd[q].passport \in Passports /\ digest[q] \in RecordFile
  BY DEF LocalsOK, TypeOK, AfterLoad, AfterProof, Proving, AddSteps, Steps, Command
<1>2. /\ [id |-> RecordId(q), sha256 |-> digest[q]] \in Evidence
      /\ [id |-> ClaimId(q), statement |-> cmd[q].passport, evidence |-> RecordId(q)] \in Claim
  BY <1>1 DEF Evidence, Claim
<1>3. NewLedger(q) \in Ledger
  BY <1>1, <1>2 DEF NewLedger, Ledger
<1> QED
  BY <1>3, AbsenceAssumption

\* WriteLedger adds the claim of its run, above every other, with evidence of
\* that run, and changes what no other claim says.
LEMMA WriteLedgerPublishes ==
  ASSUME TypeOK, LocalsOK, ProofsOK, shared = {}, NumberingOK, ViewsOK, WritesOK,
         NEW q \in Publishers, WriteLedger(q)
  PROVE  Abstract!Publish
<1> DEFINE e0 == [id |-> RecordId(q), sha256 |-> digest[q]]
           c0 == [id |-> ClaimId(q), statement |-> cmd[q].passport,
                  evidence |-> RecordId(q)]
           p0 == [id |-> ClaimId(q), passport |-> cmd[q].passport,
                  evidence |-> digest[q]]
<1>1. /\ ledger # Torn /\ view[q] = ledger /\ ledger \in Ledger
      /\ digest[q] = records[RecordId(q)]
      /\ WellNumbered(ledger)
      /\ pc[q] \in AfterLoad
  BY DEF WriteLedger, ViewsOK, TypeOK, NumberingOK, Writing, AfterLoad, AfterProof, Proving,
         AddSteps, Steps
<1>2. ledger' # Torn
  BY <1>1, NewLedgerIsWhole DEF WriteLedger
<1>3. /\ ledger'.evidence = ledger.evidence \cup {e0}
      /\ ledger'.claims = ledger.claims \cup {c0}
  BY <1>1 DEF WriteLedger, NewLedger
<1>4. /\ \A e \in ledger.evidence : e.id # e0.id
      /\ \A d, e \in ledger.evidence : d.id = e.id => d = e
  BY <1>1, NewLedgerNumbered DEF WellNumbered, Numbered
<1>5. \A d \in ledger.claims : d.id < c0.id
  <2>1. PICK k \in 0 .. MaxId : {d.id : d \in ledger.claims} = 1 .. k
    BY <1>1 DEF WellNumbered, Numbered
  <2>2. ClaimId(q) = 1 + k
    <3>1. k \in Nat
      BY ConstantsAssumption
    <3>2. NextIdentifier(ledger.claims) = 1 + k
      BY <2>1, <3>1, NextOfNumbered
    <3> QED
      BY <1>1, <3>2 DEF ClaimId
  <2> QED
    BY <2>1, <2>2, ConstantsAssumption
<1> DEFINE Cited(l, c) == (CHOOSE e \in l.evidence : e.id = c.evidence).sha256
           Public(l, c) == [id |-> c.id, passport |-> c.statement,
                            evidence |-> Cited(l, c)]
<1>6. ASSUME NEW c \in ledger.claims
      PROVE  Public(ledger', c) = Public(ledger, c)
  <2>1. PICK e \in ledger.evidence : e.id = c.evidence
    BY <1>1, <1>6 DEF WritesOK
  <2>2. (CHOOSE d \in ledger.evidence : d.id = c.evidence) = e
    BY <1>4, <2>1
  <2>3. (CHOOSE d \in ledger'.evidence : d.id = c.evidence) = e
    BY <1>3, <1>4, <2>1
  <2> QED
    BY <2>2, <2>3
<1>7. Public(ledger', c0) = p0
  <2>1. (CHOOSE d \in ledger'.evidence : d.id = RecordId(q)) = e0
    BY <1>3, <1>4
  <2>2. Cited(ledger', c0) = e0.sha256
    BY <2>1
  <2> QED
    BY <2>2
<1>8. Claims = {Public(ledger, c) : c \in ledger.claims}
  BY <1>1 DEF Claims, PublishedClaim
<1>9. Claims' = {Public(ledger', c) : c \in ledger'.claims}
  BY <1>2 DEF Claims, PublishedClaim
<1>10. Claims' = Claims \cup {p0}
  <2> HIDE DEF Public, c0, p0
  <2> QED
    BY <1>3, <1>6, <1>7, <1>8, <1>9
<1>11. \A d \in Claims : d.id < p0.id
  BY <1>5, <1>8
<1>12. p0.passport \in Provable /\ Abstract!About(p0.evidence, p0.passport)
  <2>1. pc[q] \in AfterProof
    BY DEF WriteLedger, AfterProof, AddSteps, Proving, Steps
  <2>2. cmd[q].passport \in Provable
    BY <2>1, ProvenAlone
  <2> QED
    BY <1>1, <2>2 DEF WriteLedger, WritesOK, Abstract!About
<1> QED
  BY <1>1, <1>2, <1>10, <1>11, <1>12 DEF Abstract!Publish

\* Every other step leaves the public record, or loses it whole.
LEMMA NextImplements ==
  ASSUME TypeOK, LocalsOK, ProofsOK, shared = {}, NumberingOK, ViewsOK, WritesOK,
         [Next]_vars
  PROVE  Abstract!Next \/ UNCHANGED <<Claims, ledger = Torn>>
<1>1. ASSUME UNCHANGED ledger
      PROVE  UNCHANGED <<Claims, ledger = Torn>>
  BY <1>1 DEF Claims, PublishedClaim
<1>2. ASSUME ledger' = Torn
      PROVE  Abstract!Next
  BY <1>2 DEF Claims, Abstract!Next, Abstract!Lose
<1>3. ASSUME NEW q \in Publishers, WriteLedger(q)
      PROVE  Abstract!Next
  BY <1>3, WriteLedgerPublishes DEF Abstract!Next
<1>4. \/ UNCHANGED ledger \/ ledger' = Torn
      \/ \E q \in Publishers : WriteLedger(q)
  <2>1. ASSUME NEW q \in Publishers, AddRunStep(q)
        PROVE  UNCHANGED ledger \/ WriteLedger(q)
    BY <2>1, ProvingMoves
    DEF AddRunStep, BeginAddRun, LoadLedger, WriteArtifact,
        WriteRecord, DigestRecord, Derive, WriteReadme, WriteRunsIndex,
        WritePassportSpec, WriteManifest
  <2>2. ASSUME NEW q \in Publishers,
               GenerateStep(q) \/ Crash(q) \/ TearStaged(q) \/ TearWrite(q)
        PROVE  UNCHANGED ledger \/ ledger' = Torn
    BY <2>2 DEF GenerateStep, BeginGenerate, ClearVector, WriteVector, Crash,
                TearStaged, TearWrite
  <2>3. CASE Human \/ UNCHANGED vars
    BY <2>3 DEF Human, EditCorpus, MirrorClaims, vars
  <2> QED
    BY <2>1, <2>2, <2>3 DEF Next
<1> QED
  BY <1>1, <1>2, <1>3, <1>4

LEMMA InitImplements == Init => Abstract!Init
<1> SUFFICES ASSUME Init PROVE Abstract!Init
  OBVIOUS
<1> DEFINE e0 == [id |-> 1, sha256 |-> BaseRecord]
<1>1. BaseLedger \in Ledger
  BY ConstantsAssumption
  DEF BaseRecord, BaseLedger, Record, RecordFile, Ledger, Evidence, Claim, Content, Ids
<1>2. ledger # Torn
  BY <1>1, AbsenceAssumption DEF Init
<1>3. (CHOOSE e \in ledger.evidence : e.id = 1) = e0
  BY DEF Init, BaseLedger
<1>4. Claims = {[id |-> 1, passport |-> BasePassport, evidence |-> BaseRecord]}
  BY <1>2, <1>3 DEF Init, BaseLedger, Claims, PublishedClaim
<1> QED
  BY <1>2, <1>4 DEF Abstract!Init

\* Publications that run one at a time implement the public record: claims
\* are only ever added, whole, in order, about proven runs, each with evidence
\* of its own run, and a crash loses all of the ledger or nothing.
THEOREM Implements ==
  ASSUME OneAtATime
  PROVE  Spec => ImplementsPublicRecord
<1> DEFINE Inv == /\ TypeOK /\ LocalsOK /\ ProofsOK /\ OnlyProvenArtifacts /\ shared = {}
                  /\ NumberingOK /\ ViewsOK /\ LedgerDescribesRecords /\ WritesOK
<1>1. Init => Inv
  BY InitLocals, InitProofs, InitNumbering, InitViews, InitWrites DEF Init
<1>2. Inv /\ [Next]_vars => Inv'
  BY OneAtATime, NextLocals, NextProofs, NextShared, NextNumbering, NextViews, NextWrites
<1>3. Inv /\ [Next]_vars => [Abstract!Next]_<<Claims, ledger = Torn>>
  BY NextImplements
<1> QED
  BY <1>1, <1>2, <1>3, InitImplements, PTL
  DEF Spec, ImplementsPublicRecord, Abstract!Spec

-----------------------------------------------------------------------------
(* What the files of the tree owe to each other.                           *)

\* Where every command has ended, only the records can be out of step.
LEMMA IdleKeeps ==
  ASSUME \A o \in Publishers : pc'[o] = "idle" /\ cmd'[o] = NoFile /\ origin'[o] = NoFile,
         DOMAIN origin' = Publishers
  PROVE  WholeOK' /\ PlansOK' /\ SuiteOK' /\ OriginOK'
BY DEF WholeOK, PlansOK, SuiteOK, OriginOK, Publishing

\* The only command ends.
LEMMA Ended ==
  ASSUME OneAtATime, TypeOK, DOMAIN origin = Publishers, NEW q \in Publishers, Exit(q)
  PROVE  /\ \A o \in Publishers : pc'[o] = "idle" /\ cmd'[o] = NoFile /\ origin'[o] = NoFile
         /\ DOMAIN origin' = Publishers
         /\ WholeOK' /\ PlansOK' /\ SuiteOK' /\ OriginOK'
<1>1. \A o \in Publishers : pc'[o] = "idle" /\ cmd'[o] = NoFile /\ origin'[o] = NoFile
  BY DEF OneAtATime, TypeOK, Exit
<1>2. DOMAIN origin' = Publishers
  BY DEF Exit
<1> QED
  BY <1>1, <1>2, IdleKeeps

\* A step that writes no record, and the ledger only to tear it and end.
LEMMA RecordsKept ==
  ASSUME RecordsOK, UNCHANGED records, ledger' = ledger \/ ledger' = Torn,
         \A o \in Publishers :
            pc'[o] = "derive" \/ Publishing(o)' =>
              /\ ledger' = ledger
              /\ pc[o] = "derive" \/ Publishing(o)
  PROVE  RecordsOK'
BY DEF RecordsOK, Filed, Indexed

\* No command line is the absence of one.
LEMMA CommandIsThere ==
  ASSUME LocalsOK, NEW q \in Publishers, pc[q] \in AddSteps
  PROVE  cmd[q] \in Command /\ cmd[q] # NoFile
BY AbsenceAssumption DEF LocalsOK

LEMMA InitTree == Init => WholeOK /\ RecordsOK /\ PlansOK /\ SuiteOK /\ OriginOK
<1> SUFFICES ASSUME Init PROVE WholeOK /\ RecordsOK /\ PlansOK /\ SuiteOK /\ OriginOK
  OBVIOUS
<1>1. BaseRecord \in Record
  BY ConstantsAssumption DEF BaseRecord, Record, Content
<1>2. Filed = {1} /\ Indexed = {1}
  BY <1>1, ConstantsAssumption, AbsenceAssumption DEF Init, Filed, Indexed, BaseLedger, Ids
<1>3. RecordsOK
  BY <1>2 DEF Init, RecordsOK, Publishing
<1> QED
  BY <1>3 DEF Init, WholeOK, PlansOK, SuiteOK, OriginOK, Publishing

\* What is proved above, and what is proved here.
Known == /\ TypeOK /\ LocalsOK /\ ProofsOK /\ OnlyProvenArtifacts /\ shared = {}
         /\ NumberingOK /\ ViewsOK /\ LedgerDescribesRecords /\ WritesOK
TreeOK == WholeOK /\ RecordsOK /\ PlansOK /\ SuiteOK /\ OriginOK

\* A step that writes none of a run's files, its record or the ledger leaves it
\* published as far as it was.
LEMMA WholeKept ==
  ASSUME WholeOK, UNCHANGED <<artifacts, records, ledger>>,
         \A o \in Publishers :
           /\ cmd'[o] = cmd[o]
           /\ pc'[o] \in {"record", "digest", "ledger"} =>
                pc'[o] = pc[o] /\ RecordId(o)' = RecordId(o)
           /\ pc'[o] = "derive" \/ Publishing(o)' => pc[o] = "derive" \/ Publishing(o)
  PROVE  WholeOK'
<1> SUFFICES ASSUME NEW o \in Publishers
             PROVE  (/\ pc[o] \in {"record", "digest", "ledger"} =>
                          \A n \in Names :
                            artifacts[cmd[o].run][n] = ArtifactBytes(cmd[o], n)
                     /\ pc[o] \in {"digest", "ledger"} =>
                          records[RecordId(o)] = RecordOf(cmd[o].run)
                     /\ pc[o] = "derive" \/ Publishing(o) => Whole(cmd[o]))'
  BY DEF WholeOK
<1>1. cmd'[o] = cmd[o]
  OBVIOUS
<1>2. ASSUME pc'[o] \in {"record", "digest", "ledger"}
      PROVE  (\A n \in Names : artifacts[cmd[o].run][n] = ArtifactBytes(cmd[o], n))'
  <2>1. \A n \in Names : artifacts[cmd[o].run][n] = ArtifactBytes(cmd[o], n)
    BY <1>2 DEF WholeOK
  <2> QED
    BY <1>1, <2>1 DEF ArtifactBytes
<1>3. ASSUME pc'[o] \in {"digest", "ledger"}
      PROVE  (records[RecordId(o)] = RecordOf(cmd[o].run))'
  <2>1. records[RecordId(o)] = RecordOf(cmd[o].run) /\ RecordId(o)' = RecordId(o)
    BY <1>3 DEF WholeOK
  <2> QED
    BY <1>1, <2>1 DEF RecordOf
<1>4. ASSUME pc'[o] = "derive" \/ Publishing(o)'
      PROVE  Whole(cmd[o])'
  <2>1. Whole(cmd[o])
    BY <1>4 DEF WholeOK
  <2> QED
    BY <1>1, <2>1 DEF Whole, RecordOf, ArtifactBytes
<1> QED
  BY <1>2, <1>3, <1>4

LEMMA BeginAddRunKeeps ==
  ASSUME OneAtATime, Known, TreeOK, NEW q \in Publishers, NEW r \in Runs,
         NEW p \in Passports, NEW a \in Passports, BeginAddRun(q, r, p, a)
  PROVE  TreeOK'
<1> DEFINE c == [run |-> r, passport |-> p, after |-> a]
<1>1. \A o \in Publishers : o = q
  BY DEF OneAtATime
<1>2. pc'[q] = "stage" /\ cmd'[q] = c
  BY DEF BeginAddRun, Known, TypeOK
<1>3. c # NoFile /\ c.run = r
  <2>1. c \in Command
    BY DEF Command
  <2> QED
    BY <2>1, AbsenceAssumption
<1> HIDE DEF c
<1>4. WholeOK' /\ PlansOK' /\ SuiteOK'
  BY <1>1, <1>2 DEF WholeOK, PlansOK, SuiteOK, Publishing
<1>5. RecordsOK'
  BY <1>1, <1>2, RecordsKept DEF BeginAddRun, TreeOK, Publishing
<1>6. OriginOK'
  <2>1. DOMAIN origin' = Publishers
    BY DEF BeginAddRun, TreeOK, OriginOK
  <2>2. ASSUME origin'[q] # NoFile
        PROVE  /\ MachineGates /\ artifacts[r] = [n \in Names |-> NoFile]
               /\ origin'[q] = tree
    BY <2>2 DEF BeginAddRun, TreeOK, OriginOK
  <2>3. ASSUME origin'[q] # NoFile, NEW x \in Content
        PROVE  <<r, x>> \notin runsIndex
    <3>1. runsIndex = RunsIndexText /\ r \notin PublishedPassports
      BY <2>2, <2>3 DEF MachineGates, CheckPasses, PublishedPassports, Names
    <3> QED
      BY <3>1 DEF RunsIndexText
  <2>4. UNCHANGED <<tree, runsIndex>>
    BY DEF BeginAddRun
  <2> QED
    BY <1>1, <1>2, <1>3, <2>1, <2>2, <2>3, <2>4 DEF OriginOK
<1> QED
  BY <1>4, <1>5, <1>6 DEF TreeOK

\* The steps of a command that has written none of its files.
Unwritten == Proving \cup {"load", "run-passport.json"}

\* The steps that write nothing but the staging directory or a local.
LEMMA ReadingKeeps ==
  ASSUME OneAtATime, Known, TreeOK, NEW q \in Publishers,
         ProveStep(q) \/ LoadLedger(q) \/ DigestRecord(q)
  PROVE  TreeOK'
<1>1. \A o \in Publishers : o = q
  BY DEF OneAtATime
<1>2. UNCHANGED <<tree, corpus>>
  BY ProvingMoves DEF LoadLedger, DigestRecord
<1>3. pc'[q] \in Proving \cup {"idle", "load", "run-passport.json", "ledger"}
  BY ProvingMoves DEF LoadLedger, DigestRecord, Exit, Known, TypeOK
<1>4. RecordsOK'
  BY <1>1, <1>2, <1>3, RecordsKept DEF TreeOK, Publishing, Proving
<1>5. CASE Exit(q)
  BY <1>4, <1>5, Ended DEF Known, TreeOK, OriginOK
<1>6. CASE ~ Exit(q)
  <2>1. UNCHANGED <<cmd, origin>>
    BY <1>6, ProvingMoves DEF LoadLedger, DigestRecord
  <2>2. \/ /\ pc[q] \in Proving \cup {"load"}
           /\ pc'[q] \in Unwritten
        \/ pc[q] = "digest" /\ pc'[q] = "ledger" /\ UNCHANGED view
    BY <1>6, ProvingMoves DEF LoadLedger, DigestRecord, Known, TypeOK, Unwritten
  <2>3. PlansOK' /\ SuiteOK'
    BY <1>1, <2>2 DEF PlansOK, SuiteOK, Publishing, Proving, Unwritten
  <2>4. WholeOK'
    BY <1>1, <1>2, <2>1, <2>2
    DEF TreeOK, WholeOK, Publishing, RecordId, RecordOf, Proving, Unwritten
  <2>5. OriginOK'
    BY <1>1, <1>2, <2>1, <2>2 DEF TreeOK, OriginOK, Proving, Unwritten
  <2> QED
    BY <1>4, <2>3, <2>4, <2>5 DEF TreeOK
<1> QED
  BY <1>5, <1>6

LEMMA WriteArtifactKeeps ==
  ASSUME OneAtATime, Known, TreeOK, NEW q \in Publishers, NEW n \in Names,
         WriteArtifact(q, n)
  PROVE  TreeOK'
<1>1. \A o \in Publishers : o = q
  BY DEF OneAtATime
<1>2. /\ pc'[q] = AfterArtifact[n] /\ pc[q] = n
      /\ UNCHANGED <<records, ledger, runsIndex, cmd, origin>>
  BY DEF WriteArtifact, Known, TypeOK
<1>3. AfterArtifact[n] \in {"run-passport.tampered.json", "target-after", "record"}
  BY DEF AfterArtifact, Names
<1>4. RecordsOK'
  BY <1>1, <1>2, <1>3, RecordsKept DEF TreeOK, Publishing
<1>5. PlansOK' /\ SuiteOK'
  BY <1>1, <1>2, <1>3 DEF PlansOK, SuiteOK, Publishing
<1>6. OriginOK'
  BY <1>1, <1>2, <1>3 DEF TreeOK, OriginOK, Names, Proving
<1>7. WholeOK'
  <2>1. ASSUME pc'[q] = "record", NEW m \in Names
        PROVE  artifacts'[cmd[q].run][m] = ArtifactBytes(cmd[q], m)
    <3>1. n = "target-after"
      BY <1>2, <2>1 DEF AfterArtifact, Names
    <3>2. cmd[q].run \in Runs
      BY <1>2, CommandIsThere DEF Known, Command, AddSteps, Steps, Names
    <3>3. artifacts'[cmd[q].run][n] = ArtifactBytes(cmd[q], n)
      BY <3>2 DEF WriteArtifact, Known, TypeOK
    <3>4. m # n => artifacts'[cmd[q].run][m] = artifacts[cmd[q].run][m]
      BY <3>2 DEF WriteArtifact, Known, TypeOK
    <3>5. m # n => artifacts[cmd[q].run][m] = ArtifactBytes(cmd[q], m)
      BY <1>2, <3>1 DEF Known, WritesOK, ArtifactBytes, Names
    <3> QED
      BY <3>3, <3>4, <3>5
  <2> QED
    BY <1>1, <1>2, <1>3, <2>1 DEF WholeOK, Publishing
<1> QED
  BY <1>4, <1>5, <1>6, <1>7 DEF TreeOK

\* The identifier of the command's record is the next one of the ledger.
LEMMA RecordIsNext ==
  ASSUME Known, NEW q \in Publishers, pc[q] \in Writing
  PROVE  /\ ledger # Torn /\ view[q] = ledger
         /\ RecordId(q) = NextIdentifier(ledger.evidence) /\ RecordId(q) \in Ids
BY DEF Known, ViewsOK, LocalsOK, RecordId, Writing, AfterLoad, AfterProof, Proving, AddSteps, Steps,
       Names

LEMMA WriteRecordKeeps ==
  ASSUME OneAtATime, Known, TreeOK, NEW q \in Publishers, WriteRecord(q)
  PROVE  TreeOK'
<1>1. \A o \in Publishers : o = q
  BY DEF OneAtATime
<1>2. /\ pc[q] = "record" /\ pc'[q] = "digest"
      /\ records' = [records EXCEPT ![RecordId(q)] = RecordOf(cmd[q].run)]
      /\ UNCHANGED <<artifacts, ledger, runsIndex, cmd, view, origin>>
  BY DEF WriteRecord, Known, TypeOK
<1>3. /\ RecordId(q) = NextIdentifier(ledger.evidence) /\ RecordId(q) \in Ids /\ ledger # Torn
  BY <1>2, RecordIsNext DEF Writing
<1>4. RecordOf(cmd[q].run) # NoFile
  <2>1. cmd[q].run \in Runs
    BY <1>2, CommandIsThere DEF Known, Command, AddSteps, Steps
  <2> QED
    BY <2>1, RecordOfType, AbsenceAssumption DEF Known
<1>5. records'[RecordId(q)] = RecordOf(cmd[q].run)
  BY <1>2, <1>3 DEF Known, TypeOK
<1>6. Filed' = Filed \cup {RecordId(q)}
  BY <1>2, <1>3, <1>4 DEF Known, TypeOK, Filed
<1>7. RecordsOK'
  BY <1>1, <1>2, <1>3, <1>6 DEF TreeOK, RecordsOK, Indexed, Publishing
<1>8. PlansOK' /\ SuiteOK'
  BY <1>1, <1>2 DEF PlansOK, SuiteOK, Publishing
<1>9. OriginOK'
  BY <1>1, <1>2 DEF TreeOK, OriginOK, Proving
<1>10. WholeOK'
  BY <1>1, <1>2, <1>5 DEF TreeOK, WholeOK, Publishing, RecordId, RecordOf
<1> QED
  BY <1>7, <1>8, <1>9, <1>10 DEF TreeOK

LEMMA WriteLedgerKeeps ==
  ASSUME OneAtATime, Known, TreeOK, NEW q \in Publishers, WriteLedger(q)
  PROVE  TreeOK'
<1> DEFINE e0 == [id |-> RecordId(q), sha256 |-> digest[q]]
           c0 == [id |-> ClaimId(q), statement |-> cmd[q].passport,
                  evidence |-> RecordId(q)]
<1>1. \A o \in Publishers : o = q
  BY DEF OneAtATime
<1>2. /\ pc[q] = "ledger" /\ pc'[q] = "derive" /\ ledger' = NewLedger(q)
      /\ UNCHANGED <<artifacts, records, runsIndex, cmd, view, origin>>
  BY DEF WriteLedger, Known, TypeOK
<1>3. /\ view[q] = ledger /\ ledger # Torn
      /\ RecordId(q) = NextIdentifier(ledger.evidence) /\ RecordId(q) \in Ids
  BY <1>2, RecordIsNext DEF Writing
<1>4. ledger' # Torn
  BY <1>2, NewLedgerIsWhole DEF Known
<1>5. /\ ledger'.evidence = ledger.evidence \cup {e0}
      /\ c0 \in ledger'.claims
  BY <1>2, <1>3 DEF NewLedger
<1>6. digest[q] = RecordOf(cmd[q].run) /\ records[RecordId(q)] = RecordOf(cmd[q].run)
  BY <1>2 DEF Known, ViewsOK, TreeOK, WholeOK
<1>7. RecordsOK'
  <2>1. RecordOf(cmd[q].run) # NoFile
    <3>1. cmd[q].run \in Runs
      BY <1>2, CommandIsThere DEF Known, Command, AddSteps, Steps
    <3> QED
      BY <3>1, RecordOfType, AbsenceAssumption DEF Known
  <2>2. RecordId(q) \in Filed /\ Filed' = Filed
    BY <1>2, <1>3, <1>6, <2>1 DEF Filed
  <2>3. Indexed' = Indexed \cup {RecordId(q)}
    <3>1. e0.id = RecordId(q)
      OBVIOUS
    <3> HIDE DEF e0
    <3> QED
      BY <1>5, <3>1 DEF Indexed
  <2>4. Filed' = Indexed'
    BY <1>3, <2>2, <2>3 DEF TreeOK, RecordsOK
  <2> QED
    BY <1>4, <2>4 DEF RecordsOK
<1>8. PlansOK' /\ SuiteOK'
  BY <1>1, <1>2 DEF PlansOK, SuiteOK, Publishing
<1>9. OriginOK'
  BY <1>1, <1>2 DEF TreeOK, OriginOK, Proving
<1>10. WholeOK'
  <2>1. \A n \in Names : artifacts'[cmd[q].run][n] = ArtifactBytes(cmd[q], n)
    BY <1>2 DEF TreeOK, WholeOK
  <2>2. RecordOf(cmd[q].run)' = RecordOf(cmd[q].run)
    BY <1>2 DEF RecordOf
  <2>3. \E k \in ledger'.claims, e \in ledger'.evidence :
          /\ k.evidence = e.id /\ k.statement = cmd[q].passport
          /\ e.sha256 = RecordOf(cmd[q].run)
    <3>1. /\ c0.evidence = e0.id /\ c0.statement = cmd[q].passport
          /\ e0.sha256 = RecordOf(cmd[q].run)
      BY <1>6
    <3>2. e0 \in ledger'.evidence
      BY <1>5
    <3> HIDE DEF e0, c0
    <3> QED
      BY <1>5, <3>1, <3>2
  <2>4. Whole(cmd[q])'
    BY <1>2, <1>4, <2>1, <2>2, <2>3 DEF Whole
  <2> QED
    BY <1>1, <1>2, <2>4 DEF WholeOK, Publishing
<1> QED
  BY <1>7, <1>8, <1>9, <1>10 DEF TreeOK

LEMMA DeriveKeeps ==
  ASSUME OneAtATime, Known, TreeOK, NEW q \in Publishers, Derive(q)
  PROVE  TreeOK'
<1>1. \A o \in Publishers : o = q
  BY DEF OneAtATime
<1>2. UNCHANGED <<tree, corpus>> /\ pc[q] = "derive"
  BY DEF Derive
<1>3. RecordsOK'
  BY <1>1, <1>2, RecordsKept DEF TreeOK
<1>4. CASE Exit(q)
  BY <1>3, <1>4, Ended DEF Known, TreeOK, OriginOK
<1>5. CASE ~ Exit(q)
  <2>1. /\ CoverageHolds /\ ledger # Torn
        /\ \A r \in Runs : artifacts[r]["run-passport.json"] # Torn
        /\ plan'[q] = [readme |-> ClaimRows, runsIndex |-> RunsIndexText,
                       manifest |-> Suite[corpus]]
        /\ pc'[q] = "readme" /\ UNCHANGED <<cmd, origin>>
    BY <1>5 DEF Derive, Known, TypeOK
  <2>2. {Provokes[c] : c \in CasesOf(Suite[corpus])} \cup NotReachable = Declared
    BY <2>1 DEF CoverageHolds
  <2>3. PlansOK'
    BY <1>1, <1>2, <2>1, <2>2
    DEF PlansOK, Publishing, ClaimRows, RunsIndexText, PublishedPassports
  <2>4. WholeOK'
    BY <1>1, <1>2, <2>1, WholeKept DEF TreeOK, Publishing
  <2>5. SuiteOK'
    BY <1>1, <2>1 DEF SuiteOK
  <2>6. OriginOK'
    BY <1>1, <1>2, <2>1 DEF TreeOK, OriginOK, Proving
  <2> QED
    BY <1>3, <2>3, <2>4, <2>5, <2>6 DEF TreeOK
<1> QED
  BY <1>4, <1>5

\* The three files of the plan before the last.
LEMMA PlannedWriteKeeps ==
  ASSUME OneAtATime, Known, TreeOK, NEW q \in Publishers,
         WriteReadme(q) \/ WriteRunsIndex(q) \/ WritePassportSpec(q)
  PROVE  TreeOK'
<1>1. \A o \in Publishers : o = q
  BY DEF OneAtATime
<1>2. UNCHANGED <<artifacts, records, ledger, corpus, plan, cmd, origin>>
  BY DEF WriteReadme, WriteRunsIndex, WritePassportSpec
<1>3. \/ /\ pc[q] = "readme" /\ pc'[q] = "runs.md"
         /\ readme' = plan[q].readme /\ UNCHANGED runsIndex
      \/ /\ pc[q] = "runs.md" /\ pc'[q] = "passport-spec"
         /\ runsIndex' = plan[q].runsIndex /\ UNCHANGED readme
      \/ /\ pc[q] = "passport-spec" /\ pc'[q] = "manifest"
         /\ passportSpec' = Declared /\ UNCHANGED <<readme, runsIndex>>
  BY DEF WriteReadme, WriteRunsIndex, WritePassportSpec, Known, TypeOK
<1>4. cmd[q] # NoFile
  BY <1>3, CommandIsThere DEF Known, AddSteps, Steps
<1>5. Publishing(q)
  BY <1>3 DEF Publishing
<1>6. RecordsOK'
  BY <1>1, <1>2, <1>5, RecordsKept DEF TreeOK
<1>7. WholeOK'
  BY <1>1, <1>2, <1>3, <1>5, WholeKept DEF TreeOK, Publishing
<1>8. PlansOK'
  BY <1>1, <1>2, <1>3, <1>5
  DEF TreeOK, PlansOK, ClaimRows, RunsIndexText, PublishedPassports
<1>9. SuiteOK'
  BY <1>1, <1>2, <1>3, <1>4 DEF SuiteOK
<1>10. OriginOK'
  BY <1>1, <1>2, <1>3 DEF TreeOK, OriginOK, Proving
<1> QED
  BY <1>6, <1>7, <1>8, <1>9, <1>10 DEF TreeOK

LEMMA WriteManifestKeeps ==
  ASSUME OneAtATime, Known, TreeOK, NEW q \in Publishers, WriteManifest(q)
  PROVE  TreeOK'
<1>1. /\ \A o \in Publishers : pc'[o] = "idle"
      /\ WholeOK' /\ PlansOK' /\ SuiteOK' /\ OriginOK'
  BY Ended DEF WriteManifest, Known, TreeOK, OriginOK
<1>2. RecordsOK'
  BY <1>1, RecordsKept DEF WriteManifest, TreeOK, Publishing
<1> QED
  BY <1>1, <1>2 DEF TreeOK

LEMMA GenerateKeeps ==
  ASSUME OneAtATime, Known, TreeOK, NEW q \in Publishers, GenerateStep(q)
  PROVE  TreeOK'
<1>1. \A o \in Publishers : o = q
  BY DEF OneAtATime
<1>2. UNCHANGED <<artifacts, records, ledger, derived, corpus, cmd, origin>>
  BY DEF GenerateStep, BeginGenerate, ClearVector, WriteVector
<1>3. pc[q] \in {"idle", "clear", "vectors"} /\ pc'[q] \in {"clear", "vectors", "manifest"}
  BY DEF GenerateStep, BeginGenerate, ClearVector, WriteVector, Known, TypeOK
<1>4. cmd[q] = NoFile /\ origin[q] = NoFile
  BY <1>3 DEF TreeOK, SuiteOK, OriginOK
<1>5. WholeOK' /\ PlansOK' /\ OriginOK'
  BY <1>1, <1>2, <1>3, <1>4 DEF WholeOK, PlansOK, TreeOK, OriginOK, Publishing
<1>6. RecordsOK'
  BY <1>1, <1>2, <1>3, <1>4, RecordsKept DEF TreeOK, Publishing
<1>7. SuiteOK'
  <2>1. CASE BeginGenerate(q)
    <3>1. pc'[q] = "clear" /\ plan'[q] = [manifest |-> Suite[corpus]]
      BY <2>1 DEF BeginGenerate, Known, TypeOK
    <3> QED
      BY <1>1, <1>2, <1>4, <3>1 DEF SuiteOK
  <2>2. CASE ClearVector(q)
    <3>1. pc[q] = "clear" /\ UNCHANGED plan
      BY <2>2 DEF ClearVector
    <3>2. pc'[q] = "clear" \/ (pc'[q] = "vectors" /\ \A i \in Inputs : vectors'[i] = NoFile)
      BY <2>2 DEF ClearVector, Known, TypeOK
    <3> QED
      BY <1>1, <1>2, <1>4, <3>1, <3>2 DEF TreeOK, SuiteOK
  <2>3. CASE WriteVector(q)
    <3> DEFINE suite == Suite[corpus]
    <3>1. /\ pc[q] = "vectors" /\ UNCHANGED plan
          /\ plan[q] = [manifest |-> suite] /\ plan[q].manifest = suite
      BY <2>3 DEF WriteVector, TreeOK, SuiteOK
    <3>2. DOMAIN suite \subseteq Inputs
      BY ConstantsAssumption DEF Known, TypeOK
    <3>3. \A i \in Inputs : vectors[i] = NoFile \/ (i \in DOMAIN suite /\ vectors[i] = suite[i])
      BY <3>1 DEF TreeOK, SuiteOK
    <3>4. CASE pc'[q] = "vectors"
      <4>1. \/ UNCHANGED vectors
            \/ \E i \in DOMAIN suite : vectors' = [vectors EXCEPT ![i] = suite[i]]
        BY <2>3, <3>1 DEF WriteVector
      <4>2. \A i \in Inputs :
              vectors'[i] = NoFile \/ (i \in DOMAIN suite /\ vectors'[i] = suite[i])
        BY <3>3, <4>1 DEF Known, TypeOK
      <4> QED
        BY <1>1, <1>2, <1>4, <3>1, <3>4, <4>2 DEF SuiteOK
    <3>5. CASE pc'[q] # "vectors"
      <4>1. /\ UNCHANGED vectors /\ pc'[q] = "manifest"
            /\ \A i \in DOMAIN suite : vectors[i] # NoFile
        BY <2>3, <3>1, <3>5 DEF WriteVector, Known, TypeOK
      <4>2. \A i \in Inputs : vectors[i] = IF i \in DOMAIN suite THEN suite[i] ELSE NoFile
        BY <3>3, <4>1
      <4>3. vectors = [i \in Inputs |-> vectors[i]]
        BY DEF Known, TypeOK
      <4>4. vectors = VectorsOf(suite)
        BY <4>2, <4>3 DEF VectorsOf
      <4>5. VectorsCurrent'
        BY <1>2, <4>1, <4>4 DEF VectorsCurrent
      <4> QED
        BY <1>1, <1>2, <1>4, <3>1, <4>1, <4>5 DEF SuiteOK
    <3> QED
      BY <3>4, <3>5
  <2> QED
    BY <2>1, <2>2, <2>3 DEF GenerateStep
<1> QED
  BY <1>5, <1>6, <1>7 DEF TreeOK

LEMMA KilledKeeps ==
  ASSUME OneAtATime, Known, TreeOK, NEW q \in Publishers,
         Crash(q) \/ TearStaged(q) \/ TearWrite(q)
  PROVE  TreeOK'
<1>1. /\ \A o \in Publishers : pc'[o] = "idle"
      /\ WholeOK' /\ PlansOK' /\ SuiteOK' /\ OriginOK'
  BY Ended DEF Crash, TearStaged, TearWrite, Killed, Known, TreeOK, OriginOK
<1>2. RecordsOK'
  <2>1. CASE UNCHANGED records
    <3>1. ledger' = ledger \/ ledger' = Torn
      BY DEF Crash, TearStaged, TearWrite
    <3> QED
      BY <1>1, <2>1, <3>1, RecordsKept DEF TreeOK, Publishing
  <2>2. CASE /\ pc[q] = "record" /\ UNCHANGED ledger
             /\ records' = [records EXCEPT ![RecordId(q)] = Torn]
    <3>1. RecordId(q) = NextIdentifier(ledger.evidence) /\ ledger # Torn /\ RecordId(q) \in Ids
      BY <2>2, RecordIsNext DEF Writing
    <3>2. Filed' \subseteq Filed \cup {RecordId(q)}
      BY <2>2, <3>1 DEF Filed, Known, TypeOK
    <3>3. \A e \in ledger.evidence : e.id # RecordId(q)
      <4>1. view[q] = ledger /\ pc[q] \in AfterLoad
        BY <2>2, RecordIsNext DEF Writing, AfterLoad, AfterProof, Proving, AddSteps, Steps
      <4> QED
        BY <4>1, NewLedgerNumbered DEF Known
    <3>4. Indexed' \subseteq Filed'
      BY <2>2, <3>1, <3>3 DEF Filed, Indexed, Known, TypeOK, TreeOK, RecordsOK
    <3> QED
      BY <1>1, <2>2, <3>1, <3>2, <3>4 DEF TreeOK, RecordsOK, Indexed, Publishing
  <2> QED
    BY <2>1, <2>2 DEF Crash, TearStaged, TearWrite
<1> QED
  BY <1>1, <1>2 DEF TreeOK

LEMMA HumanKeeps ==
  ASSUME Known, TreeOK, Human
  PROVE  TreeOK'
<1>1. \A o \in Publishers : pc'[o] = "idle" /\ cmd'[o] = NoFile /\ origin'[o] = NoFile
  BY DEF Human, EditCorpus, MirrorClaims, Quiet, TreeOK, SuiteOK, OriginOK
<1>2. UNCHANGED <<records, ledger, origin>>
  BY DEF Human, EditCorpus, MirrorClaims
<1>3. WholeOK' /\ PlansOK' /\ SuiteOK' /\ OriginOK'
  BY <1>1, <1>2, IdleKeeps DEF TreeOK, OriginOK, Proving
<1>4. RecordsOK'
  BY <1>1, <1>2, RecordsKept DEF TreeOK, Publishing
<1> QED
  BY <1>3, <1>4 DEF TreeOK

LEMMA StutterKeeps ==
  ASSUME TreeOK, UNCHANGED vars
  PROVE  TreeOK'
<1>1. \A o \in Publishers : (Publishing(o) <=> Publishing(o)') /\ RecordId(o)' = RecordId(o)
  BY DEF vars, Publishing, RecordId
<1>2. WholeOK'
  BY <1>1, WholeKept DEF vars, TreeOK
<1>3. RecordsOK'
  BY <1>1 DEF vars, TreeOK, RecordsOK, Filed, Indexed
<1>4. PlansOK'
  BY <1>1 DEF vars, TreeOK, PlansOK, ClaimRows, RunsIndexText, PublishedPassports
<1>5. SuiteOK' /\ OriginOK'
  BY DEF vars, TreeOK, SuiteOK, OriginOK, VectorsCurrent
<1> QED
  BY <1>2, <1>3, <1>4, <1>5 DEF TreeOK

LEMMA NextTree ==
  ASSUME OneAtATime, Known, TreeOK, [Next]_vars
  PROVE  TreeOK'
<1>1. CASE \E q \in Publishers : AddRunStep(q)
  BY <1>1, BeginAddRunKeeps, ReadingKeeps, WriteArtifactKeeps, WriteRecordKeeps,
     WriteLedgerKeeps, DeriveKeeps, PlannedWriteKeeps, WriteManifestKeeps,
     ConstantsAssumption
  DEF AddRunStep
<1>2. CASE \E q \in Publishers :
             GenerateStep(q) \/ Crash(q) \/ TearStaged(q) \/ TearWrite(q)
  BY <1>2, GenerateKeeps, KilledKeeps
<1> QED
  BY <1>1, <1>2, HumanKeeps, StutterKeeps DEF Next

\* What the locals of a command mean, the numbering of the ledger, what a command
\* finds again and what the files owe to each other, in every state that commands reach
\* one at a time.
THEOREM Invariant ==
  ASSUME OneAtATime
  PROVE  Spec => [](Known /\ TreeOK /\ IInv)
<1> DEFINE Inv == Known /\ TreeOK
<1>1. Init => Inv
  BY InitLocals, InitProofs, InitNumbering, InitViews, InitWrites, InitTree
  DEF Known, TreeOK, Init
<1>2. Inv /\ [Next]_vars => Inv'
  BY OneAtATime, NextLocals, NextProofs, NextShared, NextNumbering, NextViews, NextWrites, NextTree
  DEF Known
<1>3. Inv => IInv
  BY DEF Known, TreeOK, IInv
<1> QED
  BY <1>1, <1>2, <1>3, PTL DEF Spec

-----------------------------------------------------------------------------
(* What a command leaves behind when it ends.                              *)

\* A generate-conformance that exits 0 leaves the vectors and the manifest of the corpus,
\* from whatever state a kill or an edit left (write_conformance_suite).
THEOREM GenerationRepairs ==
  ASSUME OneAtATime
  PROVE  Spec => GenerateRepairs
<1>1. ASSUME Known, TreeOK, NEW q \in Publishers, WriteManifest(q), cmd[q] = NoFile
      PROVE  (VectorsCurrent /\ manifest = Suite[corpus])'
  <2>1. plan[q] = [manifest |-> Suite[corpus]] /\ VectorsCurrent
    BY <1>1 DEF WriteManifest, TreeOK, SuiteOK
  <2>2. manifest' = plan[q].manifest /\ UNCHANGED <<vectors, corpus>>
    BY <1>1 DEF WriteManifest
  <2> QED
    BY <2>1, <2>2 DEF VectorsCurrent
<1>2. Known /\ TreeOK =>
        [\A q \in Publishers : WriteManifest(q) /\ cmd[q] = NoFile =>
           (VectorsCurrent /\ manifest = Suite[corpus])']_vars
  BY <1>1
<1> QED
  BY <1>2, Invariant, PTL DEF GenerateRepairs

\* What add-run has when it writes its last file.
LEMMA LastWriteCompletes ==
  ASSUME Known, TreeOK, NEW q \in Publishers, WriteManifest(q), cmd[q] # NoFile, VectorsCurrent
  PROVE  MachineGates'
<1>1. /\ Publishing(q) /\ pc[q] = "manifest"
      /\ UNCHANGED <<artifacts, records, ledger, vectors, readme, runsIndex, passportSpec, corpus>>
      /\ manifest' = plan[q].manifest
  BY DEF WriteManifest, Publishing
<1>2. /\ plan[q] = [readme |-> ClaimRows, runsIndex |-> RunsIndexText, manifest |-> Suite[corpus]]
      /\ \A r \in Runs : artifacts[r]["run-passport.json"] # Torn
      /\ {Provokes[c] : c \in CasesOf(Suite[corpus])} \cup NotReachable = Declared
      /\ readme = plan[q].readme /\ runsIndex = plan[q].runsIndex /\ passportSpec = Declared
  BY <1>1 DEF TreeOK, PlansOK
<1>3. /\ readme = ClaimRows /\ runsIndex = RunsIndexText /\ manifest' = Suite[corpus]
  BY <1>1, <1>2
<1>4. Suite[corpus] # Torn /\ DOMAIN Suite[corpus] \subseteq Inputs
  BY ConstantsAssumption, AbsenceAssumption DEF Known, TypeOK, Suites
<1>5. ledger # Torn /\ Filed = Indexed /\ LedgerDigestsHold
  BY <1>1 DEF TreeOK, RecordsOK, Known, LedgerDescribesRecords
<1>6. CoverageHolds'
  <2>1. \A i \in DOMAIN Suite[corpus] : vectors[i] = Suite[corpus][i] /\ vectors[i] \in Cases
    BY <1>4, ConstantsAssumption DEF VectorsCurrent, VectorsOf, Known, TypeOK
  <2> QED
    BY <1>1, <1>2, <1>3, <1>4, <2>1 DEF CoverageHolds
<1>7. LedgerDigestsHold' /\ VectorsCurrent'
  BY <1>1, <1>5 DEF LedgerDigestsHold, VectorsCurrent
<1>8. (RunsIndexText = runsIndex)' /\ (readme = ClaimRows)'
  BY <1>1, <1>3 DEF RunsIndexText, PublishedPassports, ClaimRows
<1>9. CheckPasses'
  BY <1>1, <1>2, <1>3, <1>5, <1>6, <1>7, <1>8 DEF CheckPasses
<1>10. RunsVerify'
  BY <1>1, <1>2 DEF RunsVerify, PublishedPassports, Known, OnlyProvenArtifacts
<1>11. RecordsIndexed'
  BY <1>1, <1>5, <1>7 DEF RecordsIndexed, Filed, Indexed
<1> QED
  BY <1>9, <1>10, <1>11 DEF MachineGates

\* An add-run that exits 0 leaves a tree that check, check_runs.py and the record gate
\* all accept, whatever earlier commands, killed anywhere, left behind.
THEOREM PublicationIsAccepted ==
  ASSUME OneAtATime
  PROVE  Spec => PublishedIsAccepted
<1>1. Known /\ TreeOK =>
        [\A q \in Publishers :
           WriteManifest(q) /\ cmd[q] # NoFile /\ VectorsCurrent => MachineGates']_vars
  BY LastWriteCompletes
<1> QED
  BY <1>1, Invariant, PTL DEF PublishedIsAccepted

\* A run whose passport is there and which the index does not name is refused.
LEMMA UnindexedIsRefused ==
  ASSUME TypeOK', NEW r \in Runs, NEW p \in Passports,
         artifacts'[r]["run-passport.json"] \in {p, Torn},
         runsIndex' = Torn \/ <<r, p>> \notin runsIndex'
  PROVE  ~ MachineGates'
<1>1. p # NoFile
  BY AbsenceAssumption
<1>2. CASE artifacts'[r]["run-passport.json"] = Torn
  BY <1>2 DEF MachineGates, CheckPasses
<1>3. CASE artifacts'[r]["run-passport.json"] = p
  <2>1. <<r, p>> \in RunsIndexText'
    BY <1>1, <1>3 DEF RunsIndexText, PublishedPassports
  <2>2. RunsIndexText' \in SUBSET (Runs \X Content)
    BY DEF TypeOK, RunsIndexText, PublishedPassports, Names
  <2>3. runsIndex' # RunsIndexText'
    BY <2>1, <2>2, AbsenceAssumption
  <2> QED
    BY <2>3 DEF MachineGates, CheckPasses
<1> QED
  BY <1>2, <1>3

\* The pair a command has published is in its place until it ends.
LEMMA PassportIsPublished ==
  ASSUME Known, TreeOK, NEW q \in Publishers,
         pc[q] \in AddSteps \ Unwritten
  PROVE  /\ cmd[q].run \in Runs /\ cmd[q].passport \in Passports
         /\ artifacts[cmd[q].run]["run-passport.json"] = cmd[q].passport
<1>1. cmd[q].run \in Runs /\ cmd[q].passport \in Passports
  BY CommandIsThere DEF Known, Command
<1>2. CASE pc[q] \in {"run-passport.tampered.json", "target-after", "record"}
  BY <1>1, <1>2 DEF Known, WritesOK
<1>3. CASE pc[q] \in {"digest", "ledger"}
  BY <1>1, <1>3 DEF TreeOK, WholeOK, ArtifactBytes, Names
<1>4. CASE pc[q] \in {"derive", "readme", "runs.md", "passport-spec"}
  BY <1>1, <1>4 DEF TreeOK, WholeOK, Publishing, Whole, ArtifactBytes, Names
<1> QED
  BY <1>1, <1>2, <1>3, <1>4 DEF AddSteps, Steps, Names, Unwritten, Proving

\* Where a command that began on an accepted tree, in a new directory, may end.
LEMMA EndsSomewhere ==
  ASSUME OneAtATime, Known, TreeOK, Next, NEW q \in Publishers, Ends(q), origin[q] # NoFile
  PROVE  /\ \/ UNCHANGED tree
            \/ pc[q] = "manifest" /\ UNCHANGED <<artifacts, records, ledger, runsIndex>>
            \/ TearWrite(q)
         /\ \/ pc[q] \in Unwritten
            \/ pc[q] \in AddSteps \ (Unwritten \cup {"passport-spec"})
            \/ Publishing(q) /\ pc[q] \in {"passport-spec", "manifest"}
         /\ cmd[q] # NoFile
<1>1. \A o \in Publishers : o = q
  BY DEF OneAtATime
<1>2. cmd[q] # NoFile /\ pc[q] \notin {"idle", "clear", "vectors"} /\ pc[q] \in Steps
  BY DEF TreeOK, OriginOK, SuiteOK, Known, TypeOK
<1>3. \/ pc[q] \in Unwritten
      \/ pc[q] \in AddSteps \ (Unwritten \cup {"passport-spec"})
      \/ Publishing(q) /\ pc[q] \in {"passport-spec", "manifest"}
  BY <1>2 DEF Publishing, AddSteps
<1>4. ASSUME AddRunStep(q)
      PROVE  \/ UNCHANGED tree
             \/ pc[q] = "manifest" /\ UNCHANGED <<artifacts, records, ledger, runsIndex>>
  <2>1. pc[q] # "idle" /\ pc'[q] = "idle"
    BY DEF Ends
  <2>2. ProveStep(q) \/ LoadLedger(q) \/ Derive(q) \/ WriteManifest(q)
    BY <1>4, <2>1
    DEF AddRunStep, BeginAddRun, WriteArtifact, AfterArtifact, WriteRecord,
        DigestRecord, WriteLedger, WriteReadme, WriteRunsIndex, WritePassportSpec, Known,
        TypeOK, Names
  <2> QED
    BY <2>2, ProvingMoves DEF LoadLedger, Derive, WriteManifest
<1>5. ~ GenerateStep(q)
  BY <1>2 DEF GenerateStep, BeginGenerate, ClearVector, WriteVector
<1>6. ~ Human
  BY DEF Human, EditCorpus, MirrorClaims, Ends
<1>7. Crash(q) \/ TearStaged(q) => UNCHANGED tree
  BY DEF Crash, TearStaged
<1> QED
  BY <1>1, <1>2, <1>3, <1>4, <1>5, <1>6, <1>7 DEF Next

LEMMA EndsCleanly ==
  ASSUME OneAtATime, Known, TypeOK', TreeOK, Next, NEW q \in Publishers, NEW c, c = cmd[q],
         Ends(q), origin[q] # NoFile
  PROVE  tree' = origin[q] \/ ~ MachineGates' \/ Whole(c)'
<1>1. /\ \/ UNCHANGED tree
         \/ pc[q] = "manifest" /\ UNCHANGED <<artifacts, records, ledger, runsIndex>>
         \/ TearWrite(q)
      /\ cmd[q] # NoFile
  BY EndsSomewhere
<1>2. CASE pc[q] \in Unwritten
  <2>1. tree = origin[q]
    BY <1>2 DEF TreeOK, OriginOK, Unwritten
  <2>2. CASE UNCHANGED tree
    BY <2>1, <2>2
  <2>3. CASE TearWrite(q)
    <3>1. /\ cmd[q].run \in Runs
      BY <1>2, CommandIsThere
      DEF Known, Command, AddSteps, Steps, Names, Unwritten, Proving
    <3>2. artifacts'[cmd[q].run]["run-passport.json"] = Torn
      <4>1. pc[q] = "run-passport.json"
        BY <1>2, <2>3 DEF TearWrite, Names, Unwritten, Proving
      <4> QED
        BY <2>3, <3>1, <4>1 DEF TearWrite, Known, TypeOK, Names
    <3> QED
      BY <3>1, <3>2 DEF MachineGates, CheckPasses
  <2> QED
    BY <1>1, <1>2, <2>2, <2>3 DEF Unwritten, Proving
<1>3. CASE pc[q] \in AddSteps \ (Unwritten \cup {"passport-spec"})
  <2>1. /\ cmd[q].run \in Runs /\ cmd[q].passport \in Passports
        /\ artifacts[cmd[q].run]["run-passport.json"] = cmd[q].passport
    BY <1>3, PassportIsPublished
  <2>2. <<cmd[q].run, cmd[q].passport>> \notin runsIndex
    <3>1. pc[q] \notin {"passport-spec", "manifest"} /\ cmd[q].passport \in Content
      BY <1>3, <2>1 DEF AddSteps, Content
    <3> QED
      BY <3>1 DEF TreeOK, OriginOK
  <2>3. artifacts'[cmd[q].run]["run-passport.json"] = cmd[q].passport
    <3>1. CASE UNCHANGED artifacts
      BY <2>1, <3>1
    <3>2. CASE TearWrite(q) /\ ~ UNCHANGED artifacts
      <4>1. pc[q] \in Names /\ artifacts' = [artifacts EXCEPT ![cmd[q].run][pc[q]] = Torn]
        BY <3>2 DEF TearWrite
      <4> QED
        BY <1>3, <2>1, <4>1 DEF Known, TypeOK, Names, Unwritten
    <3> QED
      BY <1>1, <3>1, <3>2
  <2>4. runsIndex' = runsIndex \/ runsIndex' = Torn
    BY <1>1 DEF TearWrite
  <2> QED
    BY <2>1, <2>2, <2>3, <2>4, UnindexedIsRefused
<1>4. CASE Publishing(q) /\ pc[q] \in {"passport-spec", "manifest"}
  <2>1. Whole(c)
    BY <1>4 DEF TreeOK, WholeOK
  <2>2. UNCHANGED <<artifacts, ledger>>
    BY <1>1, <1>4 DEF TearWrite, Names
  <2> QED
    BY <2>1, <2>2 DEF Whole, RecordOf
<1> QED
  BY <1>2, <1>3, <1>4, EndsSomewhere

\* A publication into a new directory of a tree that all gates accept, completed,
\* refused or killed between or inside any of its writes, leaves that tree, a tree that
\* the gates refuse, or the run published whole.
THEOREM NothingIsHalfPublished ==
  ASSUME OneAtATime
  PROVE  Spec => NoSilentPartial
<1>1. Known /\ TreeOK /\ TypeOK' /\ [Next]_vars =>
        [\A q \in Publishers : \A c \in {cmd[q]} :
           Ends(q) /\ origin[q] # NoFile =>
             tree' = origin[q] \/ ~ MachineGates' \/ Whole(c)']_vars
  BY OneAtATime, EndsCleanly
<1>2. Known => TypeOK
  BY DEF Known
<1> QED
  BY <1>1, <1>2, Invariant, PTL DEF NoSilentPartial, Spec
=============================================================================
