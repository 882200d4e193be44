# A verification project for Deedseal

Deedseal's repository publishes *run passports* (signed records of one
supervised run of an agent), the verifier that accepts or refuses them, the
evidence and claims made about them, and the tools and gates that keep all of
that consistent.  This directory holds TLA+ modules of that program, the TLC
configurations that check them on small instances, and theorems about them
checked by TLAPS.  Paths below are relative to the repository; `tools/x.py:12`
is a line of it.

## 1. Inventory

| Component | State it keeps | Operations | Hard behaviour | Correct when |
|---|---|---|---|---|
| Publication tool, `tools/build_publication.py` | run directories, evidence records, ledger, the claim table of `README.md`, `runs.md`, the passport specification's reason list, conformance manifest and vectors | `add-run`, `generate-conformance`, `check` | ten files written one after another with no transaction; kills between and inside writes; retries; two commands at once | only proven pairs are published, the ledger describes the records, `check` refuses every half-written tree |
| Verified-run counter, `tools/check_runs.py` | none | verify every published passport | reads a tree a publication may have left half-written | counts what verifies |
| Refusal survey and mutation corpus, `tools/survey_refusals.py`, `demo/refusals/test_refusals.py` | the corpus; manifest and vectors derived from it | evaluate coverage, run cases | corpus, manifest and vectors change at different times | every declared reason is demonstrated or classified |
| Conformance runner, `tools/check_conformance.py` | none | check a manifest's closed contract, run an implementation on each vector | nothing concurrent | both verifiers give each vector its verdict |
| Passport verifier, `tools/verify_run_passport.py` | none | parse, check shape, signatures, bindings, closure; one verdict | the order of some forty refusals decides which one is reported; each binding compares two places of the record | PASS only if every party signed what the record says |
| Second verifier, `verifiers/go/main.go`, compiled to WebAssembly for the browser | none | the same decisions, written independently | disagreement with the first | same verdict on every input of the envelope |
| Browser demonstration, `verifiers/wasm/demo/app.js`, `proof.mjs` | one verifier promise, the interface | load, verify, change one byte, verify again | asynchronous handlers, a deadline, a cached failure | the result shown is that of the bytes shown |
| Boundary probe, `tools/boundary_probe.py` | a temporary tree, a pipe, a child process | fork, restrict the child with Landlock, attempt reads and writes, report | two processes, a pipe, exits and signals | PASS only if the kernel refused what it had to |
| Release manifest builder, `tools/build_release_manifest.py` | an output directory | inventory the tree at a commit, digest, write, verify | files that change while they are read; a write that fails half-way; retry | the manifest describes the commit |
| Public record gate, `tools/validate_public_record.py` | none | schemas, ledger, records, claim graph, proof indexes, README, workflow and text rules | rules that must agree with each other | a tree is accepted only if every claim is backed |
| Build journal gate, `tools/check_public_build_journal.py` | none | schema, grades, coordinates, supersession graph, source links | cycle search, HTTP fallbacks | the journal's entries are ordered and cited |
| Demonstration gates, `tools/check_demonstration.py`, `tools/check_round_trip_v2_target.py`, `demo/tests/` | none | compare fixed files | none | the files agree |
| Brand assets, `assets/src/`, `tools/check_brand_identity.py` | images and text | render, compare | none | pure data |
| Continuous integration, `.github/workflows/` | none | run the gates | none | the gates are required |

How they interact: `add-run` runs the verifier on the pair it is about to
publish, then writes files that `check`, `check_runs.py`, the survey and the
public record gate read later, in continuous integration, with nothing but the
file tree between them.  `generate-conformance` turns the mutation corpus into
the vectors on which both verifiers are run.  The browser demonstration loads
the second verifier and the published passports and twins.

## 2. Modules

| Component | Module | Runs on | Theorems in | Section |
|---|---|---|---|---|
| Publication tool and the gates of its tree | `Publication`, implementing `PublicRecord` | `MCPublication` | `PublicationProofs` | 3 |
| Python verifier, mutation corpus | `PassportVerifier`, `RefusalCorpus` | `MCGoVerifier`, `MCPassportVerifier` | `PassportProofs`, `VerifierProofs` | 4 |
| Second verifier | `GoVerifier`, which extends `RefusalCorpus` | `MCGoVerifier` | `VerifierProofs` | 5 |
| Boundary probe | `BoundaryProbe` | `MCBoundaryProbe` | `BoundaryProbeProofs` | 6 |
| Release manifest builder | `ReleaseManifest` | `MCReleaseManifest` | `ReleaseManifestProofs` | 7 |
| Build journal gate | `BuildJournal` | `MCBuildJournal` | `BuildJournalProofs` | 8 |
| Public record gate | `RecordGate` | `MCRecordGate` | `RecordGateProofs` | 9 |
| Workflow scanner of the same gate | `WorkflowPins`, composed in `RecordGate` | `MCRecordGate` | `RecordGateProofs` | 10 |
| Browser demonstration | `BrowserDemo` | `MCBrowserDemo` | `BrowserDemoProofs` | 11 |

What is composed: `Publication` contains the tool and the gates that read its
tree, since what they share is that tree.  `GoVerifier` decides about the very
passports, edits and signatures of `PassportVerifier`, so that two verdicts on
one state can be compared.  `RecordGate` contains an instance of `WorkflowPins`, the
scan of a workflow as a part of the scan of the tree, so that what the tree's PASS says of
its workflows can be stated.  The other components share nothing at run time but
files of the checkout, which each module has its own editor change.

The table has the most important component first.  What would come next: the schema
interpreter of the public record gate, which would let `formed` be taken apart.

Definitions that begin with the comment *Fault:* are not part of any
specification.  Each is a definition of the code with one mistake in it (a
dropped guard, a missing reset, an order swapped), against which the property
that should notice it is tested.

Where the documents say more than the code does, there is either a run that shows it
(the *findings*) or a property that says under which condition the document is right and
is checked to hold exactly so (*provisos*).

## 3. `Publication`: the publication tool and its gates

One publisher is one invocation of the tool.  `pc` names the step it takes next,
`cmd` its command line (nothing for `generate-conformance`), `view` the ledger it
loaded, `digest` the digest it took of its record, `plan` what `derived_plan` or
`conformance_suite` returned to it, `listed` the staged files it found to remove, and
`origin`, a history variable, the tree it started from when the gates accepted that tree
and its run directory was new.  `shared`, history too, is the run numbers that two
commands were alive at at once.

| Variable | File |
|---|---|
| `artifacts[r][n]` | `examples/verified/run-NNN/` and its files |
| `staging[r][f]` | `examples/verified/run-NNN.staging/` |
| `records[i]` | `evidence/records/EVD-CORE-NNNN.json` |
| `ledger` | `evidence/ledger-v1.json` |
| `readme`, `runsIndex`, `passportSpec`, `manifest` | the four files of `derived_plan` |
| `vectors[i]` | `examples/verified/conformance/vectors/` |
| `corpus` | `demo/refusals/test_refusals.py` |

`add-run` is `BeginAddRun`, `MakeStaging`, `StageFile` and `JudgeFile` for passport and
twin, the `finally` clause (`ListStaged`, `UnlinkStaged`, `RemoveStaging` or `SweepFails`),
`LoadLedger`, one `WriteArtifact` per file, `WriteRecord`, `DigestRecord`, `WriteLedger`, `Derive`,
`WriteReadme`, `WriteRunsIndex`, `WritePassportSpec`, `WriteManifest`;
`generate-conformance` is `BeginGenerate`, `ClearVector` and `WriteVector` per
file, `WriteManifest`.  Each action is the code from one file access to the next.
`Crash` kills a command between two of them, `TearStaged` and `TearWrite` inside one,
which leaves the file `Torn`; `EditCorpus` and `MirrorClaims` are what people do to the
tree while no command runs.  `CheckPasses`, `RunsVerify` and `RecordsIndexed` are
the gates, evaluated on the tree as it is.

Abstractions.  The digest of a file is its content, so SHA-256 is taken to be
collision free.  Contents are named by where they come from: the twin derived
from passport `p`, the target files of its run and the claim made about it are
all `p`; that a twin derived from `p` differs from it in one byte and keeps its
length is checked by the tool itself and not modelled.  `target-before` is written
beside `target-after` and read by nothing here.  `Torn` is a file cut before the
part that its readers look for.  The counts of the refusal claim are functions of
the verifier's source and of a constant as long as coverage holds, so
`refusal_claim_failures` has nothing to vary with and is left out.  Unless `Reissue` is set an operator repeats a run number only to repeat the command: that
is the operator's doing, not the tool's.  Any number of commands may be alive at one run
number, since nothing in the tool looks for another: they share `run-NNN.staging`, write
into it, are told of what lies in it and remove it under each other.

`PublicRecord` is what readers are promised: a list of claims that only grows, in
order, each about a run that was proven, with evidence of that run, and that is
lost whole if the one write that publishes it is cut short.

### Properties

* `OnlyProvenArtifacts`: no run directory holds an unproven passport or twin, unless two
  commands were alive at its run number at once.  The proviso is needed, and the code is
  short of its own comment there (`build_publication.py:789-790`, "must never reach the
  tree"): q1 and q2 publish different passports as one run; q1 writes its pair over the one
  q2 staged, q2 has q1's pair judged, and then writes its own, which nobody judged, from
  memory (817-819).
* `LedgerDescribesRecords`: every entry names a record with the digest it states.
* `NoSilentPartial`: a publication into a new directory of an accepted tree ends
  with that tree, with a tree the gates refuse, or with the run published whole.
* `PublishedIsAccepted`: an `add-run` that exits 0 leaves a tree all gates accept,
  whatever earlier commands left, provided the vectors were current.  The proviso
  is needed: the survey compares reasons, so two cases of one reason may be
  swapped without `add-run` noticing.
* `GenerateRepairs`: a `generate-conformance` that exits 0 leaves current vectors
  and manifest, from any state.
* `ImplementsPublicRecord`: the refinement.  It is of commands that run one at a time: two
  that loaded one ledger issue one identifier twice, and the later write loses the claim of
  the earlier.
* `NoDuplicateClaim` and `RecordsMatchArtifacts` are what the documentation says and the code does not do (findings below).

### Runs

| Run | Instance | Shows |
|---|---|---|
| `publication_sequential` | 1 publisher, 2 runs, 4 passports, 1 kill, 3 cases in 3 corpora | the safety properties and the refinement: publication, generation and edits of the corpus one after another, with a kill and retries; 2 374 000 states |
| `publication_concurrent` | 2 publishers, 2 runs, both interchangeable, 2 passports | every interleaving of two publications, at two run numbers or at one; 1 034 000 states |
| `publication_retry` | 1 publisher, 1 run, 1 kill | finding: a retry publishes twice |
| `publication_reissue` | 1 publisher, 1 run, reuse allowed | finding: a stale record passes `check` |

Bounds.  In the runs of one publisher `MaxId` = 3 leaves room for the base entry, one publication and its
retry or a second run.  One kill leaves every half-written tree there is, and the
commands that follow it start from each; what further kills could do to the invariants
is settled by the proofs, which have no bound on kills.  Publishers are interchangeable,
and so are runs: no definition names one (`SYMMETRY`).  With two of them nobody is killed
and `MaxId` is 2: the property is about what is staged and judged, before the ledger.  The passports are one that publishes, one whose twin is
not refused, one that does not verify and the base passport, which covers every
combination of the two verdicts that `JudgeFile` distinguishes; two publishers have the
first two of them, one that may be published and one that may not.  Three corpora
cover an insertion, which moves every later case to another file, and a swap that
the survey cannot see.  No run needs to ignore deadlock: an idle publisher can
always begin.

No liveness is claimed of the publication tool: a command is a straight line of
writes which always ends, and nothing makes an operator run it again.

### Findings

* `tools/build_publication.py:25-26` calls `add-run` idempotent.  Killed after its
  ledger write and run again it publishes a second claim (`publication_retry`).
* `tools/build_publication.py:15-18` says the record cannot drift from the
  artifacts once `check` runs.  Overwriting a run number leaves a record of files
  that are gone, and `check` passes (`publication_reissue`).

`docs/status.md:31` says that continuous integration asserts PASS on each passport and
BLOCK on each twin, and the gates run only the first run's twin again
(`check_demonstration.py:25-26`, `check_runs.py:35`).  So after a kill between passport and
twin the gates refuse the tree, whose index lacks that run, until the next publication of
another run rewrites the index from the passports on disk.  No run states this.

### Proofs

`PublicationProofs` proves, for every value of the
constants that satisfies `ConstantsAssumption` and `AbsenceAssumption`:

* `TypeCorrect`, from `TypeOK /\ LocalsOK`, where `LocalsOK` says what the locals
  hold at each `pc`;
* `OnlyProven`, adding `ProofsOK`: two live commands with one run number are both known
  to `shared` (`Apart`), and a command whose run is not shared has in the staging directory
  what it put there or nothing, was told of just that, and carries a passport that was
  proven once it is past the sweep (`ProvenSoFar`).  It holds for any number of concurrent
  commands;
* `LedgerDescribes`, under `OneAtATime`, adding `NumberingOK`, that the identifiers of the
  ledger, and of every ledger a command holds, are 1 to k, each in one entry
  (`NextOfNumbered` and `NextKeepsNumbered` are the lemmas about `NextIdentifier`), and
`ViewsOK`: the ledger a command
  loaded is still the ledger, so the record it writes is no indexed one, and its
  digest is of the record on disk.  With two commands both fail;
* `Implements`, under `OneAtATime`, adding `WritesOK`: what a command wrote, it
  finds again, so the claim it publishes cites evidence of its own run;
* `Invariant`, under `OneAtATime`: the whole of `IInv`, that is what the files of the tree
  owe to each other after any number of kills.  `WholeOK`: a run is published bit by bit,
  its files, a record of just these, then the claim.  `RecordsOK`: at most one record is
  not indexed, and it has the identifier the next command overwrites, so that nothing
  unindexed is left when a ledger is written.  `PlansOK`: what was planned is still what
  the tree derives.  `SuiteOK`: a vector is absent or of the suite.  `OriginOK`: the run is
  not in the index before the index is written;
* `GenerationRepairs`, from `SuiteOK`; `PublicationIsAccepted`, from `RecordsOK`, `PlansOK`
  and the proven artifacts, one conjunct of each gate at a time; and
  `NothingIsHalfPublished`.  There the point is where the command ended: before its first
  file the tree is `origin`; up to the index there is a passport the index does not name,
  which `check` refuses (`UnindexedIsRefused`); after it the run is whole.  All three
  are under `OneAtATime`: two commands can overwrite each other's plan.

`AbsenceAssumption` says that an absent file and one cut short are none of the contents a
whole file may have.

## 4. `PassportVerifier`: the offline verifier

The verifier keeps nothing between two passports.  What makes it hard is that
some fifty refusals are decided in one order, over a record whose every part was
signed by somebody, possibly about something else.  So the module has the
passport change between two verifications: `Edit` is anybody with a copy and no
key, `SignGrant`, `SignCustody` and `Close` are the owner and the custody service
signing what lies there.  The verification itself is one action per group of
checks, `CheckParse` to `CheckWire`, then `Pass`.

| Definition | Code in `tools/verify_run_passport.py` |
|---|---|
| `ParseLinks`, `EnvelopeLinks` | `parse_passport_json`, section 1 |
| `GrantMessage`, `GrantFit`, `GrantLinks` | `canonical_owner_grant_v0_5_payload`, `..._v0_6_payload`, section 2 |
| `CustodyMessage`, `CustodyLinks` | `canonical_custody_signing_payload`, section 3 |
| `LandlockHolds`, `PublicationContractHolds`, `ContractLinks` | `_valid_landlock_observation`, `_custody_publication_contract_is_valid`, sections 3 and 3b |
| `BindingLinks`, `ScopeLinks`, `ObservationLinks` | sections 4 and 5, 6 and 7, 8 and 9 |
| `CommitLinks` | `_verify_complete_committed_binding` |
| `Core`, `ClosureMessage`, `ClosureLinks` | `canonical_closure_payload`, section 11 |
| `WireLinks` | the comparison with `canonical_json` in `verify_run_passport_json` |
| `SignatureLinks` | `_verify_ed25519_against_anchors` |

A *link* is one refusal: whether it is broken, and the reason.  `Check` passes a
stage when no link of it is broken and otherwise answers with the first that is.
`closed` and `signed` are history: every passport the owner closed and every
signature anybody made.

Abstractions.  A signature is the record of its key and message, and an edit puts
into a passport only signatures that exist, no signature (`Scrambled`) or
something that is not hexadecimal (`Garbled`): Ed25519 is ideal.  A digest is the
value digested.  A list of paths is its set of paths and the way it is spelled,
which is what tells comparing lists as they stand from comparing them stripped,
sorted and without repeats.  A condition on literals (a closed set of members, a
type, the kernel rights of the boundary, an algorithm name) is one Boolean per
check, or falls together with the version beside it.  `text` says how the bytes
relate to the object: unreadable, unparseable, canonical, or another spelling of
the same.  The branches of the code for a passport or custody schema other than
the public ones cannot be reached, since no other schema is admitted, and are
left out.

`RefusalCorpus` has every mutation of `demo/refusals/test_refusals.py` with the
reason it must be refused with; mutations the model does not tell apart (an empty
file and a cut one, say) are one case.

### Properties

* `PassIsClosed`: what passes has all members of a passport the owner closed, his
  signature of then, and the canonical bytes.
* `PassBinds`: what a PASS means, stated over the passport and the signatures made.
* `ReasonsAreAuthentic`: a reason found by reading signed data is reported only
  when the owner and the custody service signed just that data.
* `UnreachableStaysUnreached`: the four reasons the survey excuses from
  demonstration cannot be provoked as long as nobody with a key signs again.
* `BoundaryOfThisGrant` is what a comment says and the code does not do.

### Runs

| Run | Instance | Shows |
|---|---|---|
| `verifiers` | 2 passports, 2 edits, 1 of them at most before somebody signs again, all three sign in any order | all properties of this section and the next, of both verifiers; 65 500 states |
| `verifier_boundary` | 1 edit, custody and closure are signed again | finding |

The two passports are of a run that changed one file and one that made a second,
under two trusted owners, so that splicing sections of two runs and mixing two
owners can happen; production pins one owner key, and the code is written for a
map of them.  Two edits are what it takes to break two links at once and see
which is reported, and to hide a change behind a re-spelling.  `MaxResigned` is how many
edits may precede a new signature, one here, because a signed edit may be followed by
any of three signatures in any order, edited and signed parts of two passports among
them; two do not finish in minutes.  `NobodySignedAgain` tells the states that holders of
copies can reach from those in which a key was used.

The verifier takes a bounded number of steps and answers; there is no liveness
worth a run.

### Finding and provisos

* Finding.  `verify_run_passport.py:22-23` says that the boundary is bound to the digest
  of its grant, and lines 837-840 that other checks establish it.  None does: the digest
  in the boundary is only required to look like one (`verifier_boundary`).
* Proviso.  Lines 806-809 say the kernel's rules equal the list the owner signed.  They
  equal the custody record's list, which equals the owner's up to blanks around a path,
  and so `PassBinds` has it.
* Proviso.  `docs/passport-spec-v1.md:64` requires boundary schema 1.1 with its scratch
  record; schema 1.0 without one is accepted.  `GoPassBinds` has the scratch record,
  `PassBinds` has not, and `VerifiersDiffer` names the difference.

All three need a custody record the custody service signed; none is within reach
of an edit.

### Proofs

`PassportProofs` proves, for any keys, passports, edits and signers that satisfy
`PassportAssumption` (an anchor is a key, a digest is a value, the published
passports carry the signatures they name):

* `Invariant`: `IInv` is inductive.  Its parts are `TypeOK`, which says that no
  signature of the passport is forged; `ClosuresOK`, that every closing signature
  was made over a passport that is in `closed`, and over the one closure version there
  is; `ChecksOK`, that at each stage the
  links of all stages before hold, and of all stages once the answer is PASS; and
  `AnswersOK`.  `RefusalKeeps` and `AdvanceKeeps` are the two ways a check ends,
  `IdleIsSilent` is what lets edits and signatures change the passport without
  disturbing what the verifier knows: it knows nothing while idle.
* `ClosedPasses`: `ClosureVerified` turns unbroken links into a genuine signature
  over this passport's members, `VerifiedWasMade` says it was made, and
  `ClosuresOK` by whom and over what.
* `PassMeans`: one lemma per group of links says what the group establishes, and
  the theorem puts them together.

`VerifierProofs` proves what refusals mean:

* `AuthenticReasons`, from `RefusalsOK`: a reason is one of those that a link before
  the end of the custody signature or of the closure gives, or it is the first broken
  link of a middle group and the grant's and custody's links hold, or the spelling and
  the closure's links hold.  Which reasons a group can give is read off its links
  (`GivenReason`); that a first broken link exists is the well-foundedness of `<`.
  Unbroken signature links are, by `PassportProofs`, signatures that were made.
* `Unreachable`: as long as the signatures made are those of the published passports and
  no other (`NobodySignedAgain`), a custody record whose signature verifies is one of the
  published ones, whole, and so gives none of the four reasons.  That the published passports
  verify is `CorpusAssumption` of section 5.  The condition is needed: a service
  that signs an edited record provokes `block_public_run_passport_contract_malformed`.

The verdicts on the mutation corpus are proved with the second verifier's, in section 5.

## 5. `GoVerifier`: the second verifier

`verifiers/go/main.go` makes the decision of section 4 a second time, in its own
order and words.  Like the first it has no state, so the module adds no variable:
it is a list of links per group (`GoEnvelopeLinks` to `GoClosureLinks`) and
`GoVerdict`, the first broken one, evaluated on the passport that lies before the
first verifier.  `GoOwner` and `GoCustody` are the two keys compiled into it.

Where the two are written differently, the modules differ in the same way.  Go
judges the boundary after the commit, Python with the custody record; Go reports a
malformed signature before a key it does not know, Python after; Go compares the
rules of the boundary with the sorted list without repeats, Python with the list
as it stands; Go compares the digest of the grant inside the boundary, Python does
not; Go admits boundary schema 1.1, Python 1.0 too.  `GoGrantLinks` does not look
beside the four members of a grant's signature, and verifies the closure over the version
the passport declares (`GoClosureMessage`), Python over the one version it admits.

* `CorpusAgreement`: every published passport passes, every case of the mutation corpus
  is refused with the reason its vector expects, and of the passports of Go's owner both
  verifiers say the same.
* `GoPassBinds`: what a PASS of the second verifier means, three things among it
  that a PASS of the first does not.
* `VerifiersDiffer`: `docs/verify.md:108` lets a reader run either verifier, and this is
  exactly how far they tell the same.  What Python passes, Go passes if and only if it
  knows the keys, the boundary names this grant and has a scratch area, and its rules are
  spelled as the owner spelled his list.  What Go passes, Python passes if and only if
  custody names no file twice and none with blanks around it, the observed lists have no
  blanks either, the list of what was there before is a list, and the owner granted some file.  No published passport
  is told differently, and nobody without the custody key can make one that is.

They are checked by the run `verifiers` of section 4, in which Go pins the second of the
two owners.  `docs/passport-spec-v1.md:55` has the checks made in its order, the boundary
eighth; Python reports it before the identities, as line 50 of the same page describes.
Which of two faults is reported is therefore compared on the corpus only.

`VerifierProofs` proves, for any keys, passports, edits and signers:

* `GoPassMeans`, that is `GoPassBinds`.  The closure is the argument of section 4 over
  again: `IInv` of `PassportVerifier` says who made each signature and over what, and one
  lemma per group of links says what the group adds.
* `VerdictsCompared`, that is `VerifiersDiffer`.  Of each verifier a formula says that none
  of its links is broken (`AllHold`, `GoAllHold`); that a verdict of PASS is exactly this is
  `AnswerStands` for the first, an invariant of its groups, and `GoPassesWhenAllHold` for
  the second.  The links are then compared group by group (`GrantsCompared`,
  `CustodiesCompared` and so on), each lemma with what the other groups it
  leans on establish, since the two do not split the checks alike.  It is assumed that
  JSON's null has no member `owner_signature`, which TLC cannot be asked of a model value.
  The attempt to prove it without the condition on the granted files failed on a passport
  whose owner granted no file at all, which Python refuses (line 867) and Go does not; the
  run has such an edit now, and one that declares another closure version.
* `CorpusIsRefused`, that is `CorpusAgreement`, for any set of published passports that are
  sound.  `PublishedIsSound` says what that is: each has the members the cases change,
  verifies, and has none of the values the corpus puts in (no all-zero digest, no second
  file, no file already granted); of Go's owner, its boundary names its grant and spells
  its rules canonically.  TLC evaluates this of the passports of each run.  A case is
  refused with the reason of the *first* group of links that breaks, and that is what the
  proof is about, since most cases break several: a re-signed grant or a changed commit
  breaks the closure's signature too.  `Refusal` is that reason, and
  that the stages of the verifier arrive at it is the invariant `RefusalStands`
  (`RefusalsKeptFirst`); for the second verifier it is `GoAnswers`.  `GroupsRead` says which
  members of the passport a group of links reads, and `GroupsStay` that a case leaves unbroken
  the groups that read nothing it changes.  One lemma per group (`ToldAtEnvelope` and so on)
  says what is left to show when the first broken link is in that group, for both verifiers;
  one lemma per kind of case (`BytesTold`, `GrantsTold`, `CustodiesTold`, `HashesTold`,
  `CommitsTold`, `ClosuresTold` ...) shows it, and `CasesTold` puts them together.

## 6. `BoundaryProbe`: parent, child, pipe and kernel

| Variable | In `tools/boundary_probe.py` |
|---|---|
| `pc[q]`, `raised[q]` | the next step of process `q`, the exception its `finally` clause will meet |
| `dir` | the entries of the temporary directory |
| `ends`, `payload` | the open ends of the pipe, per process; what was written into it |
| `layer`, `results` | the Landlock layer of the child; the errnos it has seen |
| `status`, `verdicts` | how the child ended; the verdict lines printed, by whom |
| `made` | history: what the child brought into existence |

The parent is `LoadBoundary`, `QueryAbi`, `MakeScratch`, `WritePermitted`,
`OpenPipe`, `Fork`, `CloseWriteEnd`, `ReadToEnd`, `ReapChild`, `JudgeResults`; the
child `ChildBegins`, `ApplyBoundary`, five times `Observe`, `AnswerParent`,
`ExitZero`.  The fork happens inside the parent's `try`, so that an interrupted
child has the `finally` clause and the handlers of `main` as well: `SweepScratch`,
`RemoveScratch`, `PrintVerdict` and `Return` are actions of either process.  `KillChild`
and `Interrupt` are the environment.  PASS and SKIP are printed inside `main`'s `try`
(437 and, by 464, 329 to 349; 459 for a platform), FAIL in its handlers (466, 469); between
a line and the return an interrupt finds the process at `said`.  In the `try` it is
caught by `except BaseException` (468), and the parent that said PASS or SKIP says FAIL
too and exits with 1; in a handler it leaves `main`, with a traceback.  The kernel is what each call comes to: creating a
file is two checks, of `make_reg` for the entry and of `write_file` for opening it.

Abstractions.  A record is whether its literals are right and three sets of rights;
one right beyond the ABI and one unknown right stand for all.  A system call is one
step.  The file system fails where the code expects it to (`mkdtemp`, the permitted
file, the pipe, the fork).  A line is printed whole or not at all, and printing does not
fail; an interrupt between `mkdtemp` (356) and the `try` that has the `finally` (357),
which leaves an empty directory behind, is not modelled: `MakeScratch` is one step.

* `PassIsEnforced`: a PASS is of a well-formed record whose layer the kernel applied
  in full, with the five observations as required; for a record that handles
  `make_reg`, the refused operations brought nothing into existence (a proviso, below).
* `PassStands`: after PASS the child is reaped and has said nothing, pipe and directory
  are gone; the only other line there can be is a FAIL of the parent, after an interrupt
  that came before it returned, and then its exit status is not 0.  So a reader of the
  output looks at the last verdict, or at the exit status: a PASS line alone may be
  followed by its contrary.
* `NoSilentLitter`: the directory stays behind only if the parent's cleanup failed
  and says so.
* `Terminates`: both processes end.

| Run | Instance | Shows |
|---|---|---|
| `probe_faults` | 13 records on 7 machines, 2 interrupts of each process, 1 kill | the properties above; 221 000 states |

The records are the published one, those that leave out one right each, one with a
right of a later kernel, and the five ways `load_boundary` refuses; the machines
the seven ways a host can answer.  Two interrupts of a process are what it takes to
interrupt its cleanup, or the printing of its FAIL, too.

Fairness is weak fairness of each process: the operating system schedules both, and
neither waits on anything but the pipe and the other's exit.  Nothing is assumed of
interrupts and kills.

Proviso.  `docs/verify.md:195` says the probe observes the kernel refusing file
creation.  With a record that handles `write_file` and not `make_reg`, the file is
made and only its opening refused: the errno is the same, and PASS is printed.  The published records handle `make_reg`.

`BoundaryProbeProofs` proves types, `PassIsEnforced`, `PassStands` and `NoSilentLitter` for any records and
machines and any number of interrupts and kills.  The invariant: the two processes
start and stop in order (`Order`), the child observes under the record's layer and what
it made it made by an operation that was not refused (`Restriction`), who has closed
which end of the pipe (`Pipe`), what had to come before a judgement that held (`Held`,
`Judged`), and that what has printed a verdict prints another only in a handler of `main`,
PASS being followed by FAIL at most (`Said`).  The point of
it is that a payload *results* can only come from a child that made five
observations under the layer, although the parent sees nothing but bytes and a
status.  `LitterIsTold` adds `Litter`: once the parent is past its cleanup without
an exception from it, the directory is gone, and a child that is still alive cannot bring
it back, since what it makes is refused where there is no directory.

What of `Terminates` is safety is proved too.  `EveryStepAdvances`: each step lessens `Left`,
the distance of both processes from their ends and the observations to come, so that there
are at most 33, interrupts and kills included: no handler goes back but the one that has
`main` print a second verdict, which `Distance` counts beforehand.
`NobodyWaitsForever`: until both have ended, one of them does not wait (`SomebodyMoves`);
it needs `Pipe` and that whoever reads has closed his own end to write to (`ReadsTheOther`).
What is left to fairness is that a process that can go on does.

## 7. `ReleaseManifest`: the builder against the world

A builder is one invocation of `build_release_outputs`, which ends in
`verify_release_outputs`.  `Script` is the order of its steps, and `pos[b]` the place
in it; an action is what happens between two looks at the outside.  `StatFile`,
`ReadFirst` and `FinishRead` are `_digest`, whose two looks at a file may see two
files.  `tree`, `head` and `stamp` are the worktree, `outdir` the output directories,
`digests`, `built` and `observed` the manifest being derived, the one written and the
one read back.  `strays` counts how often a file left the builder's commit while it
ran, `stale` which output files were changed since it read them; both are history.

Everybody else is `EditFile`, `Checkout`, `Tamper` and `Kill`, and other builders.

Abstractions.  A digest is the content.  `stat` tells every change of a file from
none: an edit within the resolution of the clock that keeps size and inode is not
modelled, nor one that restores the times.  A file that exists can be read.  A
checkout is one step.  What `git status` reports is external: every difference from
`HEAD` but in `Hidden` files.  Standard output is not lost.

* `PassDescribesCommit`: a digest of a PASS that is not of the commit's content is of
  a file git was told to assume unchanged (`Hidden`), or of one that left the commit and
  came back twice, once under each derivation and each time between two questions to
  git.  No weaker accident does.  The premise that the manifest read back is the one built
  is needed, since the tool compares neither.
* `PassNeverMixes`: no digest is of bytes of two states of a file.
* `PassReadsBack`: when a builder passes, its files say what it derived.
* `PassedOutputStands`: what a builder that passed has left is changed by no other
  builder, however slow.

| Run | Instance | Shows |
|---|---|---|
| `release_builders` | 2 interchangeable builders on 1 good and 1 refused output, 2 invocations, 2 files of which 1 is assumed unchanged, 1 extra, 2 commits, 4 edits, 1 tampering | all five; 3 107 000 states |

Four edits are exactly what takes a file away and back twice, so the exception in
`PassDescribesCommit` is reached.  `MaxShared` = 1 bounds the edits and checkouts made
while two builders are at work: what one builder sees of an editor it sees with or without
another, and what two do to one output they do with or without an editor, so the product
of the two is cut, neither part.  `CHECK_DEADLOCK FALSE`: when the bounds are used up
and no builder runs, nothing is left to happen.

Proviso.  `tools/build_release_manifest.py:5-6` accepts *one clean Git worktree*.  A
listed file marked assume-unchanged may differ from the commit, and its digest is
listed as that of the commit; hence `Hidden` in `PassDescribesCommit`.

`ReleaseManifestProofs` proves types and all four properties, for any inventory,
commits, edits and builders.  `BuilderInv` has five parts: `Reads` (the stamp taken
before a read is not above the file's present one, and if it equals it the bytes read
are still there), `Builds` (the digests of the first derivation are those of the
manifest), `Fresh` (what was read back is there unless it is in `stale`), `Leaves` and
`Verdict`.  `Leaves` is the argument for `PassDescribesCommit`.  A wrong digest needs a
file away from the commit at the read although git saw it there before, one stray, and
git sees it there again after, so that a wrong digest in each of the two derivations
takes two; between the two questions of one pair a checkout may take the file away,
but only from the commit itself, which the invariant says step by step.

## 8. `BuildJournal`: the journal's gate

`CheckIdentifiers`, `CheckEntries`, `CheckTargets`, the search, `CheckViews`,
`AskSource` and `Accept` are `validate_journal` and `check_source_url` in their order.
The recursive function `walk` is its stack: `WalkRoot` and `WalkTarget` are calls,
`Return` a return; `visiting` and `visited` are its two sets, `walks` counts calls.  A
call beyond `Depth` frames is the `RecursionError` that nothing catches.  A server may
answer, refuse the method, fail, not answer in time, or break the protocol.

Abstractions.  A journal is valid by its schema.  A URL is whether its host is right
and its path by segments; a date is whether it is one.

* `CyclesRefused`: a journal whose search ends is acyclic (`NoCycleAccepted`), and one
  that is refused for a cycle has one (`CycleIsReal`).
* `WalksAreLinear`: one call per entry and per reference.
* `PagesTellTheTruth`: no marker on a page of an accepted journal is stale.
* `SourcesAnswered`: with `--check-urls`, every source answered with a page.
* `ProofIsPinned`: what is accepted as PROVED cites a page at the coordinate's tag, and the
  page it leads to is of no mutable branch if its path has no dots (a proviso, below).
* `Ends`: the check ends.

| Run | Instance | Shows |
|---|---|---|
| `journal` | all 4096 graphs of 4 entries; every status, grade, coordinate, source and page of an entry | all of them; 50 000 states |

Four entries are enough for a diamond with something behind it and for a cycle behind
an entry already left.  A `Depth` of four frames holds a chain of all four entries and
not the further call that closes a cycle of four, so that the recursion limit is met too.
`CHECK_DEADLOCK FALSE`: the tool stops when it has answered.  Fairness is `WF_vars(Next)`, one thread that nothing interrupts; an answer of a server,
a timeout included, always comes, because `urlopen` is given one.

Proviso.  `docs/build-journal/README.md:10-11` never accepts a mutable branch URL as
proof.  Path and coordinate are compared as text, and both may hold `..`: a source
`blob/v0.2.0/../main/README.md` is accepted and leads to a branch; hence `Resolved` in
`ProofIsPinned`.

`BuildJournalProofs` proves `SearchStaysInOrder` and `CyclesAreRefused` for every
graph and every depth.  `SearchInv` says that the stack is a
path of the graph (`Path`), that what a frame has already looked at has been left, that
what has been left is closed under supersession and has a sink in every part
(`Behind`), and that all roots so far have been left (`Covered`).  Acyclic is stated
without paths, as *every set of entries has one that supersedes none of them*, so that
no induction over data is needed: an entry is left after all it supersedes, and a set
with the new entry in it either has an old sink or consists of it alone.

It also proves the other three, for any journal that satisfies `JournalAssumption` (what
the schema gives: lists are lists, and a coordinate is of one of three kinds):

* `CallsAreLinear`, from `Counted`: every call so far was of a root or of a reference in
  `Taken`, those of the entries left and those the frames have gone past, and no
  reference is taken twice.  `walks` is then a cardinality, which only needs to be bounded.
* `ProvedIsPinned`, `PagesAreTrue` and `SourcesAreAnswered`, from `Passed`: what each stage
  has established of every entry is still so at the answer.  For the first, whatever
  `CoordinateHolds` accepts for a tag names the tag in its path, for each of its forms.
* `EveryStepAdvances`, what of `Ends` is safety: each step lessens `Left`, the stages to come,
  twice the calls of `walk` that `CallsAreLinear` leaves, the frames to return from and twice
  the requests to make, so that the check takes boundedly many steps on each journal.

## 9. `RecordGate`: the public record gate

`LoadLedger`, `CheckLedger`, `ListRecords`, one `ReadRecord` per entry, `CheckGraph`, one
`CheckPage` per proof page, `ReadReadme`, `CheckLinks`, `ScanSurface`, `ListFiles`,
`ScanFile` and `Accept` are `validate_repository` in its order, with one action per
file it opens; `Edit` replaces the content of a file between any two of them.  `ledger`,
`read`, `table` and `documented` are what the gate holds in memory, `due` the files the
present stage has still to open.

Abstractions.  The digest of a record is the record.  A text is clean, refused only
under the stricter rules for what a proof documents, or refused everywhere.  What
concerns one file alone (its schema, fields and literals) is one Boolean, `formed`.
Files come and go between runs only.

* `ReproducibleIsPublic`: however files change, a claim called publicly reproducible
  rests on records of public source alone.
* `DigestsBind`: the records read are those the ledger means, whatever was saved in
  between.
* `PassIsShown`: the table that was read names the claims of the accepted ledger and no
  others, the last row of each is the ledger's, and each claim is in the page of
  properties or documented by a proof page that the gate has read (which, if nobody saved
  a file, is a page of the tree).
* `PassIsScanned`: in a tree nobody touched, nothing that speaks of a documented claim
  escapes the stricter rules on the surfaces they are for: proof pages, cited records,
  rows of the table, lines of the status page.  The page of properties and the prose of
  `README.md` are no such surfaces, in the code as in the module.
* `AgreedPasses`: a consistent tree of active claims is accepted; it guards against a
  gate that refuses what it should publish.  Consistent (`Agrees`) includes that no claim is
  named on two proof pages, which the gate refuses, and that verdicts are those there are.
* `PassIsPinned`: of the workflows, section 10.
* `TypeOK`: the stages, the bounds, and that what is documented is claimed.

| Run | Instance | Shows |
|---|---|---|
| `record_gate` | 1 claim of each status with all pairs of records; 2 claims with tables, pages and properties that have one or two faults; 2 saves between any two steps in two sound trees; a tree with every workflow of three lines in up to three columns, in the forms of section 10 | all of them; 808 000 states |
| `workflow_forms` | the tree with a workflow, of one line that names an Action otherwise than as `uses: a` | finding: a loose Action passes |

The 6568 trees are started on one after another, and only the two sound ones have an
editor (`saves`).  Two claims and two records are what a table, a page and an index need
to disagree about one and agree about the other, and two saves what it takes to change a
file and change it back.  `CHECK_DEADLOCK FALSE`: the gate stops when it has answered.

Provisos.

* `docs/publication-policy.md:18` has a status for withdrawn statements.
  `CLAIM_ASSURANCE` allows no assurance for it, and a claim needs evidence, so no
  withdrawn claim is ever accepted; `AgreedPasses` is about active claims.
* `tools/validate_public_record.py:1482-1483` has the README's table match the ledger
  exactly.  Of several rows for a claim only the last is compared, so a stale row may
  stand above the right one; `PassIsShown` is about the last rows and says no more.
* Lines 1079-1081 want every displayed digest to be the ledger's.  Of several blocks
  for a claim on one page only the last is compared.  `PassIsScanned` holds for all of
  them, since the scan does not go by claims.

`RecordGateProofs` proves all seven, `PassIsPinned` and the scan of section 10 included,
for any trees and contents that satisfy `GateAssumption` (lists are lists, a formed ledger
has known assurance levels, no two files of a tree share a name).  `IInv` has three parts:

* `Compared` and `Scanned`, about the gate's own copies alone, so that no editor matters:
  what each comparison established of `ledger`, `read`, `table` and `documented`.  From
  these follow `ReproducibleRestsOnPublic`, `RecordsAreBound` and, with `Quiet` for its last
  part, `ClaimsAreShown`;
* `Quiet`, about copies and files while nobody has saved: what was read is what lies there,
  what is documented is what the pages name, and what the scan has left behind is clean.
  `WhatSpeaksOfProofIsScanned` follows, since the scan goes by files and not by claims;
* `BlamesWorkflow`: a tree that agrees is refused at no stage but the last, for a line of its
  workflow.  Each stage has a lemma that a tree that agrees gets past it, which is where
  the gate's rules have to add up.  With `ReadAlike` (section 10) this gives
  `AgreeingTreesPass`.

One hazard has no property: a file that is read twice and saved in between may pass
although no version of it passed both readings.  Nothing in the code or its documents
promises otherwise, and a gate in continuous integration runs on a tree nobody edits.

## 10. `WorkflowPins`: the workflow scanner

The scan reads a workflow line by line and decides which lines are text of a block
scalar (`block`, from `workflow_structure_lines`), which pin an Action to a commit
(`pins`) and which are refused.  Beside it `scalar` and `structure` are what YAML,
external here, says of the same lines.  A line is its indent, whether an item begins in
it, what it is to YAML (`kind`), whether it is written in the one form that the scan's
patterns look for (`plain`), and the number of commit-shaped values beside the reference.
What the scan makes of it is `MatchesUses` and `MatchesBlock`, what YAML makes of it
`Loose` and `Begins`: neither is defined by the other.
`RecordGate` opens a workflow when it lists the tree's files and reads it before them, as
the order of names has it; the gate fails if any line is refused.  The scan is of the
bytes read once, so that no editor comes between its lines.

* `PassIsPinned`, line by line, of a tree that passes: each commit-shaped value is the one
  reference of an Action, on a line that is structure or may be text of a scalar whose
  beginning the scan overlooks (`MayBeText`); and each loose Action of the structure is
  written otherwise than as `uses: a` (`OtherForm`) or lies in the reach of a key with a
  block scalar after a dash (`MayBeSkipped`).
* `AgreedPasses` says the converse: a workflow that is right as YAML reads it, with
  loose-looking text in a block scalar perhaps, is not refused, if none of its lines is of
  a form that the two read differently (`Unread`).
* `LooseIsRefused` is what the code says of itself and does not do (finding below).

A line that begins a block, one that may or may not be in it, and one after are three.

The theorems `PinsAreKept` and `AgreeingTreesPass` of `RecordGateProofs` are for workflows of
any length.  For `AgreeingTreesPass` the invariant is `ReadAlike`: as long as no line is of
a form the two read differently, `block` and `scalar` are equal, so that pins and refusals
are those of YAML's structure.  For `PinsAreKept` it is `Scanned` (a line with a commit
that no pin accounts for is refused) and `Apart`, which holds of every workflow: an open
block of the scan was begun by a key after a dash, or lies within YAML's scalar; an open
scalar of YAML was begun by a line the scan overlooks, or lies within the scan's block.  So
where only one of the two calls a line text, one such earlier line is to blame.

Finding.  `tools/validate_public_record.py:96` has a `uses` key that the rule cannot read
refused and not skipped, and 947 a loose Action refused.  The pattern knows the key only as
`uses:` at the beginning of a line or after one dash.  `- {uses: a/b@main}`,
`"uses": a/b@main`, `uses : a/b@main`, `? uses` with the value on the next line, and a
second dash before the key are skipped (961-967).  `workflow_forms` accepts a workflow with
one of them.  (A mapping in braces over several lines may have `uses: a/b@<commit>}` on one
of them: that one is seen, cannot be read, and is refused.)

Provisos, each a line for which `Unread` holds.

* Lines 99-101 give no exception to the text of a block scalar.  The scan overlooks
  scalars that begin otherwise than `key: |` or `key: >`: `- |` without a key; a header
  with the digit before the sign (`|2-`), with a tag or an anchor; a key with `:` or `#` in
  it; a quoted or plain scalar that goes on over several lines.  Their text is read as
  structure: a lone `uses: a/b@<commit>` in it is exempted, and a
  `uses: a/b@main` in it is refused although it is no Action.
* After `- name: |` the scan takes the column of the dash for that of the key, so that it
  reads the next keys of the same step as text and does not refuse a loose Action there,
  which line 947 promises; a commit there is refused though it may pin one.

The repository's own workflows have none of these forms.  The scan counts lines with
`splitlines` and the disclosure rule by line feeds (906 and 996); that the two counts are
one, which a form feed or another separator in a line would disturb, is taken for granted,
as is that a mapping after a dash begins two columns to its right.

## 11. `BrowserDemo`: one page, one event loop

An action is one task of the loop: the code between two waits of `app.js` or `proof.mjs`,
or a click.  `step[r]` is what a call of `run()` waits for, `read[r]` the files it has,
`loading` and `goReady` the cached promise of `loadVerifier` and the flag the WebAssembly
runtime sets, `asked` the turns of its deadline loop; `original`, `current`,
`viewStart`, `hex` and `verdict` are the interactive part, `hex` with the bytes its
buttons show.  The environment fails requests, is late, replaces files of the checkout,
and clicks.

Abstractions.  The verifier is the constant set `Passing`; bytes are a file and the
offsets flipped in it.  Windows and deadline are short.  Reloading the page begins a new
behaviour and is not an action.  A request is answered or fails: `fetch` has no time
limit, and a server that accepts and never answers leaves the page waiting with its
button disabled, a hazard no property can exclude.

* `PageShowsCurrent`: the verdict on the page is of the bytes on the page, every button
  shows the byte there is, and no click is out of range.
* `CompleteIsEarned`: *complete* means nothing runs and the view is there; the list is
  empty or of one whole proof.
* `TypeOK`: the types, the deadline, and how many files a call has read where it waits.
* `RunsEnd`: the button comes back.
* `ReadsRecover`: with the verifier loaded, a visitor who insists sees the verification
  complete once the files are the published ones again.

| Run | Instance | Shows |
|---|---|---|
| `browser_demo` | every click at every wait, with and without `wasm_exec.js`, 1 failed request of each kind, 2 replacements by the twin, an empty file or the published one | all of them; 275 000 states |

Two published runs of three and two bytes and an empty file with a window of two give
the view a second page, a byte that vanishes and no byte at all.  Two identities for
calls of `run()` are one more than may be under way.

Fairness is `WF_vars(Page)`: the loop serves the page's own tasks.  Clicks, faults and the
start of the runtime are owed nothing.  That the visitor tries again is `Insistent`, a
premise of `ReadsRecover`, and the files' return another.

`BrowserDemoProofs` proves the three invariants for any list of published runs, any width
of the view, any deadline and any number of calls, clicks, faults and replaced files.  They
are not inductive as they stand.  `OneCall` says that a call under way keeps the button disabled
and is the only one; `Reading`, that a call has gone past each twin only when the run was
proved, so that the rows it will write are those of one whole proof (`RowsAreWhole`);
`Filled`, where the list already is; `Loaded`, that nothing of the view can be clicked
before there are bytes.  The arithmetic of the view is one lemma, `Rendered`: wherever the
window is asked to begin, it lies inside the bytes and shows them.

What of `RunsEnd` is safety is proved too.  `DisabledIsOwed`: while the button is disabled a
call is under way, and the promise it awaits is settled or being worked at (`SomeCall`,
`SomeWaiter`).  `RunsAdvance`: each step of the page lessens `CallLeft`, the turns of the loader
and the reads before that call, or ends the call and enables the button, and nothing the
environment does adds to it.

Provisos.

* The button reads *Run local verification again* (`index.html:22`).  After one failed
  attempt to load the verifier the rejected promise is kept, and every later click fails
  without a request; hence the premise of `ReadsRecover` that the verifier has loaded.
* `verifiers/wasm/README.md:28-30` restores the published bytes to PASS.  The passport is
  read a second time for the view and accepted unverified: replaced in between, the page
  says complete and Restore shows BLOCK.  `PageShowsCurrent` says that it then *shows* so.

## 12. Proved and model-checked

Every inductive invariant and every type invariant is proved, and so, but for three of the
type invariants, not checked again by a run; each can be named in a `.cfg` to see it hold.
Every theorem is for all values of the constants that satisfy the named assumptions of
its module (which TLC evaluates in each run), and for any bounds.  What is
model-checked only is liveness (`Terminates`, `Ends`, `RunsEnd`, `ReadsRecover`), which TLAPS
does not reach.  For the first three it is proved that every step leaves fewer to come
(`EveryStepAdvances` of the probe and of the build journal, `RunsAdvance`); that a step is
then taken is the fairness TLC assumes.

## 13. Not modelled

* Conformance runner, demonstration and round-trip gates, brand assets: sequential
  comparisons of fixed files, without state, order or failure to recover from.  What the
  conformance runner compares is the property `CorpusAgreement`.
* Publication tool: `landing_with_generated_regions`, which only tests call; the wording
  of records, claims and messages.
* Public record gate: the interpreter of JSON schemas, the word lists and negation
  windows of the text rules, link resolution.  They are functions of one file with no
  other state, and a model of them would be the word lists over again.
* Go verifier: the sets of members it leaves open where Python closes them, its
  arithmetic of JSON numbers and surrogates, and the entry points, which read bytes and
  print the verdict.
* Build journal gate: the fixtures of its self-test.
* Ed25519, SHA-256, JSON and YAML are ideal or external, as said in each section.
