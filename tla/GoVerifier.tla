----------------------------- MODULE GoVerifier -----------------------------
(***************************************************************************)
(* The second verifier of run passports, verifiers/go/main.go, native and  *)
(* in the browser: a decision procedure of its own over the passports of   *)
(* PassportVerifier.  It has no state: it answers for the passport that    *)
(* lies before the first verifier, and the properties compare the two.     *)
(*                                                                         *)
(* The arithmetic of Go's JSON numbers and strings is left out like that   *)
(* of Python's.                                                            *)
(***************************************************************************)
EXTENDS RefusalCorpus

CONSTANTS GoOwner,     \* ownerKeyID, the one owner key it has
          GoCustody    \* custodyKeyID
\* They are keys the first verifier trusts too.
ASSUME GoAssumption == GoOwner \in OwnerAnchors /\ GoCustody \in CustodyAnchors

\* signature(): the form of the object first, the key after it.
GoSignatureLinks(sig, version, key, message, malformed, wrong, invalid) ==
  << Link(sig.signature_version # version \/ sig.signature_hex = Garbled, malformed),
     Link(sig.signing_key_id # key, wrong),
     Link(sig.signature_hex # Signature(key, message), invalid) >>

\* verifyRaw, and verify as far as the sections.
GoEnvelopeLinks(p) ==
  << Link(p.text = "unreadable", "passport_unreadable"),
     Link(p.text = "duplicate_key", "block_run_passport_duplicate_key"),
     Link(p.text = "unparseable", "block_run_passport_unparseable"),
     Link(p.text = "trailing_content", "block_run_passport_trailing_content"),
     Link(p.text = "not_object", "block_run_passport_not_object"),
     Link(p.unknown_field, "block_run_passport_unknown_field"),
     Link(p.missing_field, "block_run_passport_missing_field"),
     Link(p.schema_version # "deedseal-run-passport/1.0",
          "block_run_passport_schema_unsupported"),
     Link(~ p.sections_closed, "block_run_passport_malformed_section") >>

\* Of the grant's signature the four members are picked, whatever is beside them.
GoGrantLinks(p) ==
  LET grant == p.authorization
      signature == grant.owner_signature
      contract == grant.acceptance_contract
  IN  << Link(\/ signature.shape = "absent" \/ ~ grant.well_formed
              \/ ~ IsList(grant.allowed_files) \/ ~ IsList(grant.new_files)
              \/ ~ contract.closed \/ ~ IsList(contract.expected_changed_paths),
              "block_owner_authorization_malformed") >>
      \o GoSignatureLinks(signature, "v0.6", GoOwner, GrantMessage(grant),
           "block_owner_authorization_malformed", "block_owner_authorization_wrong_key",
           "block_owner_authorization_signature_invalid")

GoCustodyLinks(p) ==
  LET signature == p.custody.signature
  IN  << Link(p.custody.record_schema # "deedseal-supervised-run-custody/1.0",
              "block_custody_record_schema_unsupported"),
         Link(~ p.custody.closed \/ signature.shape # "closed",
              "block_custody_record_malformed") >>
      \o GoSignatureLinks(signature, "custody/0.1", GoCustody, CustodyMessage(p.custody),
           "block_custody_record_malformed", "block_custody_record_wrong_key",
           "block_custody_record_signature_invalid")

\* custodyContract: literals, and the form of the runner's report.
GoCustodyContract(p) ==
  LET grant == p.authorization
      custody == p.custody
      report == custody.runner_report
  IN  /\ custody.fixed_values
      /\ custody.publication_class = "public-full-record"
      /\ custody.record_status = "OUTCOME_SUCCESS"
      /\ custody.reason_code = "allow_supervised_agent_capture_recorded"
      /\ custody.roadmap_step = "deedseal-public-run/1.0"
      /\ custody.target = "deedseal-bounded-file-set/1.0/edit"
      /\ p.roadmap_step = custody.roadmap_step
      /\ grant.publication_class = "public-full-record"
      /\ grant.operation_class = "agent_subprocess"
      /\ grant.allowed_scope = custody.target
      /\ report.present /\ report.well_formed /\ report.boundary_present
      /\ report.publication_class = "public-full-record"
      /\ report.output_digests /\ report.redacted

GoBindingLinks(p) ==
  LET grant == p.authorization
      custody == p.custody
  IN  << Link(~ GoCustodyContract(p), "block_custody_publication_contract_malformed"),
         Link(custody.grant_sha256 # GrantDigest(grant),
              "block_grant_custody_binding_mismatch"),
         Link(p.run_id # grant.run_id \/ p.run_id # custody.run_id,
              "block_run_id_binding_mismatch"),
         Link(p.execution_id # custody.execution_id,
              "block_execution_id_binding_mismatch"),
         Link({grant.head_sha, custody.head_sha, custody.observed_post_head_sha}
                # {p.implementation_head_sha},
              "block_implementation_head_binding_mismatch"),
         Link(grant.grant_id # custody.grant_id, "block_grant_id_binding_mismatch") >>

GoScopeLinks(p) ==
  LET scope == p.scope
      grant == p.authorization
      contract == scope.acceptance_contract
      Same(list, other) == IsList(list) /\ Normalized(list) = Normalized(other)
  IN  << Link(\/ ~ Same(scope.allowed_files, grant.allowed_files)
              \/ ~ Same(p.custody.allowed_files, grant.allowed_files),
              "block_allowed_files_binding_mismatch"),
         Link(\/ ~ Same(scope.new_files, grant.new_files)
              \/ ~ (scope.new_files.paths \subseteq scope.allowed_files.paths),
              "block_new_files_binding_mismatch"),
         Link(\/ ~ contract.closed
              \/ ~ Same(contract.expected_changed_paths,
                        grant.acceptance_contract.expected_changed_paths)
              \/ contract.markers # grant.acceptance_contract.markers
              \/ ~ Same(contract.expected_changed_paths, scope.allowed_files),
              "block_acceptance_contract_binding_mismatch") >>

\* executionBindings and shaChain: the lists of the two observations are compared
\* as they are, and only the later one with the files of the run.
GoObservationLinks(p) ==
  LET execution == p.execution
      custody == p.custody
      allowed == p.scope.allowed_files.paths
      post == execution.observed_post_worktree_entries
  IN  << Link(\/ post # custody.observed_post_worktree_entries
              \/ execution.observed_pre_worktree_entries
                   # custody.observed_pre_worktree_entries
              \/ execution.observed_post_head_sha # custody.observed_post_head_sha
              \/ execution.observed_changed_file_count
                   # custody.observed_changed_file_count
              \/ execution.observed_changed_file_count # Cardinality(allowed)
              \/ ~ IsList(post) \/ post.paths # allowed,
              "block_observed_paths_binding_mismatch"),
         Link(\/ DOMAIN execution.sha256_chain # allowed
              \/ \E f \in allowed \cap DOMAIN execution.sha256_chain :
                   ~ EntryHolds(execution.sha256_chain[f], f \in p.scope.new_files.paths),
              "block_sha256_chain_binding_mismatch") >>

\* The files of the list, in their order and each of them once.
Lists(list, files) == list.paths = files /\ list.spelling = "canonical"

\* Fault: the digest of the grant in the boundary need only be a digest.
GoBoundaryAnyGrant(p) ==
  LET boundary == p.custody.runner_report.os_boundary
  IN  /\ boundary.schema_version = "1.1" /\ boundary.applied /\ boundary.runtime_scratch
      /\ Lists(boundary.rules, p.scope.allowed_files.paths)

\* boundaryContract: of this grant, and a rule for each file in their order.
GoBoundaryContract(p) ==
  LET boundary == p.custody.runner_report.os_boundary
  IN  /\ boundary.schema_version = "1.1" /\ boundary.applied /\ boundary.runtime_scratch
      /\ boundary.grant_sha256 = p.custody.grant_sha256
      /\ Lists(boundary.rules, p.scope.allowed_files.paths)

\* Fault: the identity of the commit is left to the owner's closure.
GoCommitLinksLate(p) ==
  LET binding == p.committed_binding
      allowed == p.scope.allowed_files.paths
  IN  << Link(binding.parent_sha # p.implementation_head_sha,
              "block_complete_cargo_changeset_binding_mismatch"),
         Link(binding.changed_paths # [paths |-> allowed, spelling |-> "canonical"],
              "block_complete_cargo_changeset_binding_mismatch") >>

\* The commit, and after it the boundary.
GoCommitLinks(p) ==
  LET binding == p.committed_binding
      allowed == p.scope.allowed_files.paths
  IN  << Link(~ binding.identity_closed
                \/ ~ ({binding.parent_sha, binding.commit_sha} \subseteq Commits),
              "block_commit_identity_binding_mismatch"),
         Link(\/ binding.parent_sha # p.implementation_head_sha
              \/ binding.changed_paths # [paths |-> allowed, spelling |-> "canonical"],
              "block_complete_cargo_changeset_binding_mismatch"),
         Link(binding.commit_sha = p.implementation_head_sha,
              "block_cargo_commit_equals_execution_head"),
         Link(\/ DOMAIN binding.committed_file_hashes # allowed
              \/ \E f \in allowed \cap DOMAIN binding.committed_file_hashes :
                   binding.committed_file_hashes[f]
                     # p.execution.sha256_chain[f].materialized_sha256,
              "block_committed_hash_binding_mismatch"),
         Link(~ GoBoundaryContract(p), "block_public_run_passport_contract_malformed") >>

\* The version the closure declares is part of what is signed, and compared with nothing.
GoClosureMessage(p) ==
  [kind |-> "closure", version |-> p.closure.closure_version, passport_core |-> Core(p)]

GoClosureLinks(p) ==
  LET signature == p.closure.signature
  IN  << Link(signature.shape = "absent", "block_owner_closure_signature_missing"),
         Link(~ p.closure.closed, "block_owner_closure_unknown_field"),
         Link(signature.shape # "closed", "block_owner_closure_signature_malformed") >>
      \o GoSignatureLinks(signature, "closure/0.1", GoOwner, GoClosureMessage(p),
           "block_owner_closure_signature_malformed",
           "block_owner_closure_signature_wrong_key",
           "block_owner_closure_signature_invalid")
      \o << Link(p.text # "canonical",
                 "block_public_run_passport_noncanonical_serialization") >>

GoGroups == << "envelope", "grant", "custody", "binding", "scope", "observation",
               "commit", "closure" >>
GoLinks(p, group) ==
  CASE group = "envelope" -> GoEnvelopeLinks(p)
    [] group = "grant" -> GoGrantLinks(p)
    [] group = "custody" -> GoCustodyLinks(p)
    [] group = "binding" -> GoBindingLinks(p)
    [] group = "scope" -> GoScopeLinks(p)
    [] group = "observation" -> GoObservationLinks(p)
    [] group = "commit" -> GoCommitLinks(p)
    [] group = "closure" -> GoClosureLinks(p)

\* The answer for the passport p, as PassportVerifier gives its own.  A group is
\* read only when those before it held.
GoVerdict(p) ==
  IF \A i \in 1..Len(GoGroups) : Unbroken(GoLinks(p, GoGroups[i]))
  THEN <<TRUE, Null>>
  ELSE LET i == CHOOSE j \in 1..Len(GoGroups) :
                  /\ \A k \in 1..(j - 1) : Unbroken(GoLinks(p, GoGroups[k]))
                  /\ ~ Unbroken(GoLinks(p, GoGroups[j]))
       IN  <<FALSE, FirstBroken(GoLinks(p, GoGroups[i]))>>

GoPassed == at = "done" /\ GoVerdict(passport)[1]
----------------------------------------------------------------------------
\* The members that a case of the corpus changes, and that a signature over them is read
\* for, are there.
HasMembers(p) ==
  LET grant == p.authorization
      custody == p.custody
      boundary == custody.runner_report.os_boundary
  IN  /\ {"well_formed", "grant_id", "run_id", "head_sha", "terms", "allowed_scope",
          "operation_class", "publication_class", "allowed_files", "new_files",
          "acceptance_contract", "owner_signature"} \subseteq DOMAIN grant
      /\ {"record_schema", "closed", "publication_class", "record_status", "grant_id",
          "signature", "runner_report"} \subseteq DOMAIN custody
      /\ {"boundary_present", "os_boundary"} \subseteq DOMAIN custody.runner_report
      /\ {"rules", "runtime_scratch"} \subseteq DOMAIN boundary
      /\ {"allowed_files", "new_files", "acceptance_contract"} \subseteq DOMAIN p.scope
      /\ "expected_changed_paths" \in DOMAIN p.scope.acceptance_contract
      /\ {"observed_pre_worktree_entries", "observed_post_worktree_entries",
          "observed_post_head_sha", "observed_changed_file_count", "sha256_chain"}
           \subseteq DOMAIN p.execution
      /\ {"identity_closed", "parent_sha", "commit_sha", "changed_paths",
          "committed_file_hashes"} \subseteq DOMAIN p.committed_binding
      /\ {"signature", "closed", "closure_version"} \subseteq DOMAIN p.closure
      /\ \A s \in {grant.owner_signature, custody.signature, p.closure.signature} :
           {"shape", "signature_version", "signing_key_id", "signature_hex"}
             \subseteq DOMAIN s
      /\ \A list \in {grant.allowed_files, boundary.rules, p.scope.allowed_files,
                       p.scope.new_files, p.scope.acceptance_contract.expected_changed_paths,
                       p.execution.observed_post_worktree_entries,
                       p.committed_binding.changed_paths} :
           {"paths", "spelling"} \subseteq DOMAIN list

\* What is published verifies, under a boundary with a scratch area, and has none of the
\* values that the corpus puts in; and the second verifier knows the keys of those whose
\* owner it has, and their boundary is of their grant.
PublishedIsSound(p) ==
  LET boundary == p.custody.runner_report.os_boundary
  IN  /\ HasMembers(p) /\ AllHold(p)
      /\ p.authorization.owner_signature.shape = "closed"
      /\ boundary.schema_version = "1.1"
      /\ p.run_id # "different-run" /\ p.execution_id # "0"
      /\ SecondFile \notin p.authorization.allowed_files.paths
      /\ ZeroCommit \notin {p.implementation_head_sha, p.committed_binding.commit_sha}
      /\ \A f \in DOMAIN p.committed_binding.committed_file_hashes :
           p.committed_binding.committed_file_hashes[f] # ZeroDigest
      /\ p.closure.signature.signing_key_id = GoOwner =>
           /\ p.custody.signature.signing_key_id = GoCustody
           /\ boundary.grant_sha256 = GrantDigest(p.authorization)
           /\ boundary.rules.spelling = "canonical"

\* The values the corpus puts in are what their names say.
ASSUME CorpusAssumption ==
  /\ "unknown-owner" \notin OwnerAnchors /\ "unknown-custody" \notin CustodyAnchors
  /\ ZeroCommit \in Commits /\ "not-a-sha" \notin Commits
  /\ Garbled # Scrambled
  /\ \A p \in Published : PublishedIsSound(p)
----------------------------------------------------------------------------
\* Every published passport passes, and every case of the corpus is refused with the
\* reason it names, whichever published passport it is made of (evaluate_cases compares
\* the verdict of the verifier with the one the manifest expects of each vector); and
\* of the passports of its owner the second verifier says the same ("Two
\* implementations of the published run-passport envelope produce identical
\* verdicts and exit codes on all 48 published conformance vectors",
\* docs/engineering-properties.md:202-204).
CorpusAgreement ==
  at = "done" =>
    \A p \in Published :
      /\ passport = p => Passed
      /\ \A c \in Cases(p) : passport = c.mutated => verdict = <<FALSE, c.expect>>
      /\ (/\ p.closure.signature.signing_key_id = GoOwner
          /\ passport = p \/ passport \in CorpusEdits(p)) => GoVerdict(passport) = verdict

\* What a PASS of the second verifier means: its owner signed this grant and
\* closed this passport, and the boundary the kernel applied is one of this
\* grant, with a scratch area, and reaches the files he granted as he spelled
\* them.  The last three are what a PASS of the first one does not mean
\* (VerifiersDiffer).
GoPassBinds ==
  GoPassed =>
    LET grant == passport.authorization
        boundary == passport.custody.runner_report.os_boundary
    IN  /\ Signature(GoOwner, GrantMessage(grant)) \in signed
        /\ \E p \in closed : Core(p) = Core(passport) /\ passport.text = "canonical"
        /\ boundary.grant_sha256 = GrantDigest(grant)
        /\ boundary.schema_version = "1.1"
        /\ Lists(boundary.rules, grant.allowed_files.paths)
        /\ passport.committed_binding.changed_paths.paths = grant.allowed_files.paths
        /\ passport.committed_binding.commit_sha # grant.head_sha

\* "Readers can run either the Python verifier above or the Go verifier against a
\* passport" (docs/verify.md:108), and are told the same but for this.  What the
\* first passes, the second passes when it knows the keys, the boundary is one of
\* this grant with a scratch area, and its rules are spelled as the owner spelled
\* his list.  What the second passes, the first passes when the owner granted a file at
\* all, custody lists none twice or with blanks around it, and what was observed is
\* lists without blanks.
VerifiersDiffer ==
  at = "done" =>
    LET custody == passport.custody
        boundary == custody.runner_report.os_boundary
    IN  /\ Passed =>
             (GoPassed <=> /\ shown = GoOwner /\ custody.signature.signing_key_id = GoCustody
                           /\ boundary.grant_sha256 = GrantDigest(passport.authorization)
                           /\ boundary.schema_version = "1.1"
                           /\ boundary.rules.spelling = "canonical")
        /\ GoPassed =>
             (Passed <=> /\ passport.authorization.allowed_files.paths # {}
                         /\ custody.allowed_files.spelling \notin {"repeated", "padded"}
                         /\ custody.observed_post_worktree_entries.spelling # "padded"
                         /\ IsList(custody.observed_pre_worktree_entries))
==============================================================================
