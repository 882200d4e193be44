--------------------------- MODULE RefusalCorpus ---------------------------
(***************************************************************************)
(* The mutation corpus of demo/refusals/test_refusals.py on the passports  *)
(* of PassportVerifier: each case changes one thing of a published         *)
(* passport and names the reason the verifier refuses it with.             *)
(***************************************************************************)
EXTENDS PassportVerifier

\* A list with one more path at its end.
Appended(list, file) == [list EXCEPT !.paths = @ \cup {file}]

Case(mutated, expect) == [mutated |-> mutated, expect |-> expect]

CONSTANTS SecondFile,   \* "second-file.txt", which no run may change
          ZeroCommit,   \* forty zeros, a well formed commit id
          ZeroDigest    \* sixty-four zeros, a well formed digest

\* The cases that are about the bytes, not about the object they spell.
ByteCases(p) ==
  { Case([p EXCEPT !.text = "unparseable"], "block_run_passport_unparseable"),
    Case([p EXCEPT !.text = "duplicate_key"], "block_run_passport_duplicate_key"),
    Case([p EXCEPT !.text = "trailing_content"], "block_run_passport_trailing_content"),
    Case([p EXCEPT !.text = "not_object"], "block_run_passport_not_object"),
    Case([p EXCEPT !.text = "unreadable"], "passport_unreadable"),
    Case([p EXCEPT !.text = "respaced"],
         "block_public_run_passport_noncanonical_serialization") }

EnvelopeCases(p) ==
  { Case([p EXCEPT !.unknown_field = TRUE], "block_run_passport_unknown_field"),
    Case([p EXCEPT !.missing_field = TRUE], "block_run_passport_missing_field"),
    Case([p EXCEPT !.schema_version = "unknown"], "block_run_passport_schema_unsupported"),
    Case([p EXCEPT !.sections_closed = FALSE], "block_run_passport_malformed_section") }

GrantCases(p) ==
  { Case([p EXCEPT !.authorization.owner_signature.shape = "absent"],
         "block_owner_authorization_malformed"),
    Case([p EXCEPT !.authorization.owner_signature.signing_key_id = "unknown-owner"],
         "block_owner_authorization_wrong_key"),
    Case([p EXCEPT !.authorization.owner_signature.signature_hex = Scrambled],
         "block_owner_authorization_signature_invalid"),
    Case([p EXCEPT !.authorization.allowed_files = Appended(@, SecondFile)],
         "block_owner_authorization_signature_invalid"),
    Case([p EXCEPT !.authorization.owner_signature.shape = "open"],
         "block_grant_custody_binding_mismatch") }

CustodyCases(p) ==
  { Case([p EXCEPT !.custody.record_schema = "unknown"],
         "block_custody_record_schema_unsupported"),
    Case([p EXCEPT !.custody.signature.shape = "open"], "block_custody_record_malformed"),
    Case([p EXCEPT !.custody.signature.signing_key_id = "unknown-custody"],
         "block_custody_record_wrong_key"),
    Case([p EXCEPT !.custody.signature.signature_hex = Scrambled],
         "block_custody_record_signature_invalid"),
    Case([p EXCEPT !.custody.runner_report.boundary_present = FALSE],
         "block_custody_record_signature_invalid"),
    Case([p EXCEPT !.custody.runner_report.os_boundary.rules.paths = {}],
         "block_custody_record_signature_invalid"),
    Case([p EXCEPT !.custody.runner_report.os_boundary.rules.spelling = "repeated"],
         "block_custody_record_signature_invalid"),
    Case([p EXCEPT !.custody.runner_report.os_boundary.runtime_scratch = FALSE],
         "block_custody_record_signature_invalid") }

BindingCases(p) ==
  { Case([p EXCEPT !.roadmap_step = "other"], "block_custody_publication_contract_malformed"),
    Case([p EXCEPT !.run_id = "different-run"], "block_run_id_binding_mismatch"),
    Case([p EXCEPT !.execution_id = "0"], "block_execution_id_binding_mismatch"),
    Case([p EXCEPT !.implementation_head_sha = ZeroCommit],
         "block_implementation_head_binding_mismatch"),
    Case([p EXCEPT !.scope.allowed_files = Appended(@, SecondFile)],
         "block_allowed_files_binding_mismatch"),
    Case([p EXCEPT !.scope.new_files = Appended(@, SecondFile)],
         "block_new_files_binding_mismatch"),
    Case([p EXCEPT !.scope.acceptance_contract.expected_changed_paths =
            Appended(@, SecondFile)],
         "block_acceptance_contract_binding_mismatch"),
    Case([p EXCEPT !.execution.observed_post_worktree_entries = Appended(@, SecondFile)],
         "block_observed_paths_binding_mismatch"),
    Case([p EXCEPT !.execution.sha256_chain =
            [f \in DOMAIN @ \cup {SecondFile} |->
               IF f = SecondFile THEN Null ELSE @[f]]],
         "block_sha256_chain_binding_mismatch") }

CommitCases(p) ==
  { Case([p EXCEPT !.committed_binding.committed_file_hashes =
            [f \in DOMAIN @ |-> IF f = CHOOSE g \in DOMAIN @ : TRUE
                                THEN ZeroDigest ELSE @[f]]],
         "block_committed_hash_binding_mismatch"),
    Case([p EXCEPT !.committed_binding.commit_sha = "not-a-sha"],
         "block_commit_identity_binding_mismatch"),
    Case([p EXCEPT !.committed_binding.parent_sha = ZeroCommit],
         "block_complete_cargo_changeset_binding_mismatch"),
    Case([p EXCEPT !.committed_binding.changed_paths = Appended(@, SecondFile)],
         "block_complete_cargo_changeset_binding_mismatch"),
    Case([p EXCEPT !.committed_binding.commit_sha = p.committed_binding.parent_sha],
         "block_cargo_commit_equals_execution_head"),
    Case([p EXCEPT !.committed_binding.commit_sha = ZeroCommit],
         "block_owner_closure_signature_invalid") }

ClosureCases(p) ==
  { Case([p EXCEPT !.closure.signature.shape = "absent"],
         "block_owner_closure_signature_missing"),
    Case([p EXCEPT !.closure.closed = FALSE], "block_owner_closure_unknown_field"),
    Case([p EXCEPT !.closure.signature.signature_hex = Garbled],
         "block_owner_closure_signature_malformed"),
    Case([p EXCEPT !.closure.signature.signing_key_id = "unknown-owner"],
         "block_owner_closure_signature_wrong_key"),
    Case([p EXCEPT !.closure.signature.signature_hex = Scrambled],
         "block_owner_closure_signature_invalid") }

Cases(p) == ByteCases(p) \cup EnvelopeCases(p) \cup GrantCases(p) \cup CustodyCases(p)
            \cup BindingCases(p) \cup CommitCases(p) \cup ClosureCases(p)

CorpusEdits(p) == {c.mutated : c \in Cases(p)}
=============================================================================
