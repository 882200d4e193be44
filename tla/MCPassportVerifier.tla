------------------------- MODULE MCPassportVerifier -------------------------
(***************************************************************************)
(* Two published passports for TLC: of a run that changed one file and of  *)
(* one that also made a file, under two trusted owner keys; and edits that *)
(* go further than the corpus does, a section of one passport in the other *)
(* among them.                                                             *)
(***************************************************************************)
EXTENDS RefusalCorpus

List(files) == [paths |-> files, spelling |-> "canonical"]

Run(n) == IF n = 1 THEN [id |-> "run-1", head |-> "c1", commit |-> "c2", key |-> "owner-1",
                         files |-> {"a"}, new |-> {}]
                   ELSE [id |-> "run-2", head |-> "c2", commit |-> "c3", key |-> "owner-2",
                         files |-> {"a", "b"}, new |-> {"b"}]

SignedBy(key, version) ==
  [shape |-> "closed", signature_version |-> version, signing_key_id |-> key,
   signature_hex |-> Scrambled]

Contract(files) == [closed |-> TRUE, expected_changed_paths |-> List(files), markers |-> "m"]

GrantOf(run) ==
  LET grant == [well_formed |-> TRUE, grant_id |-> run.id, run_id |-> run.id,
                head_sha |-> run.head, terms |-> "terms", members |-> "known",
                allowed_scope |-> "deedseal-bounded-file-set/1.0/edit",
                operation_class |-> "agent_subprocess",
                publication_class |-> "public-full-record",
                allowed_files |-> List(run.files), new_files |-> List(run.new),
                acceptance_contract |-> Contract(run.files),
                owner_signature |-> SignedBy(run.key, "v0.6")]
  IN  [grant EXCEPT !.owner_signature.signature_hex =
         Signature(run.key, GrantMessage(grant))]

ReportOf(run, grant) ==
  [present |-> TRUE, well_formed |-> TRUE, redacted |-> TRUE, output_digests |-> TRUE,
   publication_class |-> "public-full-record", boundary_present |-> TRUE,
   os_boundary |-> [schema_version |-> "1.1", applied |-> TRUE, runtime_scratch |-> TRUE,
                    grant_sha256 |-> GrantDigest(grant), rules |-> List(run.files)]]

CustodyOf(run, grant) ==
  LET custody == [record_schema |-> "deedseal-supervised-run-custody/1.0", closed |-> TRUE,
                  fixed_values |-> TRUE, roadmap_step |-> "deedseal-public-run/1.0",
                  target |-> "deedseal-bounded-file-set/1.0/edit",
                  publication_class |-> "public-full-record",
                  record_status |-> "OUTCOME_SUCCESS",
                  reason_code |-> "allow_supervised_agent_capture_recorded",
                  grant_id |-> run.id, run_id |-> run.id, execution_id |-> run.id,
                  head_sha |-> run.head, observed_post_head_sha |-> run.head,
                  observed_pre_worktree_entries |-> List({}),
                  observed_post_worktree_entries |-> List(run.files),
                  observed_changed_file_count |-> Cardinality(run.files),
                  allowed_files |-> List(run.files), grant_sha256 |-> GrantDigest(grant),
                  runner_report |-> ReportOf(run, grant),
                  signature |-> SignedBy("custody-1", "custody/0.1")]
  IN  [custody EXCEPT !.signature.signature_hex =
         Signature("custody-1", CustodyMessage(custody))]

EntryOf(run, f) ==
  [seed_sha256 |-> IF f \in run.new THEN Null ELSE "d0", staged_sha256 |-> "d1",
   materialized_sha256 |-> "d1", stage_materialize_equal |-> TRUE,
   seed_staged_differ |-> IF f \in run.new THEN Null ELSE TRUE]

PassportOf(run) ==
  LET grant == GrantOf(run)
      p == [text |-> "canonical", unknown_field |-> FALSE, missing_field |-> FALSE,
            schema_version |-> "deedseal-run-passport/1.0", sections_closed |-> TRUE,
            roadmap_step |-> "deedseal-public-run/1.0", run_id |-> run.id,
            execution_id |-> run.id, implementation_head_sha |-> run.head,
            supplementary_evidence |-> Null,
            authorization |-> grant, custody |-> CustodyOf(run, grant),
            scope |-> [allowed_files |-> List(run.files), new_files |-> List(run.new),
                       acceptance_contract |-> Contract(run.files)],
            execution |-> [observed_pre_worktree_entries |-> List({}),
                           observed_post_worktree_entries |-> List(run.files),
                           observed_post_head_sha |-> run.head,
                           observed_changed_file_count |-> Cardinality(run.files),
                           sha256_chain |-> [f \in run.files |-> EntryOf(run, f)]],
            committed_binding |-> [identity_closed |-> TRUE, parent_sha |-> run.head,
                                   commit_sha |-> run.commit,
                                   changed_paths |-> List(run.files),
                                   committed_file_hashes |-> [f \in run.files |-> "d1"]],
            closure |-> [closed |-> TRUE, closure_version |-> "closure/0.1",
                         signature |-> SignedBy(run.key, "closure/0.1")]]
  IN  [p EXCEPT !.closure.signature.signature_hex =
         Signature(run.key, ClosureMessage(p))]

MCPublished == {PassportOf(Run(1)), PassportOf(Run(2))}
----------------------------------------------------------------------------
\* A section of another published passport in place of one's own.
Spliced(p) ==
  UNION { { [p EXCEPT !.authorization = q.authorization], [p EXCEPT !.custody = q.custody],
            [p EXCEPT !.scope = q.scope], [p EXCEPT !.execution = q.execution],
            [p EXCEPT !.committed_binding = q.committed_binding],
            [p EXCEPT !.closure = q.closure],
            [p EXCEPT !.custody.runner_report = q.custody.runner_report],
            [p EXCEPT !.custody.runner_report.os_boundary.grant_sha256 =
               GrantDigest(q.authorization)],
            [p EXCEPT !.custody.grant_id = q.custody.grant_id],
            [p EXCEPT !.custody.grant_sha256 = GrantDigest(q.authorization)] }
          : q \in Published }

\* Lists that mean the same and are spelled another way.
Respelled(p) ==
  UNION { { [p EXCEPT !.authorization.allowed_files.spelling = s],
            [p EXCEPT !.scope.allowed_files.spelling = s],
            [p EXCEPT !.custody.allowed_files.spelling = s],
            [p EXCEPT !.custody.allowed_files.spelling = s,
                      !.custody.runner_report.os_boundary.rules.spelling = s],
            [p EXCEPT !.execution.observed_post_worktree_entries.spelling = s,
                      !.custody.observed_post_worktree_entries.spelling = s],
            [p EXCEPT !.execution.observed_pre_worktree_entries.spelling = s,
                      !.custody.observed_pre_worktree_entries.spelling = s],
            [p EXCEPT !.committed_binding.changed_paths.spelling = s] }
          : s \in Spellings }

\* What only another signature can make the verifier look at.
Reworked(p) ==
  { [p EXCEPT !.authorization.publication_class = "internal",
              !.custody.publication_class = "internal",
              !.custody.runner_report.publication_class = "internal"],
    [p EXCEPT !.custody.record_status = "OUTCOME_FAILED",
              !.custody.reason_code = "block_supervised_agent_capture_failed"],
    [p EXCEPT !.custody.runner_report.os_boundary.schema_version = "1.0"],
    [p EXCEPT !.authorization.owner_signature.signature_version = "v0.5"],
    [p EXCEPT !.authorization.owner_signature.signing_key_id = "owner-1"],
    [p EXCEPT !.authorization.members = "unknown"],
    [p EXCEPT !.supplementary_evidence = "probe"],
    [p EXCEPT !.closure.closure_version = "closure/0.2"],
    [p EXCEPT !.committed_binding.commit_sha = "c1"],
    [p EXCEPT !.custody.observed_changed_file_count = 3] }

\* A run of no file at all, under a boundary of the grant once that is signed again.
Emptied(p) ==
  LET none == List({})
      contract == Contract({})
      grant == [p.authorization EXCEPT !.allowed_files = none, !.new_files = none,
                                       !.acceptance_contract = contract]
      granted == [grant EXCEPT !.owner_signature.signature_hex =
                    Signature(grant.owner_signature.signing_key_id, GrantMessage(grant))]
  IN  [p EXCEPT !.authorization = grant,
                !.custody.allowed_files = none,
                !.custody.observed_post_worktree_entries = none,
                !.custody.observed_changed_file_count = 0,
                !.custody.runner_report.os_boundary.rules = none,
                !.custody.runner_report.os_boundary.grant_sha256 = GrantDigest(granted),
                !.scope = [allowed_files |-> none, new_files |-> none,
                           acceptance_contract |-> contract],
                !.execution.observed_post_worktree_entries = none,
                !.execution.observed_changed_file_count = 0,
                !.execution.sha256_chain = <<>>,
                !.committed_binding.changed_paths = none,
                !.committed_binding.committed_file_hashes = <<>>]

MCEdits(p) ==
  CorpusEdits(p) \cup Spliced(p) \cup Respelled(p) \cup Reworked(p) \cup {Emptied(p)}
==============================================================================
