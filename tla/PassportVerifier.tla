-------------------------- MODULE PassportVerifier --------------------------
(***************************************************************************)
(* The offline verifier of run passports, tools/verify_run_passport.py:    *)
(* one passport is read and checked link by link, and the first broken     *)
(* link is the reason it is refused with.  Between two runs of the         *)
(* verifier the passport is edited by whoever holds a copy, and it may be  *)
(* signed again by the owner or by the custody service.                    *)
(*                                                                         *)
(* A signature is the record of who made it over what: no edit makes one.  *)
(* A digest is the value it is the digest of.  A list of paths is the set  *)
(* of the paths together with how the list spells them.  What the verifier *)
(* only compares with literals of its own is one Boolean field per check.  *)
(***************************************************************************)
EXTENDS Naturals, FiniteSets, Sequences

CONSTANTS
  OwnerAnchors,    \* the owner key ids the verifier trusts
  CustodyAnchors,  \* the custody key ids it trusts
  Commits,         \* the well formed commit ids
  Digests,         \* the well formed digests of file contents
  Published,       \* the passports published before the first step
  Edits(_),        \* the passports one edit away from a passport
  Signers,         \* which of "grant", "custody" and "closure" are signed again
  MaxEdits,        \* bound: edits of the passport, all together
  MaxResigned,     \* bound: edits before anything is signed again
  Null,            \* JSON null, or a value that is not there
  Garbled          \* a signature_hex that is not 128 hexadecimal digits

VARIABLES
  passport,  \* the passport that lies before the verifier
  signed,    \* every signature made so far
  closed,    \* every passport the owner closed, as it was when he did
  edits,     \* how often the passport was edited
  at,        \* the check the verifier takes next
  verdict,   \* its answer: whether the passport passes, and the reason if not
  shown      \* the owner key id it prints

vars == <<passport, signed, closed, edits, at, verdict, shown>>
----------------------------------------------------------------------------
(* Lists of paths: [paths |-> set, spelling |-> how]. *)

Spellings == {"canonical",   \* sorted, no path twice, no blanks around one
              "reordered", "repeated",
              "padded",      \* blanks around a path
              "not_a_list"}

\* What strip, dict.fromkeys and sorted leave of a list.
Normalized(list) == IF list.spelling = "not_a_list" THEN Null ELSE list.paths

IsList(list) == list.spelling # "not_a_list"

(* Signatures. *)

Signature(key, message) == [by |-> key, over |-> message]

\* A well formed signature_hex that no key made.
Scrambled == Signature(Null, Null)

\* The grant as the owner signs it: path lists and marker keys normalized, the
\* publication class only since version 0.6, members he does not know left out.
GrantMessage(grant) ==
  [kind |-> "grant", version |-> grant.owner_signature.signature_version,
   grant_id |-> grant.grant_id, run_id |-> grant.run_id, head_sha |-> grant.head_sha,
   allowed_scope |-> grant.allowed_scope, operation_class |-> grant.operation_class,
   terms |-> grant.terms,
   allowed_files |-> Normalized(grant.allowed_files),
   new_files |-> Normalized(grant.new_files),
   expected |-> Normalized(grant.acceptance_contract.expected_changed_paths),
   markers |-> grant.acceptance_contract.markers,
   publication_class |-> IF grant.owner_signature.signature_version = "v0.6"
                         THEN grant.publication_class ELSE Null]

PublicationClasses == {"internal", "public-full-record"}

\* Could an owner have signed this grant at all?
GrantFit(grant) ==
  /\ grant.well_formed
  /\ IsList(grant.allowed_files) /\ IsList(grant.new_files)
  /\ grant.acceptance_contract.closed
  /\ IsList(grant.acceptance_contract.expected_changed_paths)
  /\ grant.owner_signature.signature_version = "v0.6"
       => grant.publication_class \in PublicationClasses

\* The custody service signs the whole record and its own key id.
CustodyMessage(custody) ==
  [kind |-> "custody", key |-> custody.signature.signing_key_id,
   record |-> [f \in DOMAIN custody \ {"signature"} |-> custody[f]]]

\* The owner closes everything but the closure itself and the bytes around it.
Core(p) == [f \in DOMAIN p \ {"closure", "text"} |-> p[f]]

\* Fault: the supplementary evidence is left out of what the owner closes.
ClosureMessageBare(p) ==
  [kind |-> "closure", version |-> "closure/0.1",
   passport_core |-> [Core(p) EXCEPT !.supplementary_evidence = Null]]

ClosureMessage(p) ==
  [kind |-> "closure", version |-> "closure/0.1", passport_core |-> Core(p)]

\* The digest of the embedded grant, signature and unknown members included.
GrantDigest(grant) == grant
----------------------------------------------------------------------------
(* A link of the chain, and what a sequence of links decides. *)

Link(broken, reason) == [broken |-> broken, reason |-> reason]

Unbroken(links) == \A i \in DOMAIN links : ~ links[i].broken

FirstBroken(links) ==
  LET first == CHOOSE i \in DOMAIN links :
                 links[i].broken /\ \A j \in 1..(i - 1) : ~ links[j].broken
  IN  links[first].reason

\* The key is looked up by its declared id, among the anchors only.
SignatureLinks(signature, anchors, message, wrongKey, malformed, invalid) ==
  << Link(signature.signing_key_id \notin anchors, wrongKey),
     Link(signature.signature_hex = Garbled, malformed),
     Link(signature.signature_hex # Signature(signature.signing_key_id, message), invalid) >>
----------------------------------------------------------------------------
(* The checks, in their order. *)

\* Fault: the spelling of the bytes is judged when they are parsed.
ParseLinksWire(p) ==
  << Link(p.text # "canonical", "block_public_run_passport_noncanonical_serialization") >>

ParseLinks(p) ==
  << Link(p.text = "unreadable", "passport_unreadable"),
     Link(p.text = "duplicate_key", "block_run_passport_duplicate_key"),
     Link(p.text = "unparseable", "block_run_passport_unparseable"),
     Link(p.text = "trailing_content", "block_run_passport_trailing_content"),
     Link(p.text = "not_object", "block_run_passport_not_object") >>

EnvelopeLinks(p) ==
  << Link(p.unknown_field, "block_run_passport_unknown_field"),
     Link(p.missing_field, "block_run_passport_missing_field"),
     Link(p.schema_version # "deedseal-run-passport/1.0",
          "block_run_passport_schema_unsupported"),
     Link(~ p.sections_closed, "block_run_passport_malformed_section") >>

GrantLinks(p) ==
  LET signature == p.authorization.owner_signature
  IN  << Link(\/ signature.shape = "absent"
              \/ signature.signature_version \notin {"v0.5", "v0.6"}
              \/ ~ GrantFit(p.authorization),
              "block_owner_authorization_malformed") >>
      \o SignatureLinks(signature, OwnerAnchors, GrantMessage(p.authorization),
           "block_owner_authorization_wrong_key", "block_owner_authorization_malformed",
           "block_owner_authorization_signature_invalid")

\* Fault: the outcome is read before the signature over it is verified.
CustodyLinksOutcome(p) ==
  << Link(p.custody.record_status # "OUTCOME_SUCCESS", "block_custody_outcome_not_success"),
     Link(~ p.custody.closed, "block_custody_record_malformed") >>
  \o SignatureLinks(p.custody.signature, CustodyAnchors, CustodyMessage(p.custody),
       "block_custody_record_wrong_key", "block_custody_record_malformed",
       "block_custody_record_signature_invalid")

CustodyLinks(p) ==
  LET signature == p.custody.signature
  IN  << Link(p.custody.record_schema # "deedseal-supervised-run-custody/1.0",
              "block_custody_record_schema_unsupported"),
         Link(\/ ~ p.custody.closed
              \/ signature.shape # "closed"
              \/ signature.signature_version # "custody/0.1",
              "block_custody_record_malformed") >>
      \o SignatureLinks(signature, CustodyAnchors, CustodyMessage(p.custody),
           "block_custody_record_wrong_key", "block_custody_record_malformed",
           "block_custody_record_signature_invalid")

\* The rules the kernel applied are the files the custody record allows, in
\* their raw spelling and sorted; the digest of the grant need only be one.
LandlockHolds(boundary, allowed) ==
  /\ boundary.schema_version \in {"1.0", "1.1"}
  /\ boundary.applied
  /\ boundary.grant_sha256 # Null
  /\ IsList(allowed) /\ allowed.paths # {} /\ allowed.spelling # "repeated"
  /\ boundary.rules.paths = allowed.paths
  /\ boundary.rules.spelling = IF allowed.spelling = "padded" THEN "padded" ELSE "canonical"
  /\ boundary.schema_version = "1.1" => boundary.runtime_scratch

\* The reason code each status of a public record goes with.
RequiredReason ==
  [AUTHORIZED |-> Null,
   OUTCOME_SUCCESS |-> "allow_supervised_agent_capture_recorded",
   OUTCOME_FAILED |-> "block_supervised_agent_capture_failed"]

PublicationContractHolds(custody) ==
  LET report == custody.runner_report
      success == custody.record_status = "OUTCOME_SUCCESS"
  IN  /\ custody.publication_class \in PublicationClasses
      /\ custody.publication_class = "public-full-record" =>
           /\ custody.fixed_values
           /\ custody.roadmap_step = "deedseal-public-run/1.0"
           /\ custody.target = "deedseal-bounded-file-set/1.0/edit"
           /\ custody.record_status \in DOMAIN RequiredReason
           /\ custody.reason_code = RequiredReason[custody.record_status]
      /\ ~ report.present => ~ success
      /\ report.present =>
           /\ report.well_formed
           /\ report.publication_class = custody.publication_class
           /\ success => report.boundary_present /\ report.output_digests
           /\ report.boundary_present =>
                LandlockHolds(report.os_boundary, custody.allowed_files)
           /\ custody.publication_class = "public-full-record" => report.redacted

ContractLinks(p) ==
  LET grant == p.authorization
      custody == p.custody
      v06 == grant.owner_signature.signature_version = "v0.6"
      public == custody.publication_class = "public-full-record"
  IN  << Link(~ PublicationContractHolds(custody),
              "block_custody_publication_contract_malformed"),
         Link(~ v06 \/ custody.publication_class # grant.publication_class,
              "block_grant_custody_binding_mismatch"),
         Link(public /\ \/ grant.allowed_scope # custody.target
                        \/ grant.operation_class # "agent_subprocess"
                        \/ p.roadmap_step # custody.roadmap_step,
              "block_custody_publication_contract_malformed"),
         Link(~ (v06 /\ grant.publication_class = "public-full-record" /\ public),
              "block_public_run_passport_contract_malformed"),
         Link(custody.record_status # "OUTCOME_SUCCESS",
              "block_custody_outcome_not_success") >>

BindingLinks(p) ==
  LET grant == p.authorization
      custody == p.custody
      head == p.implementation_head_sha
  IN  << Link(custody.grant_sha256 # GrantDigest(grant),
              "block_grant_custody_binding_mismatch"),
         Link(p.run_id # grant.run_id \/ grant.run_id # custody.run_id,
              "block_run_id_binding_mismatch"),
         Link(p.execution_id # custody.execution_id,
              "block_execution_id_binding_mismatch"),
         Link(\/ head # grant.head_sha
              \/ grant.head_sha # custody.head_sha
              \/ custody.head_sha # custody.observed_post_head_sha
              \/ head \notin Commits,
              "block_implementation_head_binding_mismatch"),
         Link(grant.grant_id # custody.grant_id, "block_grant_id_binding_mismatch") >>

\* Fault: the acceptance contract is compared before the allowed files are.
ScopeLinksSwapped(p) ==
  << Link(Normalized(p.scope.acceptance_contract.expected_changed_paths)
            # Normalized(p.scope.allowed_files),
          "block_acceptance_contract_binding_mismatch"),
     Link(Normalized(p.scope.allowed_files) # Normalized(p.authorization.allowed_files),
          "block_allowed_files_binding_mismatch") >>

ScopeLinks(p) ==
  LET scope == p.scope
      grant == p.authorization
      allowed == Normalized(scope.allowed_files)
      contract == scope.acceptance_contract
  IN  << Link(\/ ~ IsList(scope.allowed_files) \/ ~ IsList(p.custody.allowed_files)
              \/ allowed # Normalized(grant.allowed_files)
              \/ allowed # Normalized(p.custody.allowed_files),
              "block_allowed_files_binding_mismatch"),
         Link(\/ ~ IsList(scope.new_files)
              \/ Normalized(scope.new_files) # Normalized(grant.new_files)
              \/ ~ (scope.new_files.paths \subseteq scope.allowed_files.paths),
              "block_new_files_binding_mismatch"),
         Link(\/ ~ contract.closed
              \/ ~ IsList(contract.expected_changed_paths)
              \/ Normalized(contract.expected_changed_paths)
                   # Normalized(grant.acceptance_contract.expected_changed_paths)
              \/ contract.markers # grant.acceptance_contract.markers
              \/ Normalized(contract.expected_changed_paths) # allowed,
              "block_acceptance_contract_binding_mismatch") >>

\* A chain that is whole: what was staged is what came to be, and it is new.
EntryHolds(entry, isNew) ==
  /\ entry.staged_sha256 \in Digests
  /\ entry.staged_sha256 = entry.materialized_sha256
  /\ entry.stage_materialize_equal = TRUE
  /\ IF isNew
     THEN entry.seed_sha256 = Null /\ entry.seed_staged_differ = Null
     ELSE /\ entry.seed_sha256 \in Digests
          /\ entry.seed_sha256 # entry.staged_sha256
          /\ entry.seed_staged_differ = TRUE

ObservationLinks(p) ==
  LET execution == p.execution
      custody == p.custody
      allowed == p.scope.allowed_files.paths
      post == execution.observed_post_worktree_entries
  IN  << Link(\/ ~ IsList(post) \/ ~ IsList(execution.observed_pre_worktree_entries)
              \/ post # custody.observed_post_worktree_entries
              \/ execution.observed_pre_worktree_entries
                   # custody.observed_pre_worktree_entries
              \/ execution.observed_post_head_sha # custody.observed_post_head_sha
              \/ execution.observed_changed_file_count
                   # custody.observed_changed_file_count
              \/ execution.observed_changed_file_count # Cardinality(allowed)
              \/ post.spelling = "padded" \/ post.paths # allowed,
              "block_observed_paths_binding_mismatch"),
         Link(\/ DOMAIN execution.sha256_chain # allowed
              \/ \E f \in DOMAIN execution.sha256_chain :
                   ~ EntryHolds(execution.sha256_chain[f], f \in p.scope.new_files.paths),
              "block_sha256_chain_binding_mismatch") >>

CommitLinks(p) ==
  LET binding == p.committed_binding
      allowed == p.scope.allowed_files.paths
  IN  << Link(~ binding.identity_closed
                \/ ~ ({binding.parent_sha, binding.commit_sha} \subseteq Commits),
              "block_commit_identity_binding_mismatch"),
         Link(binding.parent_sha # p.implementation_head_sha,
              "block_complete_cargo_changeset_binding_mismatch"),
         Link(binding.commit_sha = binding.parent_sha,
              "block_cargo_commit_equals_execution_head"),
         Link(binding.changed_paths # [paths |-> allowed, spelling |-> "canonical"],
              "block_complete_cargo_changeset_binding_mismatch"),
         Link(\/ DOMAIN binding.committed_file_hashes # allowed
              \/ \E f \in DOMAIN binding.committed_file_hashes :
                   binding.committed_file_hashes[f]
                     # p.execution.sha256_chain[f].materialized_sha256,
              "block_committed_hash_binding_mismatch") >>

\* Fault: the closure may be of another trusted owner than the grant is.
ClosureLinksAnyOwner(p) ==
  << Link(p.closure.signature.shape # "closed", "block_owner_closure_signature_malformed") >>
  \o SignatureLinks(p.closure.signature, OwnerAnchors, ClosureMessage(p),
       "block_owner_closure_signature_wrong_key", "block_owner_closure_signature_malformed",
       "block_owner_closure_signature_invalid")

ClosureLinks(p) ==
  LET signature == p.closure.signature
  IN  << Link(signature.shape = "absent", "block_owner_closure_signature_missing"),
         Link(~ p.closure.closed, "block_owner_closure_unknown_field"),
         Link(\/ signature.shape # "closed"
              \/ p.closure.closure_version # "closure/0.1"
              \/ signature.signature_version # "closure/0.1",
              "block_owner_closure_signature_malformed") >>
      \o SignatureLinks(signature, OwnerAnchors, ClosureMessage(p),
           "block_owner_closure_signature_wrong_key",
           "block_owner_closure_signature_malformed",
           "block_owner_closure_signature_invalid")
      \o << Link(signature.signing_key_id # p.authorization.owner_signature.signing_key_id,
                 "block_owner_closure_signature_wrong_key") >>

WireLinks(p) ==
  << Link(p.text # "canonical", "block_public_run_passport_noncanonical_serialization") >>
----------------------------------------------------------------------------
NoAnswer == <<>>

PublishedSignatures ==
  UNION {{p.authorization.owner_signature.signature_hex, p.custody.signature.signature_hex,
          p.closure.signature.signature_hex} : p \in Published}

Init ==
  /\ passport \in Published
  /\ signed = PublishedSignatures
  /\ closed = Published
  /\ edits = 0
  /\ at = "idle" /\ verdict = NoAnswer /\ shown = Null

\* The members of a passport and of what is signed in it.  A member too many or
\* too few is a Boolean, so that an edit never changes these.
IsPassport(p) ==
  /\ DOMAIN p = {"text", "unknown_field", "missing_field", "schema_version",
                 "sections_closed", "roadmap_step", "run_id", "execution_id",
                 "implementation_head_sha", "supplementary_evidence", "authorization",
                 "custody", "scope", "execution", "committed_binding", "closure"}
  /\ {"owner_signature"} \subseteq DOMAIN p.authorization
  /\ {"grant_sha256", "signature"} \subseteq DOMAIN p.custody
  /\ {"signature"} \subseteq DOMAIN p.closure
  /\ \A s \in {p.authorization.owner_signature, p.custody.signature, p.closure.signature} :
       {"signing_key_id", "signature_hex"} \subseteq DOMAIN s

\* Every signature_hex of the passport is one that was made, or no signature.
Available(p) ==
  {p.authorization.owner_signature.signature_hex, p.custody.signature.signature_hex,
   p.closure.signature.signature_hex} \subseteq signed \cup {Garbled, Scrambled}

\* A passport that was signed again is edited less often than the others.
NobodySignedAgain == signed = PublishedSignatures

Edit ==
  /\ at = "idle" /\ edits < MaxEdits /\ (NobodySignedAgain \/ edits < MaxResigned)
  /\ \E p \in Edits(passport) : IsPassport(p) /\ Available(p) /\ passport' = p
  /\ edits' = edits + 1
  /\ UNCHANGED <<signed, closed, at, verdict, shown>>

\* The owner signs the grant as it now stands.
SignGrant ==
  /\ at = "idle" /\ "grant" \in Signers /\ edits \leq MaxResigned
  /\ passport.authorization.owner_signature.signing_key_id \in OwnerAnchors
  /\ LET hex == Signature(passport.authorization.owner_signature.signing_key_id,
                          GrantMessage(passport.authorization))
     IN  /\ passport' = [passport EXCEPT !.authorization.owner_signature.signature_hex = hex]
         /\ signed' = signed \cup {hex}
  /\ UNCHANGED <<closed, edits, at, verdict, shown>>

\* The custody service signs the record as it now stands, over the digest it
\* holds or over that of the grant beside it.
SignCustody ==
  /\ at = "idle" /\ "custody" \in Signers /\ edits \leq MaxResigned
  /\ passport.custody.signature.signing_key_id \in CustodyAnchors
  /\ \E digest \in {passport.custody.grant_sha256, GrantDigest(passport.authorization)} :
       LET record == [passport.custody EXCEPT !.grant_sha256 = digest]
           hex == Signature(record.signature.signing_key_id, CustodyMessage(record))
       IN  /\ passport' = [passport EXCEPT !.custody =
                             [record EXCEPT !.signature.signature_hex = hex]]
           /\ signed' = signed \cup {hex}
  /\ UNCHANGED <<closed, edits, at, verdict, shown>>

\* The owner closes the passport as it now stands.
Close ==
  /\ at = "idle" /\ "closure" \in Signers /\ edits \leq MaxResigned
  /\ passport.closure.signature.signing_key_id \in OwnerAnchors
  /\ LET hex == Signature(passport.closure.signature.signing_key_id,
                          ClosureMessage(passport))
     IN  /\ passport' = [passport EXCEPT !.closure.signature.signature_hex = hex]
         /\ signed' = signed \cup {hex}
  /\ closed' = closed \cup {passport'}
  /\ UNCHANGED <<edits, at, verdict, shown>>
----------------------------------------------------------------------------
Start ==
  /\ at = "idle"
  /\ at' = "parse"
  /\ UNCHANGED <<passport, signed, closed, edits, verdict, shown>>

\* One group of checks: go on to the next, or refuse and stop.
Check(stage, links, next) ==
  /\ at = stage
  /\ IF Unbroken(links)
     THEN at' = next /\ verdict' = verdict
     ELSE at' = "done" /\ verdict' = <<FALSE, FirstBroken(links)>>
  /\ UNCHANGED <<passport, signed, closed, edits, shown>>

CheckParse == Check("parse", ParseLinks(passport), "envelope")
CheckEnvelope == Check("envelope", EnvelopeLinks(passport), "grant")
CheckGrant == Check("grant", GrantLinks(passport), "custody")
CheckCustody == Check("custody", CustodyLinks(passport), "contract")
CheckContract == Check("contract", ContractLinks(passport), "binding")
CheckBinding == Check("binding", BindingLinks(passport), "scope")
CheckScope == Check("scope", ScopeLinks(passport), "observation")
CheckObservation == Check("observation", ObservationLinks(passport), "commit")
CheckCommit == Check("commit", CommitLinks(passport), "closure")
CheckClosure == Check("closure", ClosureLinks(passport), "wire")
CheckWire == Check("wire", WireLinks(passport), "pass")

\* Every link held: the answer is PASS, and the owner's key id is shown.
Pass ==
  /\ at = "pass"
  /\ at' = "done" /\ verdict' = <<TRUE, Null>>
  /\ shown' = passport.authorization.owner_signature.signing_key_id
  /\ UNCHANGED <<passport, signed, closed, edits>>

\* The verifier answered; the passport may be looked at again.
Again ==
  /\ at = "done"
  /\ at' = "idle" /\ verdict' = NoAnswer /\ shown' = Null
  /\ UNCHANGED <<passport, signed, closed, edits>>

Verify ==
  \/ CheckParse \/ CheckEnvelope \/ CheckGrant \/ CheckCustody \/ CheckContract
  \/ CheckBinding \/ CheckScope \/ CheckObservation \/ CheckCommit \/ CheckClosure
  \/ CheckWire \/ Pass

Next == Edit \/ SignGrant \/ SignCustody \/ Close \/ Start \/ Verify \/ Again

Spec == Init /\ [][Next]_vars
----------------------------------------------------------------------------
\* What the verifier trusts is a key, a digest is a value, and what was published carries the three
\* signatures it says it carries.
AnchorsAssumption ==
  {MaxEdits, MaxResigned} \subseteq Nat /\ Null \notin OwnerAnchors \cup CustodyAnchors \cup Digests

PublishedAssumption ==
  \A p \in Published :
    LET grant == p.authorization.owner_signature
        custody == p.custody.signature
        closure == p.closure.signature
    IN  /\ IsPassport(p) /\ p.text = "canonical"
        /\ grant.signature_hex = Signature(grant.signing_key_id, GrantMessage(p.authorization))
        /\ custody.signature_hex = Signature(custody.signing_key_id, CustodyMessage(p.custody))
        /\ closure.signature_hex = Signature(closure.signing_key_id, ClosureMessage(p))

ASSUME PassportAssumption == AnchorsAssumption /\ PublishedAssumption

\* The types of the variables: the passport has its members, and every
\* signature_hex in it was made or is none.
Stages == {"idle", "parse", "envelope", "grant", "custody", "contract", "binding", "scope",
           "observation", "commit", "closure", "wire", "pass", "done"}

TypeOK ==
  /\ IsPassport(passport) /\ Available(passport)
  /\ edits \in 0..MaxEdits
  /\ at \in Stages
  /\ shown \in OwnerAnchors \cup {Null}

Passed == verdict = <<TRUE, Null>>

\* Every link of every group.
AllHold(p) ==
  /\ Unbroken(ParseLinks(p)) /\ Unbroken(EnvelopeLinks(p)) /\ Unbroken(GrantLinks(p))
  /\ Unbroken(CustodyLinks(p)) /\ Unbroken(ContractLinks(p)) /\ Unbroken(BindingLinks(p))
  /\ Unbroken(ScopeLinks(p)) /\ Unbroken(ObservationLinks(p)) /\ Unbroken(CommitLinks(p))
  /\ Unbroken(ClosureLinks(p)) /\ Unbroken(WireLinks(p))

\* Every signature that closes a passport was made when the owner closed one, under
\* the one version of the closure there is.
ClosuresOK ==
  \A s \in signed :
    s.over.kind = "closure" =>
      /\ s.over.version = "closure/0.1"
      /\ \E p \in closed : /\ s.over.passport_core = Core(p)
                          /\ p.closure.signature.signature_hex = s

\* How far the verifier has come, and what it has found to hold on the way.
Rank == [idle |-> 0, parse |-> 1, envelope |-> 2, grant |-> 3, custody |-> 4,
         contract |-> 5, binding |-> 6, scope |-> 7, observation |-> 8, commit |-> 9,
         closure |-> 10, wire |-> 11, pass |-> 12, done |-> 0]

Verified(stage) == Rank[at] > Rank[stage] \/ Passed

ChecksOK ==
  /\ Verified("parse") => Unbroken(ParseLinks(passport))
  /\ Verified("envelope") => Unbroken(EnvelopeLinks(passport))
  /\ Verified("grant") => Unbroken(GrantLinks(passport))
  /\ Verified("custody") => Unbroken(CustodyLinks(passport))
  /\ Verified("contract") => Unbroken(ContractLinks(passport))
  /\ Verified("binding") => Unbroken(BindingLinks(passport))
  /\ Verified("scope") => Unbroken(ScopeLinks(passport))
  /\ Verified("observation") => Unbroken(ObservationLinks(passport))
  /\ Verified("commit") => Unbroken(CommitLinks(passport))
  /\ Verified("closure") => Unbroken(ClosureLinks(passport))
  /\ Verified("wire") => Unbroken(WireLinks(passport))

\* There is an answer only at the end, and a key id only with a pass.
AnswersOK ==
  /\ at # "done" => verdict = NoAnswer
  /\ shown = IF Passed THEN passport.authorization.owner_signature.signing_key_id ELSE Null

\* The inductive invariant: types, where closing signatures come from, what the
\* verifier has established at each stage and what it has answered.
IInv == TypeOK /\ ClosuresOK /\ ChecksOK /\ AnswersOK

\* A passport passes only if its owner closed it: all of its members are those
\* of a passport he closed, its closing signature is the one he made then, and
\* its bytes are the one canonical spelling of them ("Every link below verified
\* over exactly the bytes you supplied", verify_run_passport.py:13).
PassIsClosed ==
  Passed => /\ passport.text = "canonical"
            /\ \E p \in closed :
                 /\ Core(passport) = Core(p)
                 /\ passport.closure.signature.signature_hex
                      = p.closure.signature.signature_hex

\* What a PASS means (verify_run_passport.py:13-26): one and the same owner, whose
\* key id is shown, signed the grant and the whole record; the custody service
\* signed what it saw under a key of its own; and the files the owner granted are
\* the files the kernel let be written (but for blanks around a path, see
\* VerifiersDiffer in GoVerifier), the files that changed and the files committed on top of
\* the commit he named, each with the bytes that were staged.
PassBinds ==
  Passed =>
    LET grant == passport.authorization
        custody == passport.custody
        granted == grant.allowed_files.paths
        binding == passport.committed_binding
        chain == passport.execution.sha256_chain
    IN  /\ shown \in OwnerAnchors
        /\ Signature(shown, GrantMessage(grant)) \in signed
        /\ Signature(shown, ClosureMessage(passport)) \in signed
        /\ \E key \in CustodyAnchors : Signature(key, CustodyMessage(custody)) \in signed
        /\ custody.grant_sha256 = GrantDigest(grant)
        /\ custody.runner_report.os_boundary.rules.paths = granted
        /\ custody.observed_post_worktree_entries.paths = granted
        /\ custody.observed_changed_file_count = Cardinality(granted)
        /\ binding.changed_paths.paths = granted
        /\ binding.parent_sha = grant.head_sha /\ binding.commit_sha # grant.head_sha
        /\ \A f \in granted :
             /\ binding.committed_file_hashes[f] = chain[f].staged_sha256
             /\ chain[f].seed_sha256 # chain[f].staged_sha256

\* A reason that is found by reading what the custody service or the owner signed
\* is reported only when those signatures were made over what was read ("it is
\* safe to read only AFTER that signature has verified", lines 1211-1214; the
\* serialization is judged "after every proof link verifies", lines 1421-1423).
ReadAfterCustody ==
  {"block_custody_publication_contract_malformed", "block_grant_custody_binding_mismatch",
   "block_public_run_passport_contract_malformed", "block_custody_outcome_not_success",
   "block_run_id_binding_mismatch", "block_execution_id_binding_mismatch",
   "block_implementation_head_binding_mismatch", "block_grant_id_binding_mismatch",
   "block_allowed_files_binding_mismatch", "block_new_files_binding_mismatch",
   "block_acceptance_contract_binding_mismatch", "block_observed_paths_binding_mismatch",
   "block_sha256_chain_binding_mismatch", "block_commit_identity_binding_mismatch",
   "block_complete_cargo_changeset_binding_mismatch",
   "block_cargo_commit_equals_execution_head", "block_committed_hash_binding_mismatch"}

ReasonsAreAuthentic ==
  LET grant == passport.authorization
      custody == passport.custody
      refusedWith(reasons) == \E r \in reasons : verdict = <<FALSE, r>>
  IN  /\ refusedWith(ReadAfterCustody) =>
           /\ \E key \in OwnerAnchors : Signature(key, GrantMessage(grant)) \in signed
           /\ \E key \in CustodyAnchors : Signature(key, CustodyMessage(custody)) \in signed
      /\ refusedWith({"block_public_run_passport_noncanonical_serialization"}) =>
           \E p \in closed : Core(passport) = Core(p)

\* The reasons that survey_refusals.py says no edit of published bytes can provoke:
\* "These paths need a differently signed owner grant or custody record"
\* (tools/survey_refusals.py:19-27).  Nobody has signed again, then.
NotReachableByPublishedMutation ==
  {"block_custody_outcome_not_success", "block_grant_id_binding_mismatch",
   "block_public_run_passport_contract_malformed", "block_supervised_agent_capture_failed"}

UnreachableStaysUnreached ==
  NobodySignedAgain =>
    \A r \in NotReachableByPublishedMutation : verdict # <<FALSE, r>>

\* The boundary "is bound to the digest of the grant it was derived from, so a
\* boundary from some other run cannot be presented with this one"
\* (verify_run_passport.py:22-23; also docs/passport-spec-v1.md:58 and the comment at
\* verify_run_passport.py:837-840).
BoundaryOfThisGrant ==
  Passed => passport.custody.runner_report.os_boundary.grant_sha256
              = GrantDigest(passport.authorization)
==============================================================================
