---------------------------- MODULE VerifierProofs ----------------------------
(***************************************************************************)
(* Proofs about both verifiers, for any keys, published passports, edits   *)
(* and signers, on the invariant of PassportProofs.  Of the refusals of    *)
(* PassportVerifier: which link a reason comes from, and that a reason     *)
(* read out of a signed record was read after its signature verified;      *)
(* while nobody signs again, the reasons tools/survey_refusals.py calls    *)
(* unreachable are never given.  Of the second verifier, GoVerifier: what  *)
(* its PASS means, and how its answers compare with those of the first.    *)
(* Of the mutation corpus, RefusalCorpus: that each case made of a sound   *)
(* published passport is refused with the reason it names, by both.        *)
(***************************************************************************)
EXTENDS GoVerifier, PassportProofs, WellFoundedInduction

\* A set of natural numbers has a least one.
LEMMA Least ==
  ASSUME NEW T, T \subseteq Nat, T # {}
  PROVE  \E i \in T : \A j \in T : ~ (j < i)
<1> DEFINE R == {ss \in Nat \X Nat : ss[1] < ss[2]}
<1>1. IsWellFoundedOn(R, Nat)
  BY NatLessThanWellFounded DEF OpToRel
<1>2. PICK i \in T : \A j \in T : <<j, i>> \notin R
  <2> HIDE DEF R
  <2> QED
    BY <1>1, WFMin
<1> QED
  BY <1>2

\* A group that breaks has a first broken link, and gives its reason.
LEMMA FirstBrokenIsALink ==
  ASSUME NEW links, \E S : links \in Seq(S), ~ Unbroken(links)
  PROVE  \E i \in DOMAIN links :
           /\ links[i].broken
           /\ \A j \in 1..(i - 1) : ~ links[j].broken
           /\ FirstBroken(links) = links[i].reason
<1> DEFINE First(i) == links[i].broken /\ \A j \in 1..(i - 1) : ~ links[j].broken
           T == {i \in DOMAIN links : links[i].broken}
<1>1. T \subseteq Nat /\ T # {} /\ DOMAIN links = 1..Len(links) /\ Len(links) \in Nat
  BY DEF Unbroken
<1>2. PICK i \in T : \A j \in T : ~ (j < i)
  <2> HIDE DEF T
  <2> QED
    BY <1>1, Least
<1>3. First(i)
  <2>1. \A j \in 1..(i - 1) : j \in DOMAIN links /\ j < i
    BY <1>1, <1>2
  <2> QED
    BY <1>2, <2>1
<1>4. First(CHOOSE k \in DOMAIN links : First(k))
      /\ (CHOOSE k \in DOMAIN links : First(k)) \in DOMAIN links
  <2> HIDE DEF First
  <2> QED
    BY <1>2, <1>3
<1>5. FirstBroken(links) = links[CHOOSE k \in DOMAIN links : First(k)].reason
  BY DEF FirstBroken
<1> QED
  BY <1>4, <1>5
----------------------------------------------------------------------------
(* The reasons of a group of links. *)

ReasonsIn(links, R) == \A i \in DOMAIN links : links[i].reason \in R

LEMMA ReasonsOfFew ==
  ASSUME NEW R, NEW a, NEW b, NEW c, a.reason \in R, b.reason \in R, c.reason \in R
  PROVE  ReasonsIn(<<a>>, R) /\ ReasonsIn(<<a, b>>, R) /\ ReasonsIn(<<a, b, c>>, R)
<1>1. \A i \in DOMAIN <<a>> : <<a>>[i] = a
  OBVIOUS
<1>2. \A i \in DOMAIN <<a, b>> : <<a, b>>[i] \in {a, b}
  OBVIOUS
<1>3. \A i \in DOMAIN <<a, b, c>> : <<a, b, c>>[i] \in {a, b, c}
  OBVIOUS
<1> QED
  BY <1>1, <1>2, <1>3, Zenon DEF ReasonsIn

LEMMA ReasonsOfMany ==
  ASSUME NEW R, NEW a, NEW b, NEW c, NEW d, NEW e, a.reason \in R, b.reason \in R,
         c.reason \in R, d.reason \in R, e.reason \in R
  PROVE  ReasonsIn(<<a, b, c, d>>, R) /\ ReasonsIn(<<a, b, c, d, e>>, R)
<1>1. \A i \in DOMAIN <<a, b, c, d>> : <<a, b, c, d>>[i] \in {a, b, c, d}
  OBVIOUS
<1>2. \A i \in DOMAIN <<a, b, c, d, e>> : <<a, b, c, d, e>>[i] \in {a, b, c, d, e}
  OBVIOUS
<1> QED
  BY <1>1, <1>2, Zenon DEF ReasonsIn

LEMMA ReasonsOfChains ==
  ASSUME NEW R, NEW first, NEW second, \E S : first \in Seq(S), \E S : second \in Seq(S),
         ReasonsIn(first, R), ReasonsIn(second, R)
  PROVE  ReasonsIn(first \o second, R)
<1>1. PICK S, T : first \in Seq(S) /\ second \in Seq(T)
  OBVIOUS
<1>2. first \in Seq(S \cup T) /\ second \in Seq(S \cup T)
  BY <1>1
<1> SUFFICES ASSUME NEW i \in DOMAIN (first \o second)
             PROVE  (first \o second)[i].reason \in R
  BY DEF ReasonsIn
<1>3. CASE i \in DOMAIN first
  <2>1. (first \o second)[i] = first[i]
    BY <1>2, <1>3
  <2> QED
    BY <1>3, <2>1 DEF ReasonsIn
<1>4. CASE i \notin DOMAIN first
  <2>1. i - Len(first) \in DOMAIN second
        /\ (first \o second)[i] = second[i - Len(first)]
    BY <1>2, <1>4
  <2> QED
    BY <2>1 DEF ReasonsIn
<1> QED
  BY <1>3, <1>4

LEMMA ReasonsOfSignatures ==
  ASSUME NEW R, NEW signature, NEW anchors, NEW message,
         NEW wrongKey \in R, NEW malformed \in R, NEW invalid \in R
  PROVE  ReasonsIn(SignatureLinks(signature, anchors, message, wrongKey, malformed, invalid), R)
<1> DEFINE a == Link(signature.signing_key_id \notin anchors, wrongKey)
           b == Link(signature.signature_hex = Garbled, malformed)
           c == Link(signature.signature_hex # Signature(signature.signing_key_id, message),
                     invalid)
<1>1. SignatureLinks(signature, anchors, message, wrongKey, malformed, invalid) = <<a, b, c>>
  BY DEF SignatureLinks
<1>2. a.reason \in R /\ b.reason \in R /\ c.reason \in R
  BY DEF Link
<1> HIDE DEF a, b, c
<1> QED
  BY <1>1, <1>2, ReasonsOfFew

\* The reason a group gives is one of its links'.
LEMMA GivenReason ==
  ASSUME NEW R, NEW links, \E S : links \in Seq(S), ReasonsIn(links, R), ~ Unbroken(links)
  PROVE  FirstBroken(links) \in R
BY FirstBrokenIsALink DEF ReasonsIn
----------------------------------------------------------------------------
(* The groups of the verifier. *)

EarlyReasons ==
  {"passport_unreadable", "block_run_passport_duplicate_key",
   "block_run_passport_unparseable", "block_run_passport_trailing_content",
   "block_run_passport_not_object", "block_run_passport_unknown_field",
   "block_run_passport_missing_field", "block_run_passport_schema_unsupported",
   "block_run_passport_malformed_section", "block_owner_authorization_malformed",
   "block_owner_authorization_wrong_key", "block_owner_authorization_signature_invalid",
   "block_custody_record_schema_unsupported", "block_custody_record_malformed",
   "block_custody_record_wrong_key", "block_custody_record_signature_invalid"}

ClosingReasons ==
  {"block_owner_closure_signature_missing", "block_owner_closure_unknown_field",
   "block_owner_closure_signature_malformed", "block_owner_closure_signature_wrong_key",
   "block_owner_closure_signature_invalid"}

Noncanonical == "block_public_run_passport_noncanonical_serialization"

\* What is read before a signature of the record verified gives an early reason.
LEMMA EarlyGroups ==
  ASSUME NEW p, NEW links \in {ParseLinks(p), EnvelopeLinks(p), GrantLinks(p), CustodyLinks(p)}
  PROVE  (\E S : links \in Seq(S)) /\ ReasonsIn(links, EarlyReasons)
<1>1. CASE links = ParseLinks(p)
  <2> DEFINE a == Link(p.text = "unreadable", "passport_unreadable")
             b == Link(p.text = "duplicate_key", "block_run_passport_duplicate_key")
             c == Link(p.text = "unparseable", "block_run_passport_unparseable")
             d == Link(p.text = "trailing_content", "block_run_passport_trailing_content")
             e == Link(p.text = "not_object", "block_run_passport_not_object")
  <2>1. links = <<a, b, c, d, e>>
    BY <1>1 DEF ParseLinks
  <2>2. {a.reason, b.reason, c.reason, d.reason, e.reason} \subseteq EarlyReasons
    BY DEF Link, EarlyReasons
  <2> HIDE DEF a, b, c, d, e
  <2>3. <<a, b, c, d, e>> \in Seq({a, b, c, d, e})
    OBVIOUS
  <2> QED
    BY <2>1, <2>2, <2>3, ReasonsOfMany
<1>2. CASE links = EnvelopeLinks(p)
  <2> DEFINE a == Link(p.unknown_field, "block_run_passport_unknown_field")
             b == Link(p.missing_field, "block_run_passport_missing_field")
             c == Link(p.schema_version # "deedseal-run-passport/1.0",
                       "block_run_passport_schema_unsupported")
             d == Link(~ p.sections_closed, "block_run_passport_malformed_section")
  <2>1. links = <<a, b, c, d>>
    BY <1>2 DEF EnvelopeLinks
  <2>2. {a.reason, b.reason, c.reason, d.reason} \subseteq EarlyReasons
    BY DEF Link, EarlyReasons
  <2> HIDE DEF a, b, c, d
  <2>3. <<a, b, c, d>> \in Seq({a, b, c, d})
    OBVIOUS
  <2> QED
    BY <2>1, <2>2, <2>3, ReasonsOfMany
<1>3. CASE links = GrantLinks(p)
  <2> DEFINE form == Link(\/ p.authorization.owner_signature.shape = "absent"
                          \/ p.authorization.owner_signature.signature_version
                               \notin {"v0.5", "v0.6"}
                          \/ ~ GrantFit(p.authorization),
                          "block_owner_authorization_malformed")
             rest == SignatureLinks(p.authorization.owner_signature, OwnerAnchors,
                       GrantMessage(p.authorization), "block_owner_authorization_wrong_key",
                       "block_owner_authorization_malformed",
                       "block_owner_authorization_signature_invalid")
  <2>1. links = <<form>> \o rest
    BY <1>3 DEF GrantLinks
  <2>2. form.reason \in EarlyReasons
    BY DEF Link, EarlyReasons
  <2>3. ReasonsIn(rest, EarlyReasons) /\ \E S : rest \in Seq(S)
    BY ReasonsOfSignatures, SignatureLinksAreASequence DEF EarlyReasons
  <2> HIDE DEF form, rest
  <2> QED
    BY <2>1, <2>2, <2>3, ReasonsOfFew, ReasonsOfChains, LinksAreASequence, ChainsAreASequence
<1>4. CASE links = CustodyLinks(p)
  <2> DEFINE schema == Link(p.custody.record_schema # "deedseal-supervised-run-custody/1.0",
                            "block_custody_record_schema_unsupported")
             shape == Link(\/ ~ p.custody.closed
                           \/ p.custody.signature.shape # "closed"
                           \/ p.custody.signature.signature_version # "custody/0.1",
                           "block_custody_record_malformed")
             rest == SignatureLinks(p.custody.signature, CustodyAnchors,
                       CustodyMessage(p.custody), "block_custody_record_wrong_key",
                       "block_custody_record_malformed",
                       "block_custody_record_signature_invalid")
  <2>1. links = <<schema, shape>> \o rest
    BY <1>4 DEF CustodyLinks
  <2>2. schema.reason \in EarlyReasons /\ shape.reason \in EarlyReasons
    BY DEF Link, EarlyReasons
  <2>3. ReasonsIn(rest, EarlyReasons) /\ \E S : rest \in Seq(S)
    BY ReasonsOfSignatures, SignatureLinksAreASequence DEF EarlyReasons
  <2> HIDE DEF schema, shape, rest
  <2> QED
    BY <2>1, <2>2, <2>3, ReasonsOfFew, ReasonsOfChains, LinksAreASequence, ChainsAreASequence
<1> QED
  BY <1>1, <1>2, <1>3, <1>4

\* What is read out of the signed records gives a reason that says so.  The last two
\* links of the contract and the first and last of the binding are named, for what
\* is said of them below.
LEMMA ContractGroup ==
  ASSUME NEW p
  PROVE  LET links == ContractLinks(p)
             grant == p.authorization
             custody == p.custody
             public == custody.publication_class = "public-full-record"
         IN  /\ \E S : links \in Seq(S)
             /\ DOMAIN links = 1..5
             /\ ReasonsIn(links, ReadAfterCustody)
             /\ links[1].reason = "block_custody_publication_contract_malformed"
             /\ links[2].reason = "block_grant_custody_binding_mismatch"
             /\ links[3].reason = "block_custody_publication_contract_malformed"
             /\ ~ links[4].broken <=> /\ grant.owner_signature.signature_version = "v0.6"
                                      /\ grant.publication_class = "public-full-record"
                                      /\ public
             /\ ~ links[5].broken <=> custody.record_status = "OUTCOME_SUCCESS"
<1> DEFINE grant == p.authorization
           custody == p.custody
           v06 == grant.owner_signature.signature_version = "v0.6"
           public == custody.publication_class = "public-full-record"
           a == Link(~ PublicationContractHolds(custody),
                     "block_custody_publication_contract_malformed")
           b == Link(~ v06 \/ custody.publication_class # grant.publication_class,
                     "block_grant_custody_binding_mismatch")
           c == Link(public /\ \/ grant.allowed_scope # custody.target
                               \/ grant.operation_class # "agent_subprocess"
                               \/ p.roadmap_step # custody.roadmap_step,
                     "block_custody_publication_contract_malformed")
           d == Link(~ (v06 /\ grant.publication_class = "public-full-record" /\ public),
                     "block_public_run_passport_contract_malformed")
           e == Link(custody.record_status # "OUTCOME_SUCCESS",
                     "block_custody_outcome_not_success")
<1>1. ContractLinks(p) = <<a, b, c, d, e>>
  BY DEF ContractLinks
<1>2. {a.reason, b.reason, c.reason, d.reason, e.reason} \subseteq ReadAfterCustody
      /\ a.reason = "block_custody_publication_contract_malformed"
      /\ b.reason = "block_grant_custody_binding_mismatch"
      /\ c.reason = "block_custody_publication_contract_malformed"
  BY DEF Link, ReadAfterCustody
<1>4. /\ ~ d.broken <=> v06 /\ grant.publication_class = "public-full-record" /\ public
      /\ ~ e.broken <=> custody.record_status = "OUTCOME_SUCCESS"
  BY DEF Link
<1>3. /\ \E S : ContractLinks(p) \in Seq(S)
      /\ DOMAIN ContractLinks(p) = 1..5
      /\ ReasonsIn(ContractLinks(p), ReadAfterCustody)
      /\ ContractLinks(p)[1] = a /\ ContractLinks(p)[2] = b /\ ContractLinks(p)[3] = c
      /\ ContractLinks(p)[4] = d /\ ContractLinks(p)[5] = e
  <2> DEFINE links == <<a, b, c, d, e>>
  <2> HIDE DEF a, b, c, d, e
  <2>1. links \in Seq({a, b, c, d, e}) /\ DOMAIN links = 1..5
    OBVIOUS
  <2>2. /\ links[1] = a /\ links[2] = b /\ links[3] = c /\ links[4] = d /\ links[5] = e
    OBVIOUS
  <2>3. ReasonsIn(links, ReadAfterCustody)
    BY <1>2, ReasonsOfMany
  <2>4. ContractLinks(p) = links
    BY <1>1
  <2> HIDE DEF links
  <2> QED
    BY <2>1, <2>2, <2>3, <2>4
<1> HIDE DEF a, b, c, d, e
<1> QED
  BY <1>2, <1>3, <1>4

LEMMA BindingGroup ==
  ASSUME NEW p
  PROVE  LET links == BindingLinks(p)
         IN  /\ \E S : links \in Seq(S)
             /\ DOMAIN links = 1..5
             /\ ReasonsIn(links, ReadAfterCustody)
             /\ \A i \in 1..4 : links[i].reason \notin NotReachableByPublishedMutation
             /\ ~ links[1].broken <=> p.custody.grant_sha256 = GrantDigest(p.authorization)
             /\ ~ links[5].broken <=> p.authorization.grant_id = p.custody.grant_id
<1> DEFINE grant == p.authorization
           custody == p.custody
           head == p.implementation_head_sha
           a == Link(custody.grant_sha256 # GrantDigest(grant),
                     "block_grant_custody_binding_mismatch")
           b == Link(p.run_id # grant.run_id \/ grant.run_id # custody.run_id,
                     "block_run_id_binding_mismatch")
           c == Link(p.execution_id # custody.execution_id,
                     "block_execution_id_binding_mismatch")
           d == Link(\/ head # grant.head_sha
                     \/ grant.head_sha # custody.head_sha
                     \/ custody.head_sha # custody.observed_post_head_sha
                     \/ head \notin Commits,
                     "block_implementation_head_binding_mismatch")
           e == Link(grant.grant_id # custody.grant_id, "block_grant_id_binding_mismatch")
<1>1. BindingLinks(p) = <<a, b, c, d, e>>
  BY DEF BindingLinks
<1>2. {a.reason, b.reason, c.reason, d.reason, e.reason} \subseteq ReadAfterCustody
      /\ {a.reason, b.reason, c.reason, d.reason} \cap NotReachableByPublishedMutation = {}
  BY DEF Link, ReadAfterCustody, NotReachableByPublishedMutation
<1>3. /\ ~ a.broken <=> custody.grant_sha256 = GrantDigest(grant)
      /\ ~ e.broken <=> grant.grant_id = custody.grant_id
  BY DEF Link
<1> DEFINE links == <<a, b, c, d, e>>
<1> HIDE DEF a, b, c, d, e
<1>4. links \in Seq({a, b, c, d, e}) /\ DOMAIN links = 1..5
  OBVIOUS
<1>5. links[1] = a /\ links[5] = e /\ \A i \in 1..4 : links[i] \in {a, b, c, d}
  OBVIOUS
<1>6. ReasonsIn(links, ReadAfterCustody)
  BY <1>2, ReasonsOfMany
<1>7. BindingLinks(p) = links
  BY <1>1
<1> HIDE DEF links
<1>8. \A i \in 1..4 : links[i].reason \notin NotReachableByPublishedMutation
  BY <1>2, <1>5
<1> QED
  BY <1>3, <1>4, <1>5, <1>6, <1>7, <1>8

\* The other groups that read the signed records.
LEMMA LaterGroups ==
  ASSUME NEW p, NEW links \in {ScopeLinks(p), ObservationLinks(p), CommitLinks(p)}
  PROVE  /\ \E S : links \in Seq(S)
         /\ ReasonsIn(links, ReadAfterCustody \ NotReachableByPublishedMutation)
<1> DEFINE R == ReadAfterCustody \ NotReachableByPublishedMutation
<1>r. {"block_allowed_files_binding_mismatch", "block_new_files_binding_mismatch",
       "block_acceptance_contract_binding_mismatch", "block_observed_paths_binding_mismatch",
       "block_sha256_chain_binding_mismatch", "block_commit_identity_binding_mismatch",
       "block_complete_cargo_changeset_binding_mismatch",
       "block_cargo_commit_equals_execution_head", "block_committed_hash_binding_mismatch"}
        \subseteq R
  BY DEF ReadAfterCustody, NotReachableByPublishedMutation
<1>l. \A broken, reason : Link(broken, reason).reason = reason
  BY DEF Link
<1> HIDE DEF R
<1>1. CASE links = ScopeLinks(p)
  <2>1. PICK a, b, c : /\ links = << Link(a, "block_allowed_files_binding_mismatch"),
                                     Link(b, "block_new_files_binding_mismatch"),
                                     Link(c, "block_acceptance_contract_binding_mismatch") >>
    BY <1>1 DEF ScopeLinks
  <2> DEFINE x == Link(a, "block_allowed_files_binding_mismatch")
             y == Link(b, "block_new_files_binding_mismatch")
             z == Link(c, "block_acceptance_contract_binding_mismatch")
  <2>2. x.reason \in R /\ y.reason \in R /\ z.reason \in R
    BY <1>r, <1>l
  <2>3. links = <<x, y, z>>
    BY <2>1
  <2> HIDE DEF x, y, z
  <2> QED
    BY <2>2, <2>3, ReasonsOfFew, LinksAreASequence DEF R
<1>2. CASE links = ObservationLinks(p)
  <2>1. PICK a, b : links = << Link(a, "block_observed_paths_binding_mismatch"),
                               Link(b, "block_sha256_chain_binding_mismatch") >>
    BY <1>2 DEF ObservationLinks
  <2> DEFINE x == Link(a, "block_observed_paths_binding_mismatch")
             y == Link(b, "block_sha256_chain_binding_mismatch")
  <2>2. x.reason \in R /\ y.reason \in R
    BY <1>r, <1>l
  <2>3. links = <<x, y>>
    BY <2>1
  <2> HIDE DEF x, y
  <2> QED
    BY <2>2, <2>3, ReasonsOfFew, LinksAreASequence DEF R
<1>3. CASE links = CommitLinks(p)
  <2>1. PICK a, b, c, d, e :
          links = << Link(a, "block_commit_identity_binding_mismatch"),
                     Link(b, "block_complete_cargo_changeset_binding_mismatch"),
                     Link(c, "block_cargo_commit_equals_execution_head"),
                     Link(d, "block_complete_cargo_changeset_binding_mismatch"),
                     Link(e, "block_committed_hash_binding_mismatch") >>
    BY <1>3, ZenonT(40) DEF CommitLinks
  <2> DEFINE v == Link(a, "block_commit_identity_binding_mismatch")
             w == Link(b, "block_complete_cargo_changeset_binding_mismatch")
             x == Link(c, "block_cargo_commit_equals_execution_head")
             y == Link(d, "block_complete_cargo_changeset_binding_mismatch")
             z == Link(e, "block_committed_hash_binding_mismatch")
  <2>2. v.reason \in R /\ w.reason \in R /\ x.reason \in R /\ y.reason \in R /\ z.reason \in R
    BY <1>r, <1>l
  <2>3. links = <<v, w, x, y, z>>
    BY <2>1
  <2> HIDE DEF v, w, x, y, z
  <2>4. <<v, w, x, y, z>> \in Seq({v, w, x, y, z})
    OBVIOUS
  <2> QED
    BY <2>2, <2>3, <2>4, ReasonsOfMany DEF R
<1> QED
  BY <1>1, <1>2, <1>3

LEMMA ClosureGroup ==
  ASSUME NEW p
  PROVE  (\E S : ClosureLinks(p) \in Seq(S)) /\ ReasonsIn(ClosureLinks(p), ClosingReasons)
<1> DEFINE present == Link(p.closure.signature.shape = "absent",
                           "block_owner_closure_signature_missing")
           known == Link(~ p.closure.closed, "block_owner_closure_unknown_field")
           shape == Link(\/ p.closure.signature.shape # "closed"
                         \/ p.closure.closure_version # "closure/0.1"
                         \/ p.closure.signature.signature_version # "closure/0.1",
                         "block_owner_closure_signature_malformed")
           middle == SignatureLinks(p.closure.signature, OwnerAnchors, ClosureMessage(p),
                       "block_owner_closure_signature_wrong_key",
                       "block_owner_closure_signature_malformed",
                       "block_owner_closure_signature_invalid")
           same == Link(p.closure.signature.signing_key_id
                          # p.authorization.owner_signature.signing_key_id,
                        "block_owner_closure_signature_wrong_key")
<1>1. ClosureLinks(p) = (<<present, known, shape>> \o middle) \o <<same>>
  BY DEF ClosureLinks
<1>2. {present.reason, known.reason, shape.reason, same.reason} \subseteq ClosingReasons
  BY DEF Link, ClosingReasons
<1>3. ReasonsIn(middle, ClosingReasons) /\ \E S : middle \in Seq(S)
  BY ReasonsOfSignatures, SignatureLinksAreASequence DEF ClosingReasons
<1> DEFINE first == <<present, known, shape>>
<1> HIDE DEF present, known, shape, middle, same
<1>4. /\ \E S : first \in Seq(S)
      /\ \E S : <<same>> \in Seq(S)
      /\ ReasonsIn(first, ClosingReasons) /\ ReasonsIn(<<same>>, ClosingReasons)
  BY <1>2, ReasonsOfFew, LinksAreASequence
<1>5. ClosureLinks(p) = (first \o middle) \o <<same>>
  BY <1>1
<1> HIDE DEF first
<1>6. (\E S : first \o middle \in Seq(S)) /\ ReasonsIn(first \o middle, ClosingReasons)
  BY <1>3, <1>4, ReasonsOfChains, ChainsAreASequence
<1> DEFINE before == first \o middle
<1>7. ClosureLinks(p) = before \o <<same>>
  BY <1>5
<1>8. (\E S : before \in Seq(S)) /\ ReasonsIn(before, ClosingReasons)
  BY <1>6
<1> HIDE DEF before
<1>9. ReasonsIn(before \o <<same>>, ClosingReasons)
  BY <1>4, <1>8, ReasonsOfChains
<1>10. \E S : before \o <<same>> \in Seq(S)
  BY <1>4, <1>8, ChainsAreASequence
<1> QED
  BY <1>7, <1>9, <1>10

LEMMA WireGroup ==
  ASSUME NEW p, ~ Unbroken(WireLinks(p))
  PROVE  FirstBroken(WireLinks(p)) = Noncanonical
<1> DEFINE x == Link(p.text # "canonical", Noncanonical)
<1>1. WireLinks(p) = <<x>> /\ x.reason \in {Noncanonical}
  BY DEF WireLinks, Link, Noncanonical
<1> HIDE DEF x
<1> DEFINE R == {Noncanonical}
           links == <<x>>
<1>2. x.reason \in R
  BY <1>1
<1> HIDE DEF R
<1>3. ReasonsIn(links, R) /\ \E S : links \in Seq(S)
  BY <1>2, ReasonsOfFew, LinksAreASequence
<1>4. WireLinks(p) = links
  BY <1>1
<1> HIDE DEF links
<1>5. FirstBroken(WireLinks(p)) \in R
  BY <1>3, <1>4, GivenReason
<1> QED
  BY <1>5 DEF R
----------------------------------------------------------------------------
(* Which link a reason comes from. *)

MiddleGroups(p) == {ContractLinks(p), BindingLinks(p), ScopeLinks(p), ObservationLinks(p),
                    CommitLinks(p)}

\* A refusal of p, and what had verified before it.
Refused(p, r) ==
  \/ r \in EarlyReasons \cup ClosingReasons
  \/ /\ Unbroken(GrantLinks(p)) /\ Unbroken(CustodyLinks(p))
     /\ \E links \in MiddleGroups(p) : ~ Unbroken(links) /\ r = FirstBroken(links)
  \/ Unbroken(ClosureLinks(p)) /\ r = Noncanonical

RefusalsOK == \A r : verdict = <<FALSE, r>> => Refused(passport, r)

LEMMA RefusalIsNoAnswer ==
  /\ \A r : NoAnswer # <<FALSE, r>> /\ <<TRUE, Null>> # <<FALSE, r>>
  /\ \A r, s : <<FALSE, r>> = <<FALSE, s>> => r = s
<1>1. \A r : Len(<<>>) = 0 /\ Len(<<FALSE, r>>) = 2
  OBVIOUS
<1>2. \A r : <<FALSE, r>>[1] = FALSE /\ <<FALSE, r>>[2] = r
  OBVIOUS
<1>3. <<TRUE, Null>>[1] = TRUE
  OBVIOUS
<1> QED
  BY <1>1, <1>2, <1>3 DEF NoAnswer

LEMMA CheckRefuses ==
  ASSUME NEW stage, NEW links, NEW next, stage # "done", IInv, Check(stage, links, next),
         ~ Unbroken(links) => Refused(passport, FirstBroken(links))
  PROVE  RefusalsOK'
<1>1. at = stage /\ passport' = passport /\ verdict = NoAnswer
  BY DEF Check, IInv, AnswersOK
<1>2. \/ verdict' = NoAnswer
      \/ ~ Unbroken(links) /\ verdict' = <<FALSE, FirstBroken(links)>>
  BY <1>1 DEF Check
<1> SUFFICES ASSUME NEW r, verdict' = <<FALSE, r>> PROVE Refused(passport, r)
  BY <1>1 DEF RefusalsOK
<1>3. ~ Unbroken(links) /\ r = FirstBroken(links)
  BY <1>2, RefusalIsNoAnswer
<1> QED
  BY <1>3

LEMMA MiddleReasons ==
  ASSUME NEW p, NEW links \in MiddleGroups(p), ~ Unbroken(links)
  PROVE  FirstBroken(links) \in ReadAfterCustody
<1>1. (\E S : links \in Seq(S)) /\ ReasonsIn(links, ReadAfterCustody)
  BY ContractGroup, BindingGroup, LaterGroups, ZenonT(40) DEF MiddleGroups, ReasonsIn
<1> QED
  BY <1>1, GivenReason

\* Every step of the verifier that refuses gives such a reason.
LEMMA VerifyRefuses ==
  ASSUME IInv, Verify
  PROVE  RefusalsOK'
<1>1. CASE CheckParse
  <2>1. ~ Unbroken(ParseLinks(passport)) => FirstBroken(ParseLinks(passport)) \in EarlyReasons
    BY EarlyGroups, GivenReason
  <2> QED
    BY <1>1, <2>1, CheckRefuses DEF CheckParse, Refused
<1>2. CASE CheckEnvelope
  <2>1. ~ Unbroken(EnvelopeLinks(passport))
          => FirstBroken(EnvelopeLinks(passport)) \in EarlyReasons
    BY EarlyGroups, GivenReason
  <2> QED
    BY <1>2, <2>1, CheckRefuses DEF CheckEnvelope, Refused
<1>3. CASE CheckGrant
  <2>1. ~ Unbroken(GrantLinks(passport)) => FirstBroken(GrantLinks(passport)) \in EarlyReasons
    BY EarlyGroups, GivenReason
  <2> QED
    BY <1>3, <2>1, CheckRefuses DEF CheckGrant, Refused
<1>4. CASE CheckCustody
  <2>1. ~ Unbroken(CustodyLinks(passport))
          => FirstBroken(CustodyLinks(passport)) \in EarlyReasons
    BY EarlyGroups, GivenReason
  <2> QED
    BY <1>4, <2>1, CheckRefuses DEF CheckCustody, Refused
<1>5. CASE CheckContract \/ CheckBinding \/ CheckScope \/ CheckObservation \/ CheckCommit
  <2>1. at \in {"contract", "binding", "scope", "observation", "commit"}
    BY <1>5 DEF CheckContract, CheckBinding, CheckScope, CheckObservation, CheckCommit, Check
  <2>2. Unbroken(GrantLinks(passport)) /\ Unbroken(CustodyLinks(passport))
    BY <2>1, RankOfStages DEF IInv, ChecksOK, Verified
  <2>3. \A links \in MiddleGroups(passport) :
          ~ Unbroken(links) => Refused(passport, FirstBroken(links))
    BY <2>2 DEF Refused
  <2> QED
    BY <1>5, <2>3, CheckRefuses
    DEF CheckContract, CheckBinding, CheckScope, CheckObservation, CheckCommit, MiddleGroups
<1>6. CASE CheckClosure
  <2>1. ~ Unbroken(ClosureLinks(passport))
          => FirstBroken(ClosureLinks(passport)) \in ClosingReasons
    BY ClosureGroup, GivenReason
  <2> QED
    BY <1>6, <2>1, CheckRefuses DEF CheckClosure, Refused
<1>7. CASE CheckWire
  <2>1. Unbroken(ClosureLinks(passport))
    BY <1>7, RankOfStages DEF CheckWire, Check, IInv, ChecksOK, Verified
  <2> QED
    BY <1>7, <2>1, WireGroup, CheckRefuses DEF CheckWire, Refused
<1>8. CASE Pass
  BY <1>8, RefusalIsNoAnswer DEF Pass, RefusalsOK
<1> QED
  BY <1>1, <1>2, <1>3, <1>4, <1>5, <1>6, <1>7, <1>8 DEF Verify

LEMMA RefusalsKept == Spec => [](IInv /\ RefusalsOK)
<1>1. Init => RefusalsOK
  BY RefusalIsNoAnswer DEF Init, RefusalsOK
<1>2. IInv /\ RefusalsOK /\ [Next]_vars => RefusalsOK'
  <2> SUFFICES ASSUME IInv, RefusalsOK, [Next]_vars PROVE RefusalsOK'
    OBVIOUS
  <2>1. CASE Edit \/ SignGrant \/ SignCustody \/ Close \/ Start \/ Again
    <3>1. at = "idle" => verdict = NoAnswer
      BY DEF IInv, AnswersOK
    <3>2. verdict' = NoAnswer
      BY <2>1, <3>1 DEF Edit, SignGrant, SignCustody, Close, Start, Again
    <3> QED
      BY <3>2, RefusalIsNoAnswer DEF RefusalsOK
  <2>2. CASE UNCHANGED vars
    BY <2>2 DEF vars, RefusalsOK
  <2> QED
    BY <2>1, <2>2, VerifyRefuses DEF Next
<1> QED
  BY <1>1, <1>2, InitIInv, NextKeeps, PTL DEF Spec

\* A reason read out of the custody record, or out of the grant beside it, is given
\* only after both of their signatures verified, and the spelling is judged only
\* when the closure verified (verify_run_passport.py:1211-1214 and 1421-1423).
THEOREM AuthenticReasons == Spec => []ReasonsAreAuthentic
<1>1. IInv /\ RefusalsOK => ReasonsAreAuthentic
  <2> SUFFICES ASSUME IInv, RefusalsOK PROVE ReasonsAreAuthentic
    OBVIOUS
  <2> DEFINE grant == passport.authorization
             custody == passport.custody
             hexes == Hexes(passport)
  <2>1. ASSUME NEW r \in ReadAfterCustody, verdict = <<FALSE, r>>
        PROVE  /\ \E key \in OwnerAnchors : Signature(key, GrantMessage(grant)) \in signed
               /\ \E key \in CustodyAnchors : Signature(key, CustodyMessage(custody)) \in signed
    <3>1. Refused(passport, r)
      BY <2>1 DEF RefusalsOK
    <3>2. r \notin EarlyReasons \cup ClosingReasons /\ r # Noncanonical
      BY DEF ReadAfterCustody, EarlyReasons, ClosingReasons, Noncanonical
    <3>3. Unbroken(GrantLinks(passport)) /\ Unbroken(CustodyLinks(passport))
      BY <3>1, <3>2 DEF Refused
    <3> DEFINE gSig == grant.owner_signature
               cSig == custody.signature
    <3>4. /\ gSig.signing_key_id \in OwnerAnchors /\ gSig.signature_hex # Garbled
          /\ gSig.signature_hex = Signature(gSig.signing_key_id, GrantMessage(grant))
      BY <3>3, GrantVerified
    <3>5. /\ cSig.signing_key_id \in CustodyAnchors /\ cSig.signature_hex # Garbled
          /\ cSig.signature_hex = Signature(cSig.signing_key_id, CustodyMessage(custody))
      BY <3>3, CustodyVerified
    <3>6. gSig.signature_hex \in Hexes(passport) /\ cSig.signature_hex \in Hexes(passport)
      BY DEF Hexes
    <3> HIDE DEF gSig, cSig, grant, custody
    <3>7. gSig.signature_hex \in signed
      BY <3>4, <3>6, VerifiedWasMade
    <3>8. cSig.signature_hex \in signed
      BY <3>5, <3>6, VerifiedWasMade
    <3> QED
      BY <3>4, <3>5, <3>7, <3>8
  <2>2. ASSUME verdict = <<FALSE, Noncanonical>>
        PROVE  \E p \in closed : Core(passport) = Core(p)
    <3>1. Refused(passport, Noncanonical)
      BY <2>2 DEF RefusalsOK
    <3>2. Noncanonical \notin EarlyReasons \cup ClosingReasons \cup ReadAfterCustody
      BY DEF ReadAfterCustody, EarlyReasons, ClosingReasons, Noncanonical
    <3>3. Unbroken(ClosureLinks(passport))
      BY <3>1, <3>2, MiddleReasons DEF Refused
    <3> DEFINE hex == passport.closure.signature.signature_hex
               key == passport.closure.signature.signing_key_id
    <3>4. /\ key \in OwnerAnchors /\ hex # Garbled
          /\ hex = Signature(key, ClosureMessage(passport))
      BY <3>3, ClosureVerified
    <3>5. hex \in Hexes(passport)
      BY DEF Hexes
    <3> HIDE DEF hex, key
    <3>6. hex \in signed
      BY <3>4, <3>5, VerifiedWasMade
    <3>7. hex.over = ClosureMessage(passport)
      BY <3>4 DEF Signature
    <3>8. hex.over.kind = "closure" /\ hex.over.passport_core = Core(passport)
      BY <3>7 DEF ClosureMessage
    <3> QED
      BY <3>6, <3>8 DEF IInv, ClosuresOK
  <2> QED
    BY <2>1, <2>2 DEF ReasonsAreAuthentic, Noncanonical
<1> QED
  BY RefusalsKept, <1>1, PTL
----------------------------------------------------------------------------
(* While nobody signs again. *)

\* What was published verifies, and its custody record has the members that the
\* contract and the bindings read.
PublishedVerify ==
  \A q \in Published :
    /\ {"publication_class", "record_status", "grant_id"} \subseteq DOMAIN q.custody
    /\ Unbroken(ContractLinks(q)) /\ Unbroken(BindingLinks(q))

NothingSigned == signed = UNION {Hexes(q) : q \in Published}

\* What a published passport says of itself.
LEMMA PublishedSays ==
  ASSUME PublishedVerify, NEW q \in Published
  PROVE  /\ q.authorization.owner_signature.signature_version = "v0.6"
         /\ q.authorization.publication_class = "public-full-record"
         /\ q.custody.publication_class = "public-full-record"
         /\ q.custody.record_status = "OUTCOME_SUCCESS"
         /\ q.custody.grant_sha256 = q.authorization
         /\ q.authorization.grant_id = q.custody.grant_id
<1>1. Unbroken(ContractLinks(q)) /\ Unbroken(BindingLinks(q))
  BY DEF PublishedVerify
<1>2. ~ ContractLinks(q)[4].broken /\ ~ ContractLinks(q)[5].broken
  BY <1>1, ContractGroup DEF Unbroken
<1>3. ~ BindingLinks(q)[1].broken /\ ~ BindingLinks(q)[5].broken
  BY <1>1, BindingGroup DEF Unbroken
<1>4. /\ q.authorization.owner_signature.signature_version = "v0.6"
      /\ q.authorization.publication_class = "public-full-record"
      /\ q.custody.publication_class = "public-full-record"
      /\ q.custody.record_status = "OUTCOME_SUCCESS"
  BY <1>2, ContractGroup
<1>5. q.custody.grant_sha256 = q.authorization /\ q.authorization.grant_id = q.custody.grant_id
  BY <1>3, BindingGroup DEF GrantDigest
<1> QED
  BY <1>4, <1>5

\* A grant that verifies says what a published one says.
LEMMA GrantIsPublished ==
  ASSUME NothingSigned, NEW s \in signed, NEW key, NEW grant,
         s = Signature(key, GrantMessage(grant))
  PROVE  \E q \in Published : GrantMessage(grant) = GrantMessage(q.authorization)
<1>1. PICK q \in Published : s \in Hexes(q)
  BY DEF NothingSigned
<1> DEFINE gSig == q.authorization.owner_signature
           cSig == q.custody.signature
           hex == q.closure.signature
<1>2. /\ gSig.signature_hex = Signature(gSig.signing_key_id, GrantMessage(q.authorization))
      /\ cSig.signature_hex = Signature(cSig.signing_key_id, CustodyMessage(q.custody))
      /\ hex.signature_hex = Signature(hex.signing_key_id, ClosureMessage(q))
  BY PassportAssumption DEF PublishedAssumption
<1>3. s \in {gSig.signature_hex, cSig.signature_hex, hex.signature_hex}
  BY <1>1 DEF Hexes
<1>4. GrantMessage(grant).kind = "grant" /\ CustodyMessage(q.custody).kind = "custody"
      /\ ClosureMessage(q).kind = "closure"
  BY DEF GrantMessage, CustodyMessage, ClosureMessage
<1> HIDE DEF gSig, cSig, hex
<1>5. s.over = GrantMessage(grant)
  BY DEF Signature
<1>6. s.over \in {GrantMessage(q.authorization), CustodyMessage(q.custody), ClosureMessage(q)}
  BY <1>2, <1>3 DEF Signature
<1> QED
  BY <1>4, <1>5, <1>6

LEMMA CustodyIsPublished ==
  ASSUME NothingSigned, NEW s \in signed, NEW key, NEW custody,
         s = Signature(key, CustodyMessage(custody))
  PROVE  \E q \in Published : CustodyMessage(custody) = CustodyMessage(q.custody)
<1>1. PICK q \in Published : s \in Hexes(q)
  BY DEF NothingSigned
<1> DEFINE gSig == q.authorization.owner_signature
           cSig == q.custody.signature
           hex == q.closure.signature
<1>2. /\ gSig.signature_hex = Signature(gSig.signing_key_id, GrantMessage(q.authorization))
      /\ cSig.signature_hex = Signature(cSig.signing_key_id, CustodyMessage(q.custody))
      /\ hex.signature_hex = Signature(hex.signing_key_id, ClosureMessage(q))
  BY PassportAssumption DEF PublishedAssumption
<1>3. s \in {gSig.signature_hex, cSig.signature_hex, hex.signature_hex}
  BY <1>1 DEF Hexes
<1>4. CustodyMessage(custody).kind = "custody" /\ GrantMessage(q.authorization).kind = "grant"
      /\ ClosureMessage(q).kind = "closure"
  BY DEF GrantMessage, CustodyMessage, ClosureMessage
<1> HIDE DEF gSig, cSig, hex
<1>5. s.over = CustodyMessage(custody)
  BY DEF Signature
<1>6. s.over \in {GrantMessage(q.authorization), CustodyMessage(q.custody), ClosureMessage(q)}
  BY <1>2, <1>3 DEF Signature
<1> QED
  BY <1>4, <1>5, <1>6

\* The members of a published custody record are those of the record that verifies.
LEMMA PublishedRecord ==
  ASSUME PublishedVerify, NEW q \in Published, NEW custody,
         CustodyMessage(custody) = CustodyMessage(q.custody)
  PROVE  /\ custody.publication_class = q.custody.publication_class
         /\ custody.record_status = q.custody.record_status
         /\ custody.grant_id = q.custody.grant_id
         /\ custody.grant_sha256 = q.custody.grant_sha256
<1> DEFINE Record(c) == [f \in DOMAIN c \ {"signature"} |-> c[f]]
           members == {"publication_class", "record_status", "grant_id", "grant_sha256"}
<1>1. Record(custody) = Record(q.custody)
  <2>1. CustodyMessage(custody).record = Record(custody)
        /\ CustodyMessage(q.custody).record = Record(q.custody)
    BY DEF CustodyMessage
  <2> QED
    BY <2>1
<1>2. members \subseteq DOMAIN q.custody \ {"signature"}
  BY PassportAssumption DEF PublishedVerify, PublishedAssumption, IsPassport
<1>3. DOMAIN custody \ {"signature"} = DOMAIN q.custody \ {"signature"}
  BY <1>1
<1>4. \A f \in members : custody[f] = q.custody[f]
  BY <1>1, <1>2, <1>3
<1> QED
  BY <1>4

\* It holds for any published passports that verify.
LEMMA UnreachableWhenTheyVerify ==
  ASSUME PublishedVerify
  PROVE  Spec => []UnreachableStaysUnreached
<1>1. IInv /\ RefusalsOK => UnreachableStaysUnreached
  <2> SUFFICES ASSUME IInv, RefusalsOK, NothingSigned,
                      NEW r \in NotReachableByPublishedMutation, verdict = <<FALSE, r>>
               PROVE  FALSE
    BY DEF UnreachableStaysUnreached, NobodySignedAgain, PublishedSignatures, NothingSigned, Hexes
  <2> DEFINE grant == passport.authorization
             custody == passport.custody
             gSig == grant.owner_signature
             cSig == custody.signature
  <2>1. Refused(passport, r)
    BY DEF RefusalsOK
  <2>2. r \notin EarlyReasons \cup ClosingReasons /\ r # Noncanonical
    BY DEF NotReachableByPublishedMutation, EarlyReasons, ClosingReasons, Noncanonical
  <2>3. Unbroken(GrantLinks(passport)) /\ Unbroken(CustodyLinks(passport))
    BY <2>1, <2>2 DEF Refused
  <2>4. PICK links \in MiddleGroups(passport) : ~ Unbroken(links) /\ r = FirstBroken(links)
    BY <2>1, <2>2 DEF Refused
  <2>5. /\ gSig.signing_key_id \in OwnerAnchors /\ gSig.signature_hex # Garbled
        /\ gSig.signature_hex = Signature(gSig.signing_key_id, GrantMessage(grant))
    BY <2>3, GrantVerified
  <2>6. /\ cSig.signing_key_id \in CustodyAnchors /\ cSig.signature_hex # Garbled
        /\ cSig.signature_hex = Signature(cSig.signing_key_id, CustodyMessage(custody))
    BY <2>3, CustodyVerified
  <2>7. gSig.signature_hex \in signed /\ cSig.signature_hex \in signed
    <3>1. gSig.signature_hex \in Hexes(passport) /\ cSig.signature_hex \in Hexes(passport)
      BY DEF Hexes
    <3> HIDE DEF gSig, cSig, grant, custody
    <3> QED
      BY <2>5, <2>6, <3>1, VerifiedWasMade
  <2>8. PICK q \in Published : CustodyMessage(custody) = CustodyMessage(q.custody)
    <3> HIDE DEF cSig, custody
    <3> QED
      BY <2>6, <2>7, CustodyIsPublished
  <2>9. PICK o \in Published : GrantMessage(grant) = GrantMessage(o.authorization)
    <3> HIDE DEF gSig, grant
    <3> QED
      BY <2>5, <2>7, GrantIsPublished
  <2>10. /\ custody.publication_class = "public-full-record"
         /\ custody.record_status = "OUTCOME_SUCCESS"
         /\ custody.grant_sha256 = q.authorization
         /\ custody.grant_id = q.authorization.grant_id
    BY <2>8, PublishedRecord, PublishedSays
  <2>11. gSig.signature_version = "v0.6" /\ grant.publication_class = "public-full-record"
    <3>1. /\ GrantMessage(o.authorization).version = "v0.6"
          /\ GrantMessage(o.authorization).publication_class = "public-full-record"
      BY PublishedSays DEF GrantMessage
    <3>2. /\ GrantMessage(grant).version = gSig.signature_version
          /\ gSig.signature_version = "v0.6"
               => GrantMessage(grant).publication_class = grant.publication_class
      BY DEF GrantMessage
    <3> QED
      BY <2>9, <3>1, <3>2
  <2>12. CASE links = ContractLinks(passport)
    <3>1. PICK i \in DOMAIN links : links[i].broken /\ r = links[i].reason
      BY <2>4, <2>12, ContractGroup, FirstBrokenIsALink
    <3>2. i \in {4, 5}
      <4>1. i \in {1, 2, 3, 4, 5}
        BY <2>12, <3>1, ContractGroup
      <4>2. \A j \in {1, 2, 3} : links[j].reason \notin NotReachableByPublishedMutation
        BY <2>12, ContractGroup DEF NotReachableByPublishedMutation
      <4> QED
        BY <3>1, <4>1, <4>2
    <3>3. ~ links[4].broken /\ ~ links[5].broken
      BY <2>10, <2>11, <2>12, ContractGroup
    <3> QED
      BY <3>1, <3>2, <3>3
  <2>13. CASE links = BindingLinks(passport)
    <3>1. PICK i \in DOMAIN links : /\ links[i].broken /\ r = links[i].reason
                                    /\ \A j \in 1..(i - 1) : ~ links[j].broken
      BY <2>4, <2>13, BindingGroup, FirstBrokenIsALink
    <3>2. i = 5
      <4>1. i \in 1..5
        BY <2>13, <3>1, BindingGroup
      <4>2. \A j \in 1..4 : links[j].reason \notin NotReachableByPublishedMutation
        BY <2>13, BindingGroup
      <4> QED
        BY <3>1, <4>1, <4>2
    <3>3. custody.grant_sha256 = grant /\ grant.grant_id # custody.grant_id
      <4>1. 1 \in 1..(5 - 1)
        OBVIOUS
      <4>2. ~ BindingLinks(passport)[1].broken /\ BindingLinks(passport)[5].broken
        BY <2>13, <3>1, <3>2, <4>1
      <4>3. /\ ~ BindingLinks(passport)[1].broken <=> custody.grant_sha256 = grant
            /\ ~ BindingLinks(passport)[5].broken <=> grant.grant_id = custody.grant_id
        BY BindingGroup DEF GrantDigest
      <4> QED
        BY <4>2, <4>3
    <3> QED
      BY <2>10, <3>3
  <2>14. CASE links \in {ScopeLinks(passport), ObservationLinks(passport),
                         CommitLinks(passport)}
    BY <2>4, <2>14, LaterGroups, GivenReason
  <2> QED
    BY <2>12, <2>13, <2>14 DEF MiddleGroups
<1> QED
  BY RefusalsKept, <1>1, PTL

\* "These paths need a differently signed owner grant or custody record"
\* (tools/survey_refusals.py:19-27): while nobody signs again, no edit of what is
\* published gives one of these reasons.
THEOREM Unreachable == Spec => []UnreachableStaysUnreached
<1>1. PublishedVerify
  <2> SUFFICES ASSUME NEW q \in Published
               PROVE  /\ {"publication_class", "record_status", "grant_id"}
                            \subseteq DOMAIN q.custody
                      /\ Unbroken(ContractLinks(q)) /\ Unbroken(BindingLinks(q))
    BY DEF PublishedVerify
  <2>1. HasMembers(q) /\ AllHold(q)
    BY CorpusAssumption DEF PublishedIsSound
  <2>2. {"publication_class", "record_status", "grant_id"} \subseteq DOMAIN q.custody
    BY <2>1 DEF HasMembers
  <2> QED
    BY <2>1, <2>2 DEF AllHold
<1> QED
  BY <1>1, UnreachableWhenTheyVerify

-----------------------------------------------------------------------------
(* The second verifier.                                                    *)

LEMMA UnbrokenSix ==
  ASSUME NEW a, NEW b, NEW c, NEW d, NEW e, NEW f, Unbroken(<<a, b, c, d, e, f>>)
  PROVE  ~ a.broken /\ ~ b.broken /\ ~ c.broken /\ ~ d.broken /\ ~ e.broken /\ ~ f.broken
<1> DEFINE links == <<a, b, c, d, e, f>>
<1>1. {1, 2, 3, 4, 5, 6} \subseteq DOMAIN links
  OBVIOUS
<1>2. /\ links[1] = a /\ links[2] = b /\ links[3] = c
      /\ links[4] = d /\ links[5] = e /\ links[6] = f
  OBVIOUS
<1> HIDE DEF links
<1>3. Unbroken(links)
  BY DEF links
<1> QED
  BY <1>1, <1>2, <1>3 DEF Unbroken

\* A passport passes when every group of links held.
LEMMA GoPassedLinks ==
  ASSUME NEW p, GoVerdict(p)[1]
  PROVE  \A i \in 1..8 : Unbroken(GoLinks(p, GoGroups[i]))
<1> DEFINE All == \A i \in 1..Len(GoGroups) : Unbroken(GoLinks(p, GoGroups[i]))
           reason == FirstBroken(GoLinks(p, GoGroups[CHOOSE j \in 1..Len(GoGroups) :
                       /\ \A k \in 1..(j - 1) : Unbroken(GoLinks(p, GoGroups[k]))
                       /\ ~ Unbroken(GoLinks(p, GoGroups[j]))]))
<1>1. GoVerdict(p) = IF All THEN <<TRUE, Null>> ELSE <<FALSE, reason>>
  BY DEF GoVerdict
<1>2. Len(GoGroups) = 8
  BY DEF GoGroups
<1>3. All
  <2> HIDE DEF All, reason
  <2>1. <<FALSE, reason>>[1] = FALSE
    OBVIOUS
  <2> QED
    BY <1>1, <2>1
<1> QED
  BY <1>2, <1>3

\* The groups by their names.
LEMMA GoPassedGroups ==
  ASSUME NEW p, GoVerdict(p)[1]
  PROVE  /\ Unbroken(GoGrantLinks(p)) /\ Unbroken(GoBindingLinks(p))
         /\ Unbroken(GoScopeLinks(p)) /\ Unbroken(GoCommitLinks(p))
         /\ Unbroken(GoClosureLinks(p))
<1>1. /\ GoGroups[2] = "grant" /\ GoGroups[4] = "binding" /\ GoGroups[5] = "scope"
      /\ GoGroups[7] = "commit" /\ GoGroups[8] = "closure"
  BY DEF GoGroups
<1>2. /\ Unbroken(GoLinks(p, "grant")) /\ Unbroken(GoLinks(p, "binding"))
      /\ Unbroken(GoLinks(p, "scope")) /\ Unbroken(GoLinks(p, "commit"))
      /\ Unbroken(GoLinks(p, "closure"))
  <2>1. {2, 4, 5, 7, 8} \subseteq 1..8
    OBVIOUS
  <2> QED
    BY <1>1, <2>1, GoPassedLinks
<1>3. /\ GoLinks(p, "grant") = GoGrantLinks(p) /\ GoLinks(p, "binding") = GoBindingLinks(p)
      /\ GoLinks(p, "scope") = GoScopeLinks(p) /\ GoLinks(p, "commit") = GoCommitLinks(p)
      /\ GoLinks(p, "closure") = GoClosureLinks(p)
  BY DEF GoLinks
<1> QED
  BY <1>2, <1>3

\* signature(): what held is the key's own signature over the message.
LEMMA GoSignatureVerified ==
  ASSUME NEW sig, NEW version, NEW key, NEW message, NEW malformed, NEW wrong, NEW invalid,
         Unbroken(GoSignatureLinks(sig, version, key, message, malformed, wrong, invalid))
  PROVE  sig.signature_hex # Garbled /\ sig.signature_hex = Signature(key, message)
<1>1. /\ ~ Link(sig.signature_version # version \/ sig.signature_hex = Garbled,
                malformed).broken
      /\ ~ Link(sig.signing_key_id # key, wrong).broken
      /\ ~ Link(sig.signature_hex # Signature(key, message), invalid).broken
  BY UnbrokenThree DEF GoSignatureLinks
<1> QED
  BY <1>1 DEF Link

LEMMA GoSignatureLinksAreASequence ==
  ASSUME NEW sig, NEW version, NEW key, NEW message, NEW malformed, NEW wrong, NEW invalid
  PROVE  \E S : GoSignatureLinks(sig, version, key, message, malformed, wrong, invalid)
                  \in Seq(S)
BY LinksAreASequence DEF GoSignatureLinks

\* A signature that verified under a key is one that was made.
LEMMA GoVerifiedWasMade ==
  ASSUME IInv, NEW hex \in Hexes(passport), NEW key, key # Null,
         NEW message, hex # Garbled, hex = Signature(key, message)
  PROVE  hex \in signed
<1>1. hex \in signed \cup {Garbled, Scrambled}
  BY DEF IInv, TypeOK, Available, Hexes
<1>2. hex # Scrambled
  <2>1. hex.by = key /\ Scrambled.by = Null
    BY DEF Signature, Scrambled
  <2> QED
    BY <2>1
<1> QED
  BY <1>1, <1>2

\* The grant: its lists are lists, and its owner signed it.
LEMMA GoGrantVerified ==
  ASSUME NEW p, Unbroken(GoGrantLinks(p))
  PROVE  LET hex == p.authorization.owner_signature.signature_hex
         IN  /\ IsList(p.authorization.allowed_files)
             /\ hex # Garbled /\ hex = Signature(GoOwner, GrantMessage(p.authorization))
<1> DEFINE grant == p.authorization
           form == Link(\/ grant.owner_signature.shape = "absent" \/ ~ grant.well_formed
                        \/ ~ IsList(grant.allowed_files) \/ ~ IsList(grant.new_files)
                        \/ ~ grant.acceptance_contract.closed
                        \/ ~ IsList(grant.acceptance_contract.expected_changed_paths),
                        "block_owner_authorization_malformed")
           rest == GoSignatureLinks(grant.owner_signature, "v0.6", GoOwner,
                     GrantMessage(grant), "block_owner_authorization_malformed",
                     "block_owner_authorization_wrong_key",
                     "block_owner_authorization_signature_invalid")
<1>1. GoGrantLinks(p) = <<form>> \o rest
  BY DEF GoGrantLinks
<1>2. \E S : rest \in Seq(S)
  BY GoSignatureLinksAreASequence
<1>3. Unbroken(<<form>>) /\ Unbroken(rest)
  <2> HIDE DEF form, rest
  <2> QED
    BY <1>1, <1>2, LinksAreASequence, UnbrokenParts
<1>4. ~ form.broken
  <2> HIDE DEF form
  <2> QED
    BY <1>3, UnbrokenOne
<1>5. IsList(grant.allowed_files)
  BY <1>4 DEF Link
<1> QED
  BY <1>3, <1>5, GoSignatureVerified

\* The closure is the owner's over this passport, and its text is canonical.
LEMMA GoClosureVerified ==
  ASSUME NEW p, Unbroken(GoClosureLinks(p))
  PROVE  LET hex == p.closure.signature.signature_hex
         IN  /\ hex # Garbled /\ hex = Signature(GoOwner, GoClosureMessage(p))
             /\ p.text = "canonical"
<1> DEFINE signature == p.closure.signature
           present == Link(signature.shape = "absent", "block_owner_closure_signature_missing")
           known == Link(~ p.closure.closed, "block_owner_closure_unknown_field")
           shape == Link(signature.shape # "closed",
                         "block_owner_closure_signature_malformed")
           middle == GoSignatureLinks(signature, "closure/0.1", GoOwner, GoClosureMessage(p),
                       "block_owner_closure_signature_malformed",
                       "block_owner_closure_signature_wrong_key",
                       "block_owner_closure_signature_invalid")
           spelled == Link(p.text # "canonical",
                           "block_public_run_passport_noncanonical_serialization")
<1>1. GoClosureLinks(p) = (<<present, known, shape>> \o middle) \o <<spelled>>
  BY DEF GoClosureLinks
<1>2. \E S : middle \in Seq(S)
  BY GoSignatureLinksAreASequence
<1>3. Unbroken(middle) /\ Unbroken(<<spelled>>)
  <2> HIDE DEF present, known, shape, middle, spelled
  <2>1. \E S : <<present, known, shape>> \o middle \in Seq(S)
    BY <1>2, LinksAreASequence, ChainsAreASequence
  <2>2. Unbroken(<<present, known, shape>> \o middle) /\ Unbroken(<<spelled>>)
    BY <1>1, <2>1, LinksAreASequence, UnbrokenParts
  <2> QED
    BY <1>2, <2>2, LinksAreASequence, UnbrokenParts, ZenonT(40)
<1>4. ~ spelled.broken
  <2> HIDE DEF spelled
  <2> QED
    BY <1>3, UnbrokenOne
<1>5. p.text = "canonical"
  BY <1>4 DEF Link
<1> QED
  BY <1>3, <1>5, GoSignatureVerified

\* The record is of this grant and of the commit he named.
LEMMA GoBindingVerified ==
  ASSUME NEW p, Unbroken(GoBindingLinks(p))
  PROVE  /\ p.custody.grant_sha256 = GrantDigest(p.authorization)
         /\ p.authorization.head_sha = p.implementation_head_sha
<1> DEFINE contract == Link(~ GoCustodyContract(p),
                            "block_custody_publication_contract_malformed")
           ofGrant == Link(p.custody.grant_sha256 # GrantDigest(p.authorization),
                           "block_grant_custody_binding_mismatch")
           run == Link(p.run_id # p.authorization.run_id \/ p.run_id # p.custody.run_id,
                       "block_run_id_binding_mismatch")
           execution == Link(p.execution_id # p.custody.execution_id,
                             "block_execution_id_binding_mismatch")
           heads == {p.authorization.head_sha, p.custody.head_sha,
                     p.custody.observed_post_head_sha}
           head == Link(heads # {p.implementation_head_sha},
                        "block_implementation_head_binding_mismatch")
           id == Link(p.authorization.grant_id # p.custody.grant_id,
                      "block_grant_id_binding_mismatch")
<1>1. GoBindingLinks(p) = <<contract, ofGrant, run, execution, head, id>>
  BY DEF GoBindingLinks
<1>2. ~ ofGrant.broken /\ ~ head.broken
  <2> HIDE DEF contract, ofGrant, run, execution, head, id
  <2> QED
    BY <1>1, UnbrokenSix
<1> QED
  BY <1>2 DEF Link

\* The files of the run are the files of the grant.
LEMMA GoScopeVerified ==
  ASSUME NEW p, IsList(p.authorization.allowed_files), Unbroken(GoScopeLinks(p))
  PROVE  p.scope.allowed_files.paths = p.authorization.allowed_files.paths
<1> DEFINE scope == p.scope
           grant == p.authorization
           contract == scope.acceptance_contract
           Same(list, other) == IsList(list) /\ Normalized(list) = Normalized(other)
           allowed == Link(\/ ~ Same(scope.allowed_files, grant.allowed_files)
                           \/ ~ Same(p.custody.allowed_files, grant.allowed_files),
                           "block_allowed_files_binding_mismatch")
           new == Link(\/ ~ Same(scope.new_files, grant.new_files)
                       \/ ~ (scope.new_files.paths \subseteq scope.allowed_files.paths),
                       "block_new_files_binding_mismatch")
           accepted == Link(\/ ~ contract.closed
                            \/ ~ Same(contract.expected_changed_paths,
                                      grant.acceptance_contract.expected_changed_paths)
                            \/ contract.markers # grant.acceptance_contract.markers
                            \/ ~ Same(contract.expected_changed_paths, scope.allowed_files),
                            "block_acceptance_contract_binding_mismatch")
<1>1. GoScopeLinks(p) = <<allowed, new, accepted>>
  BY DEF GoScopeLinks
<1>2. ~ allowed.broken
  <2> HIDE DEF allowed, new, accepted
  <2> QED
    BY <1>1, UnbrokenThree
<1>3. Same(scope.allowed_files, grant.allowed_files)
  BY <1>2 DEF Link
<1> QED
  BY <1>3 DEF Normalized, IsList

\* The commit changes the files of the run and is none he named, and the boundary
\* is of the grant and of those files.
LEMMA GoCommitVerified ==
  ASSUME NEW p, Unbroken(GoCommitLinks(p))
  PROVE  LET allowed == [paths |-> p.scope.allowed_files.paths, spelling |-> "canonical"]
             boundary == p.custody.runner_report.os_boundary
         IN  /\ p.committed_binding.changed_paths = allowed
             /\ p.committed_binding.commit_sha # p.implementation_head_sha
             /\ boundary.schema_version = "1.1"
             /\ boundary.grant_sha256 = p.custody.grant_sha256
             /\ Lists(boundary.rules, allowed.paths)
<1> DEFINE binding == p.committed_binding
           allowed == p.scope.allowed_files.paths
           identity == Link(\/ ~ binding.identity_closed
                            \/ ~ ({binding.parent_sha, binding.commit_sha} \subseteq Commits),
                            "block_commit_identity_binding_mismatch")
           change == Link(\/ binding.parent_sha # p.implementation_head_sha
                          \/ binding.changed_paths
                               # [paths |-> allowed, spelling |-> "canonical"],
                          "block_complete_cargo_changeset_binding_mismatch")
           fresh == Link(binding.commit_sha = p.implementation_head_sha,
                         "block_cargo_commit_equals_execution_head")
           hashes == Link(\/ DOMAIN binding.committed_file_hashes # allowed
                          \/ \E f \in allowed \cap DOMAIN binding.committed_file_hashes :
                               binding.committed_file_hashes[f]
                                 # p.execution.sha256_chain[f].materialized_sha256,
                          "block_committed_hash_binding_mismatch")
           bound == Link(~ GoBoundaryContract(p),
                         "block_public_run_passport_contract_malformed")
<1>1. GoCommitLinks(p) = <<identity, change, fresh, hashes, bound>>
  BY DEF GoCommitLinks
<1>2. ~ change.broken /\ ~ fresh.broken /\ ~ bound.broken
  <2> HIDE DEF identity, change, fresh, hashes, bound
  <2> QED
    BY <1>1, UnbrokenFive
<1>3. /\ binding.changed_paths = [paths |-> allowed, spelling |-> "canonical"]
      /\ binding.commit_sha # p.implementation_head_sha
      /\ GoBoundaryContract(p)
  BY <1>2 DEF Link
<1> QED
  BY <1>3 DEF GoBoundaryContract

\* A PASS of verifiers/go/main.go: its owner signed the grant and closed the
\* passport in its canonical text, and the boundary is one of this grant with a
\* rule for each granted file.
THEOREM GoPassMeans == Spec => []GoPassBinds
<1>1. IInv => GoPassBinds
  <2> SUFFICES ASSUME IInv, GoPassed PROVE GoPassBinds
    BY DEF GoPassBinds
  <2> DEFINE grant == passport.authorization
             boundary == passport.custody.runner_report.os_boundary
             granted == grant.owner_signature.signature_hex
             closing == passport.closure.signature.signature_hex
  <2>1. /\ Unbroken(GoGrantLinks(passport)) /\ Unbroken(GoBindingLinks(passport))
        /\ Unbroken(GoScopeLinks(passport)) /\ Unbroken(GoCommitLinks(passport))
        /\ Unbroken(GoClosureLinks(passport))
    BY GoPassedGroups DEF GoPassed
  <2>2. /\ IsList(grant.allowed_files)
        /\ granted # Garbled /\ granted = Signature(GoOwner, GrantMessage(grant))
    BY <2>1, GoGrantVerified
  <2>3. /\ closing # Garbled /\ closing = Signature(GoOwner, GoClosureMessage(passport))
        /\ passport.text = "canonical"
    BY <2>1, GoClosureVerified
  <2>4. granted \in signed /\ closing \in signed
    <3>1. granted \in Hexes(passport) /\ closing \in Hexes(passport)
      BY DEF Hexes
    <3> HIDE DEF granted, closing, grant
    <3>2. GoOwner # Null
      BY GoAssumption, PassportAssumption DEF AnchorsAssumption
    <3> QED
      BY <2>2, <2>3, <3>1, <3>2, GoVerifiedWasMade
  <2>5. \E p \in closed : Core(p) = Core(passport)
    <3>1. closing.over = GoClosureMessage(passport)
      <4> HIDE DEF closing
      <4> QED
        BY <2>3 DEF Signature
    <3> HIDE DEF closing
    <3>2. closing.over.kind = "closure" /\ closing.over.passport_core = Core(passport)
      BY <3>1 DEF GoClosureMessage
    <3> QED
      BY <2>4, <3>2 DEF IInv, ClosuresOK
  <2>6. /\ passport.custody.grant_sha256 = GrantDigest(grant)
        /\ grant.head_sha = passport.implementation_head_sha
    BY <2>1, GoBindingVerified
  <2>7. passport.scope.allowed_files.paths = grant.allowed_files.paths
    BY <2>1, <2>2, GoScopeVerified
  <2>8. LET allowed == [paths |-> grant.allowed_files.paths, spelling |-> "canonical"]
        IN  /\ passport.committed_binding.changed_paths = allowed
            /\ passport.committed_binding.commit_sha # grant.head_sha
            /\ boundary.schema_version = "1.1"
            /\ boundary.grant_sha256 = GrantDigest(grant)
            /\ Lists(boundary.rules, allowed.paths)
    BY <2>1, <2>6, <2>7, GoCommitVerified
  <2> QED
    BY <2>2, <2>3, <2>4, <2>5, <2>8 DEF GoPassBinds
<1> QED
  BY Invariant, <1>1, PTL

-----------------------------------------------------------------------------
(* The two verifiers side by side: group for group, what the one asks and  *)
(* the other does not.                                                     *)

LEMMA LinksHold ==
  /\ \A a : Unbroken(<<a>>) <=> ~ a.broken
  /\ \A a, b : Unbroken(<<a, b>>) <=> ~ a.broken /\ ~ b.broken
  /\ \A a, b, c : Unbroken(<<a, b, c>>) <=> ~ a.broken /\ ~ b.broken /\ ~ c.broken
<1>1. ASSUME NEW a PROVE Unbroken(<<a>>) <=> ~ a.broken
  <2>1. DOMAIN <<a>> = {1} /\ <<a>>[1] = a
    OBVIOUS
  <2> QED
    BY <2>1, Zenon DEF Unbroken
<1>2. ASSUME NEW a, NEW b PROVE Unbroken(<<a, b>>) <=> ~ a.broken /\ ~ b.broken
  <2>1. DOMAIN <<a, b>> = {1, 2} /\ <<a, b>>[1] = a /\ <<a, b>>[2] = b
    OBVIOUS
  <2> QED
    BY <2>1, Zenon DEF Unbroken
<1>3. ASSUME NEW a, NEW b, NEW c
      PROVE  Unbroken(<<a, b, c>>) <=> ~ a.broken /\ ~ b.broken /\ ~ c.broken
  <2>1. /\ DOMAIN <<a, b, c>> = {1, 2, 3}
        /\ <<a, b, c>>[1] = a /\ <<a, b, c>>[2] = b /\ <<a, b, c>>[3] = c
    OBVIOUS
  <2> QED
    BY <2>1, Zenon DEF Unbroken
<1> QED
  BY <1>1, <1>2, <1>3

LEMMA ChainHolds ==
  ASSUME NEW first, NEW second, \E S : first \in Seq(S), \E S : second \in Seq(S)
  PROVE  Unbroken(first \o second) <=> Unbroken(first) /\ Unbroken(second)
<1>1. PICK S, T : first \in Seq(S) /\ second \in Seq(T)
  OBVIOUS
<1>2. first \in Seq(S \cup T) /\ second \in Seq(S \cup T)
  BY <1>1
<1>3. ASSUME Unbroken(first), Unbroken(second), NEW i \in DOMAIN (first \o second)
      PROVE  ~ (first \o second)[i].broken
  <2>1. \/ i \in DOMAIN first /\ (first \o second)[i] = first[i]
        \/ i - Len(first) \in DOMAIN second /\ (first \o second)[i] = second[i - Len(first)]
    BY <1>2
  <2> QED
    BY <1>3, <2>1 DEF Unbroken
<1> QED
  BY <1>3, UnbrokenParts DEF Unbroken

LEMMA ChainsHold ==
  ASSUME NEW rest, \E S : rest \in Seq(S)
  PROVE  /\ \A a : Unbroken(<<a>> \o rest) <=> ~ a.broken /\ Unbroken(rest)
         /\ \A a, b : Unbroken(<<a, b>> \o rest)
                       <=> ~ a.broken /\ ~ b.broken /\ Unbroken(rest)
         /\ \A a, b, c, d :
              Unbroken((<<a, b, c>> \o rest) \o <<d>>)
                <=> ~ a.broken /\ ~ b.broken /\ ~ c.broken /\ Unbroken(rest) /\ ~ d.broken
<1>1. ASSUME NEW a PROVE Unbroken(<<a>> \o rest) <=> ~ a.broken /\ Unbroken(rest)
  <2>1. \E S : <<a>> \in Seq(S)
    BY LinksAreASequence
  <2> QED
    BY <2>1, ChainHolds, LinksHold
<1>2. ASSUME NEW a, NEW b
      PROVE  Unbroken(<<a, b>> \o rest) <=> ~ a.broken /\ ~ b.broken /\ Unbroken(rest)
  <2>1. \E S : <<a, b>> \in Seq(S)
    BY LinksAreASequence
  <2> QED
    BY <2>1, ChainHolds, LinksHold
<1>3. ASSUME NEW a, NEW b, NEW c, NEW d
      PROVE  Unbroken((<<a, b, c>> \o rest) \o <<d>>)
               <=> ~ a.broken /\ ~ b.broken /\ ~ c.broken /\ Unbroken(rest) /\ ~ d.broken
  <2>1. (\E S : <<a, b, c>> \in Seq(S)) /\ (\E S : <<d>> \in Seq(S))
    BY LinksAreASequence
  <2>2. \E S : <<a, b, c>> \o rest \in Seq(S)
    BY <2>1, ChainsAreASequence
  <2>3. Unbroken((<<a, b, c>> \o rest) \o <<d>>)
          <=> Unbroken(<<a, b, c>> \o rest) /\ Unbroken(<<d>>)
    BY <2>1, <2>2, ChainHolds
  <2>4. Unbroken(<<a, b, c>> \o rest) <=> Unbroken(<<a, b, c>>) /\ Unbroken(rest)
    BY <2>1, ChainHolds
  <2> QED
    BY <2>3, <2>4, LinksHold
<1> QED
  BY <1>1, <1>2, <1>3

\* A signature link for link: the anchors of the first verifier hold the one key of
\* the second, which asks for the version here and not beside it.
LEMMA SignaturesCompared ==
  ASSUME NEW sig, NEW anchors, NEW message, NEW version, NEW key \in anchors,
         NEW a, NEW b, NEW c, NEW x, NEW y, NEW z
  PROVE  Unbroken(GoSignatureLinks(sig, version, key, message, a, b, c))
           <=> /\ Unbroken(SignatureLinks(sig, anchors, message, x, y, z))
               /\ sig.signature_version = version /\ sig.signing_key_id = key
<1>1. Unbroken(GoSignatureLinks(sig, version, key, message, a, b, c))
        <=> /\ ~ Link(sig.signature_version # version \/ sig.signature_hex = Garbled,
                      a).broken
            /\ ~ Link(sig.signing_key_id # key, b).broken
            /\ ~ Link(sig.signature_hex # Signature(key, message), c).broken
  BY LinksHold DEF GoSignatureLinks
<1>2. Unbroken(SignatureLinks(sig, anchors, message, x, y, z))
        <=> /\ ~ Link(sig.signing_key_id \notin anchors, x).broken
            /\ ~ Link(sig.signature_hex = Garbled, y).broken
            /\ ~ Link(sig.signature_hex # Signature(sig.signing_key_id, message), z).broken
  BY LinksHold DEF SignatureLinks
<1> QED
  BY <1>1, <1>2 DEF Link

\* The lists of the scope.
LEMMA ScopesCompared ==
  ASSUME NEW p
  PROVE  Unbroken(GoScopeLinks(p)) <=> Unbroken(ScopeLinks(p))
<1>1. \E a, b, c : GoScopeLinks(p) = <<a, b, c>>
  BY DEF GoScopeLinks
<1>2. \E a, b, c : ScopeLinks(p) = <<a, b, c>>
  BY DEF ScopeLinks
<1>3. /\ GoScopeLinks(p)[1].broken <=> ScopeLinks(p)[1].broken
      /\ GoScopeLinks(p)[2].broken <=> ScopeLinks(p)[2].broken
  BY DEF GoScopeLinks, ScopeLinks, Link, Normalized, IsList
<1>4. ~ ScopeLinks(p)[1].broken =>
        (GoScopeLinks(p)[3].broken <=> ScopeLinks(p)[3].broken)
  BY DEF GoScopeLinks, ScopeLinks, Link, Normalized, IsList
<1> QED
  BY <1>1, <1>2, <1>3, <1>4, LinksHold

LEMMA MoreLinksHold ==
  /\ \A a, b, c, d, e :
       Unbroken(<<a, b, c, d, e>>)
         <=> ~ a.broken /\ ~ b.broken /\ ~ c.broken /\ ~ d.broken /\ ~ e.broken
  /\ \A a, b, c, d, e, f :
       Unbroken(<<a, b, c, d, e, f>>)
         <=> ~ a.broken /\ ~ b.broken /\ ~ c.broken /\ ~ d.broken /\ ~ e.broken /\ ~ f.broken
<1>1. ASSUME NEW a, NEW b, NEW c, NEW d, NEW e
      PROVE  Unbroken(<<a, b, c, d, e>>)
               <=> ~ a.broken /\ ~ b.broken /\ ~ c.broken /\ ~ d.broken /\ ~ e.broken
  <2> DEFINE links == <<a, b, c, d, e>>
  <2>1. /\ DOMAIN links = {1, 2, 3, 4, 5}
        /\ links[1] = a /\ links[2] = b /\ links[3] = c /\ links[4] = d /\ links[5] = e
    OBVIOUS
  <2> HIDE DEF links
  <2>2. Unbroken(links)
          <=> ~ a.broken /\ ~ b.broken /\ ~ c.broken /\ ~ d.broken /\ ~ e.broken
    BY <2>1 DEF Unbroken
  <2> QED
    BY <2>2 DEF links
<1>2. ASSUME NEW a, NEW b, NEW c, NEW d, NEW e, NEW f
      PROVE  Unbroken(<<a, b, c, d, e, f>>)
               <=> /\ ~ a.broken /\ ~ b.broken /\ ~ c.broken
                   /\ ~ d.broken /\ ~ e.broken /\ ~ f.broken
  <2> DEFINE links == <<a, b, c, d, e, f>>
  <2>1. /\ DOMAIN links = {1, 2, 3, 4, 5, 6}
        /\ links[1] = a /\ links[2] = b /\ links[3] = c
        /\ links[4] = d /\ links[5] = e /\ links[6] = f
    OBVIOUS
  <2> HIDE DEF links
  <2>2. Unbroken(links) <=> /\ ~ a.broken /\ ~ b.broken /\ ~ c.broken
                            /\ ~ d.broken /\ ~ e.broken /\ ~ f.broken
    BY <2>1 DEF Unbroken
  <2> QED
    BY <2>2 DEF links
<1> QED
  BY <1>1, <1>2

\* What was observed: the first verifier wants lists, and no blanks, where the second
\* compares what is there.
LEMMA ObservationsCompared ==
  ASSUME NEW p
  PROVE  /\ Unbroken(ObservationLinks(p)) => Unbroken(GoObservationLinks(p))
         /\ Unbroken(GoObservationLinks(p)) =>
              (Unbroken(ObservationLinks(p))
                 <=> /\ p.custody.observed_post_worktree_entries.spelling # "padded"
                     /\ IsList(p.custody.observed_pre_worktree_entries))
<1>1. \E a, b : GoObservationLinks(p) = <<a, b>>
  BY DEF GoObservationLinks
<1>2. \E a, b : ObservationLinks(p) = <<a, b>>
  BY DEF ObservationLinks
<1>3. ~ ObservationLinks(p)[1].broken
        <=> /\ ~ GoObservationLinks(p)[1].broken
            /\ p.custody.observed_post_worktree_entries.spelling # "padded"
            /\ IsList(p.custody.observed_pre_worktree_entries)
  BY DEF GoObservationLinks, ObservationLinks, Link, IsList
<1>4. GoObservationLinks(p)[2].broken <=> ObservationLinks(p)[2].broken
  BY DEF GoObservationLinks, ObservationLinks, Link
<1> QED
  BY <1>1, <1>2, <1>3, <1>4, LinksHold

\* The commit: the second verifier reads the boundary here.
LEMMA CommitsCompared ==
  ASSUME NEW p
  PROVE  Unbroken(GoCommitLinks(p)) <=> Unbroken(CommitLinks(p)) /\ GoBoundaryContract(p)
<1>1. \E a, b, c, d, e : GoCommitLinks(p) = <<a, b, c, d, e>>
  BY DEF GoCommitLinks
<1>2. \E a, b, c, d, e : CommitLinks(p) = <<a, b, c, d, e>>
  BY DEF CommitLinks
<1>3. /\ GoCommitLinks(p)[1].broken <=> CommitLinks(p)[1].broken
      /\ GoCommitLinks(p)[2].broken <=> CommitLinks(p)[2].broken \/ CommitLinks(p)[4].broken
      /\ ~ CommitLinks(p)[2].broken =>
           (GoCommitLinks(p)[3].broken <=> CommitLinks(p)[3].broken)
      /\ GoCommitLinks(p)[4].broken <=> CommitLinks(p)[5].broken
      /\ GoCommitLinks(p)[5].broken <=> ~ GoBoundaryContract(p)
  BY DEF GoCommitLinks, CommitLinks, Link
<1> QED
  BY <1>1, <1>2, <1>3, MoreLinksHold

\* The envelope and the bytes around it.
LEMMA EnvelopesCompared ==
  ASSUME NEW p
  PROVE  Unbroken(GoEnvelopeLinks(p))
           <=> Unbroken(ParseLinks(p)) /\ Unbroken(EnvelopeLinks(p))
<1>1. GoEnvelopeLinks(p) = ParseLinks(p) \o EnvelopeLinks(p)
  BY DEF GoEnvelopeLinks, ParseLinks, EnvelopeLinks
<1>2. (\E S : ParseLinks(p) \in Seq(S)) /\ (\E S : EnvelopeLinks(p) \in Seq(S))
  BY EarlyGroups
<1> QED
  BY <1>1, <1>2, ChainHolds

\* The grant: the second verifier knows version 0.6 only, and one key.
LEMMA GrantsCompared ==
  ASSUME NEW p, p.authorization.publication_class \in PublicationClasses
  PROVE  LET signature == p.authorization.owner_signature
         IN  Unbroken(GoGrantLinks(p))
               <=> /\ Unbroken(GrantLinks(p))
                   /\ signature.signature_version = "v0.6"
                   /\ signature.signing_key_id = GoOwner
<1> DEFINE grant == p.authorization
           signature == grant.owner_signature
           message == GrantMessage(grant)
           goRest == GoSignatureLinks(signature, "v0.6", GoOwner, message,
                       "block_owner_authorization_malformed",
                       "block_owner_authorization_wrong_key",
                       "block_owner_authorization_signature_invalid")
           rest == SignatureLinks(signature, OwnerAnchors, message,
                     "block_owner_authorization_wrong_key",
                     "block_owner_authorization_malformed",
                     "block_owner_authorization_signature_invalid")
           a == Link(\/ signature.shape = "absent" \/ ~ grant.well_formed
                     \/ ~ IsList(grant.allowed_files) \/ ~ IsList(grant.new_files)
                     \/ ~ grant.acceptance_contract.closed
                     \/ ~ IsList(grant.acceptance_contract.expected_changed_paths),
                     "block_owner_authorization_malformed")
           b == Link(\/ signature.shape = "absent"
                     \/ signature.signature_version \notin {"v0.5", "v0.6"}
                     \/ ~ GrantFit(grant),
                     "block_owner_authorization_malformed")
<1>1. GoGrantLinks(p) = <<a>> \o goRest /\ GrantLinks(p) = <<b>> \o rest
  BY DEF GoGrantLinks, GrantLinks
<1>2. signature.signature_version = "v0.6" => (a.broken <=> b.broken)
  BY DEF Link, GrantFit
<1>3. (\E S : goRest \in Seq(S)) /\ (\E S : rest \in Seq(S))
  BY GoSignatureLinksAreASequence, SignatureLinksAreASequence
<1>4. Unbroken(goRest) <=> /\ Unbroken(rest)
                           /\ signature.signature_version = "v0.6"
                           /\ signature.signing_key_id = GoOwner
  <2> HIDE DEF signature, message
  <2> QED
    BY GoAssumption, SignaturesCompared
<1> HIDE DEF goRest, rest, a, b
<1>5. /\ Unbroken(GoGrantLinks(p)) <=> ~ a.broken /\ Unbroken(goRest)
      /\ Unbroken(GrantLinks(p)) <=> ~ b.broken /\ Unbroken(rest)
  <2>1. Unbroken(<<a>> \o goRest) <=> ~ a.broken /\ Unbroken(goRest)
    BY <1>3, ChainsHold
  <2>2. Unbroken(<<b>> \o rest) <=> ~ b.broken /\ Unbroken(rest)
    BY <1>3, ChainsHold
  <2> QED
    BY <1>1, <2>1, <2>2
<1> QED
  BY <1>2, <1>4, <1>5

\* The custody record: one key.
LEMMA CustodiesCompared ==
  ASSUME NEW p
  PROVE  Unbroken(GoCustodyLinks(p))
           <=> /\ Unbroken(CustodyLinks(p))
               /\ p.custody.signature.signing_key_id = GoCustody
<1> DEFINE signature == p.custody.signature
           message == CustodyMessage(p.custody)
           goRest == GoSignatureLinks(signature, "custody/0.1", GoCustody, message,
                       "block_custody_record_malformed", "block_custody_record_wrong_key",
                       "block_custody_record_signature_invalid")
           rest == SignatureLinks(signature, CustodyAnchors, message,
                     "block_custody_record_wrong_key", "block_custody_record_malformed",
                     "block_custody_record_signature_invalid")
           a == Link(p.custody.record_schema # "deedseal-supervised-run-custody/1.0",
                     "block_custody_record_schema_unsupported")
           b == Link(~ p.custody.closed \/ signature.shape # "closed",
                     "block_custody_record_malformed")
           c == Link(\/ ~ p.custody.closed \/ signature.shape # "closed"
                     \/ signature.signature_version # "custody/0.1",
                     "block_custody_record_malformed")
<1>1. GoCustodyLinks(p) = <<a, b>> \o goRest /\ CustodyLinks(p) = <<a, c>> \o rest
  BY DEF GoCustodyLinks, CustodyLinks
<1>2. ~ c.broken <=> ~ b.broken /\ signature.signature_version = "custody/0.1"
  BY DEF Link
<1>3. (\E S : goRest \in Seq(S)) /\ (\E S : rest \in Seq(S))
  BY GoSignatureLinksAreASequence, SignatureLinksAreASequence
<1>4. Unbroken(goRest) <=> /\ Unbroken(rest)
                           /\ signature.signature_version = "custody/0.1"
                           /\ signature.signing_key_id = GoCustody
  <2> HIDE DEF signature, message
  <2> QED
    BY GoAssumption, SignaturesCompared
<1> HIDE DEF goRest, rest, a, b, c
<1>5. /\ Unbroken(GoCustodyLinks(p)) <=> ~ a.broken /\ ~ b.broken /\ Unbroken(goRest)
      /\ Unbroken(CustodyLinks(p)) <=> ~ a.broken /\ ~ c.broken /\ Unbroken(rest)
  <2>1. Unbroken(<<a, b>> \o goRest) <=> ~ a.broken /\ ~ b.broken /\ Unbroken(goRest)
    BY <1>3, ChainsHold
  <2>2. Unbroken(<<a, c>> \o rest) <=> ~ a.broken /\ ~ c.broken /\ Unbroken(rest)
    BY <1>3, ChainsHold
  <2> QED
    BY <1>1, <2>1, <2>2
<1> QED
  BY <1>2, <1>4, <1>5

\* The publication contract: the second verifier knows public records of a success only,
\* and leaves the boundary for later; the ids are the same ids.
LEMMA ContractsCompared ==
  ASSUME NEW p
  PROVE  Unbroken(ContractLinks(p))
           <=> /\ GoCustodyContract(p)
               /\ p.authorization.owner_signature.signature_version = "v0.6"
               /\ LandlockHolds(p.custody.runner_report.os_boundary, p.custody.allowed_files)
<1>1. \E a, b, c, d, e : ContractLinks(p) = <<a, b, c, d, e>>
  BY DEF ContractLinks
<1> DEFINE grant == p.authorization
           custody == p.custody
           v06 == grant.owner_signature.signature_version = "v0.6"
           public == custody.publication_class = "public-full-record"
<1>2. /\ ContractLinks(p)[1].broken <=> ~ PublicationContractHolds(custody)
      /\ ContractLinks(p)[2].broken
           <=> ~ v06 \/ custody.publication_class # grant.publication_class
      /\ ContractLinks(p)[3].broken
           <=> public /\ \/ grant.allowed_scope # custody.target
                         \/ grant.operation_class # "agent_subprocess"
                         \/ p.roadmap_step # custody.roadmap_step
      /\ ContractLinks(p)[4].broken
           <=> ~ (v06 /\ grant.publication_class = "public-full-record" /\ public)
      /\ ContractLinks(p)[5].broken <=> custody.record_status # "OUTCOME_SUCCESS"
  BY DEF ContractLinks, Link
<1>3. public /\ custody.record_status = "OUTCOME_SUCCESS" =>
        (PublicationContractHolds(custody)
           <=> /\ custody.fixed_values
               /\ custody.roadmap_step = "deedseal-public-run/1.0"
               /\ custody.target = "deedseal-bounded-file-set/1.0/edit"
               /\ custody.reason_code = "allow_supervised_agent_capture_recorded"
               /\ custody.runner_report.present /\ custody.runner_report.well_formed
               /\ custody.runner_report.publication_class = "public-full-record"
               /\ custody.runner_report.boundary_present
               /\ custody.runner_report.output_digests
               /\ custody.runner_report.redacted
               /\ LandlockHolds(custody.runner_report.os_boundary, custody.allowed_files))
  BY DEF PublicationContractHolds, RequiredReason, PublicationClasses
<1> QED
  BY <1>1, <1>2, <1>3, MoreLinksHold DEF GoCustodyContract

LEMMA BindingsCompared ==
  ASSUME NEW p
  PROVE  p.implementation_head_sha \in Commits =>
           (Unbroken(GoBindingLinks(p)) <=> GoCustodyContract(p) /\ Unbroken(BindingLinks(p)))
<1>1. \E a, b, c, d, e, f : GoBindingLinks(p) = <<a, b, c, d, e, f>>
  BY DEF GoBindingLinks
<1>2. \E a, b, c, d, e : BindingLinks(p) = <<a, b, c, d, e>>
  BY DEF BindingLinks
<1>3. /\ GoBindingLinks(p)[1].broken <=> ~ GoCustodyContract(p)
      /\ GoBindingLinks(p)[2].broken <=> BindingLinks(p)[1].broken
      /\ GoBindingLinks(p)[3].broken <=> BindingLinks(p)[2].broken
      /\ GoBindingLinks(p)[4].broken <=> BindingLinks(p)[3].broken
      /\ p.implementation_head_sha \in Commits =>
           (GoBindingLinks(p)[5].broken <=> BindingLinks(p)[4].broken)
      /\ GoBindingLinks(p)[6].broken <=> BindingLinks(p)[5].broken
  BY DEF GoBindingLinks, BindingLinks, Link
<1> QED
  BY <1>1, <1>2, <1>3, MoreLinksHold

\* The closure, and with it the bytes: one key, and the version the closure declares.
LEMMA ClosuresCompared ==
  ASSUME NEW p
  PROVE  /\ Unbroken(ClosureLinks(p)) => p.closure.closure_version = "closure/0.1"
         /\ p.authorization.owner_signature.signing_key_id = GoOwner
            /\ p.closure.closure_version = "closure/0.1" =>
              (Unbroken(GoClosureLinks(p))
                 <=> Unbroken(ClosureLinks(p)) /\ Unbroken(WireLinks(p)))
<1> DEFINE signature == p.closure.signature
           message == ClosureMessage(p)
           goMiddle == GoSignatureLinks(signature, "closure/0.1", GoOwner, message,
                         "block_owner_closure_signature_malformed",
                         "block_owner_closure_signature_wrong_key",
                         "block_owner_closure_signature_invalid")
           middle == SignatureLinks(signature, OwnerAnchors, message,
                       "block_owner_closure_signature_wrong_key",
                       "block_owner_closure_signature_malformed",
                       "block_owner_closure_signature_invalid")
           a == Link(signature.shape = "absent", "block_owner_closure_signature_missing")
           b == Link(~ p.closure.closed, "block_owner_closure_unknown_field")
           c == Link(signature.shape # "closed", "block_owner_closure_signature_malformed")
           d == Link(p.text # "canonical",
                     "block_public_run_passport_noncanonical_serialization")
           e == Link(\/ signature.shape # "closed"
                     \/ p.closure.closure_version # "closure/0.1"
                     \/ signature.signature_version # "closure/0.1",
                     "block_owner_closure_signature_malformed")
           f == Link(signature.signing_key_id
                       # p.authorization.owner_signature.signing_key_id,
                     "block_owner_closure_signature_wrong_key")
           version == p.closure.closure_version = "closure/0.1"
           key == p.authorization.owner_signature.signing_key_id = GoOwner
<1>1. version => GoClosureMessage(p) = message
  BY DEF GoClosureMessage, ClosureMessage
<1>2. /\ version => GoClosureLinks(p) = (<<a, b, c>> \o goMiddle) \o <<d>>
      /\ ClosureLinks(p) = (<<a, b, e>> \o middle) \o <<f>>
      /\ WireLinks(p) = <<d>>
  BY <1>1 DEF GoClosureLinks, ClosureLinks, WireLinks
<1>3. /\ ~ e.broken <=> ~ c.broken /\ version /\ signature.signature_version = "closure/0.1"
      /\ key => (~ f.broken <=> signature.signing_key_id = GoOwner)
  BY DEF Link
<1>4. (\E S : goMiddle \in Seq(S)) /\ (\E S : middle \in Seq(S))
  BY GoSignatureLinksAreASequence, SignatureLinksAreASequence
<1>5. Unbroken(goMiddle) <=> /\ Unbroken(middle)
                             /\ signature.signature_version = "closure/0.1"
                             /\ signature.signing_key_id = GoOwner
  <2> HIDE DEF signature, message
  <2> QED
    BY GoAssumption, SignaturesCompared
<1> HIDE DEF goMiddle, middle, a, b, c, d, e, f, version, key
<1>6. /\ version =>
           (Unbroken(GoClosureLinks(p))
              <=> /\ ~ a.broken /\ ~ b.broken /\ ~ c.broken /\ Unbroken(goMiddle)
                  /\ ~ d.broken)
      /\ Unbroken(ClosureLinks(p))
           <=> ~ a.broken /\ ~ b.broken /\ ~ e.broken /\ Unbroken(middle) /\ ~ f.broken
      /\ Unbroken(WireLinks(p)) <=> ~ d.broken
  <2>1. Unbroken((<<a, b, c>> \o goMiddle) \o <<d>>)
          <=> /\ ~ a.broken /\ ~ b.broken /\ ~ c.broken /\ Unbroken(goMiddle)
              /\ ~ d.broken
    BY <1>4, ChainsHold
  <2>2. Unbroken((<<a, b, e>> \o middle) \o <<f>>)
          <=> ~ a.broken /\ ~ b.broken /\ ~ e.broken /\ Unbroken(middle) /\ ~ f.broken
    BY <1>4, ChainsHold
  <2> QED
    BY <1>2, <2>1, <2>2, LinksHold
<1>7. /\ Unbroken(ClosureLinks(p)) => version
      /\ key /\ version =>
           (Unbroken(GoClosureLinks(p))
              <=> Unbroken(ClosureLinks(p)) /\ Unbroken(WireLinks(p)))
  BY <1>3, <1>5, <1>6
<1> QED
  BY <1>7 DEF version, key

\* Every group of the second verifier.
GoAllHold(p) ==
  /\ Unbroken(GoEnvelopeLinks(p)) /\ Unbroken(GoGrantLinks(p)) /\ Unbroken(GoCustodyLinks(p))
  /\ Unbroken(GoBindingLinks(p)) /\ Unbroken(GoScopeLinks(p))
  /\ Unbroken(GoObservationLinks(p)) /\ Unbroken(GoCommitLinks(p))
  /\ Unbroken(GoClosureLinks(p))

LEMMA GoPassesWhenAllHold ==
  ASSUME NEW p
  PROVE  GoVerdict(p)[1] <=> GoAllHold(p)
<1>1. /\ GoGroups[1] = "envelope" /\ GoGroups[2] = "grant" /\ GoGroups[3] = "custody"
      /\ GoGroups[4] = "binding" /\ GoGroups[5] = "scope" /\ GoGroups[6] = "observation"
      /\ GoGroups[7] = "commit" /\ GoGroups[8] = "closure" /\ Len(GoGroups) = 8
  BY DEF GoGroups
<1>2. /\ GoLinks(p, "envelope") = GoEnvelopeLinks(p) /\ GoLinks(p, "grant") = GoGrantLinks(p)
      /\ GoLinks(p, "custody") = GoCustodyLinks(p) /\ GoLinks(p, "binding") = GoBindingLinks(p)
      /\ GoLinks(p, "scope") = GoScopeLinks(p)
      /\ GoLinks(p, "observation") = GoObservationLinks(p)
      /\ GoLinks(p, "commit") = GoCommitLinks(p) /\ GoLinks(p, "closure") = GoClosureLinks(p)
  BY DEF GoLinks
<1>3. 1..8 = {1, 2, 3, 4, 5, 6, 7, 8}
  OBVIOUS
<1>4. (\A i \in 1..8 : Unbroken(GoLinks(p, GoGroups[i]))) <=> GoAllHold(p)
  BY <1>1, <1>2, <1>3 DEF GoAllHold
<1>5. GoAllHold(p) => GoVerdict(p)[1]
  <2>1. GoAllHold(p) => GoVerdict(p) = <<TRUE, Null>>
    BY <1>1, <1>4 DEF GoVerdict
  <2>2. <<TRUE, Null>>[1] = TRUE
    OBVIOUS
  <2> QED
    BY <2>1, <2>2
<1> QED
  BY <1>4, <1>5, GoPassedLinks

\* What the boundary holds of, the first verifier reading it beside the custody record
\* and the second beside the files of the run.
LEMMA BoundariesCompared ==
  ASSUME NEW p, "owner_signature" \notin DOMAIN Null,
         {"owner_signature"} \subseteq DOMAIN p.authorization,
         Unbroken(ScopeLinks(p)), Unbroken(BindingLinks(p)), GrantFit(p.authorization)
  PROVE  LET boundary == p.custody.runner_report.os_boundary
             listed == p.custody.allowed_files
         IN  /\ LandlockHolds(boundary, listed) =>
                  (GoBoundaryContract(p)
                     <=> /\ boundary.grant_sha256 = GrantDigest(p.authorization)
                         /\ boundary.schema_version = "1.1"
                         /\ boundary.rules.spelling = "canonical")
             /\ GoBoundaryContract(p) =>
                  (LandlockHolds(boundary, listed)
                     <=> /\ p.authorization.allowed_files.paths # {}
                         /\ listed.spelling \notin {"repeated", "padded"})
<1> DEFINE boundary == p.custody.runner_report.os_boundary
           listed == p.custody.allowed_files
<1>1. p.custody.grant_sha256 = GrantDigest(p.authorization)
  BY BindingVerified
<1>2. /\ p.scope.allowed_files.paths = p.authorization.allowed_files.paths
      /\ listed.paths = p.authorization.allowed_files.paths
  BY ScopeVerified
<1>3. IsList(listed)
  <2>1. \E a, b, c : ScopeLinks(p) = <<a, b, c>>
    BY DEF ScopeLinks
  <2>2. ~ IsList(listed) => ScopeLinks(p)[1].broken
    BY DEF ScopeLinks, Link
  <2> QED
    BY <2>1, <2>2, LinksHold
<1>4. GrantDigest(p.authorization) # Null
  BY DEF GrantDigest
<1> QED
  BY <1>1, <1>2, <1>3, <1>4 DEF LandlockHolds, GoBoundaryContract, Lists

LEMMA HeadIsACommit ==
  ASSUME NEW p
  PROVE  /\ Unbroken(BindingLinks(p)) => p.implementation_head_sha \in Commits
         /\ Unbroken(CommitLinks(p)) => p.implementation_head_sha \in Commits
<1>1. (\E a, b, c, d, e : BindingLinks(p) = <<a, b, c, d, e>>)
      /\ (\E a, b, c, d, e : CommitLinks(p) = <<a, b, c, d, e>>)
  BY DEF BindingLinks, CommitLinks
<1>2. p.implementation_head_sha \notin Commits =>
        /\ BindingLinks(p)[4].broken
        /\ CommitLinks(p)[1].broken \/ CommitLinks(p)[2].broken
  BY DEF BindingLinks, CommitLinks, Link
<1> QED
  BY <1>1, <1>2, MoreLinksHold

\* All links of the one, and what the other asks for beside them.
LEMMA WhatTheyAskFor ==
  ASSUME NEW p, "owner_signature" \notin DOMAIN Null,
         {"owner_signature"} \subseteq DOMAIN p.authorization
  PROVE  LET custody == p.custody
             boundary == custody.runner_report.os_boundary
         IN  /\ AllHold(p) =>
                  (GoAllHold(p)
                     <=> /\ p.authorization.owner_signature.signing_key_id = GoOwner
                         /\ custody.signature.signing_key_id = GoCustody
                         /\ boundary.grant_sha256 = GrantDigest(p.authorization)
                         /\ boundary.schema_version = "1.1"
                         /\ boundary.rules.spelling = "canonical")
             /\ GoAllHold(p) /\ p.closure.closure_version = "closure/0.1" =>
                  (AllHold(p)
                     <=> /\ p.authorization.allowed_files.paths # {}
                         /\ custody.allowed_files.spelling \notin {"repeated", "padded"}
                         /\ custody.observed_post_worktree_entries.spelling # "padded"
                         /\ IsList(custody.observed_pre_worktree_entries))
<1> DEFINE boundary == p.custody.runner_report.os_boundary
           key == p.authorization.owner_signature.signing_key_id = GoOwner
           version == p.closure.closure_version = "closure/0.1"
<1>1. GoCustodyContract(p) => p.authorization.publication_class \in PublicationClasses
  BY DEF GoCustodyContract, PublicationClasses
<1>2. ASSUME AllHold(p)
      PROVE  GoAllHold(p)
               <=> /\ key /\ p.custody.signature.signing_key_id = GoCustody
                   /\ boundary.grant_sha256 = GrantDigest(p.authorization)
                   /\ boundary.schema_version = "1.1"
                   /\ boundary.rules.spelling = "canonical"
  <2>1. /\ GoCustodyContract(p)
        /\ p.authorization.owner_signature.signature_version = "v0.6"
        /\ LandlockHolds(boundary, p.custody.allowed_files)
    BY <1>2, ContractsCompared DEF AllHold
  <2>2. GrantFit(p.authorization) /\ p.implementation_head_sha \in Commits /\ version
    BY <1>2, GrantVerified, HeadIsACommit, ClosuresCompared DEF AllHold
  <2>3. /\ Unbroken(GoEnvelopeLinks(p)) /\ Unbroken(GoScopeLinks(p))
        /\ Unbroken(GoObservationLinks(p))
    BY <1>2, EnvelopesCompared, ScopesCompared, ObservationsCompared DEF AllHold
  <2>4. Unbroken(GoBindingLinks(p))
    BY <1>2, <2>1, <2>2, BindingsCompared DEF AllHold
  <2>5. Unbroken(GoGrantLinks(p)) <=> key
    BY <1>1, <1>2, <2>1, GrantsCompared DEF AllHold
  <2>6. Unbroken(GoCustodyLinks(p)) <=> p.custody.signature.signing_key_id = GoCustody
    BY <1>2, CustodiesCompared DEF AllHold
  <2>7. Unbroken(GoCommitLinks(p))
          <=> /\ boundary.grant_sha256 = GrantDigest(p.authorization)
              /\ boundary.schema_version = "1.1"
              /\ boundary.rules.spelling = "canonical"
    BY <1>2, <2>1, <2>2, CommitsCompared, BoundariesCompared DEF AllHold
  <2>8. key => Unbroken(GoClosureLinks(p))
    BY <1>2, <2>2, ClosuresCompared DEF AllHold
  <2> HIDE DEF key, version
  <2> QED
    BY <2>3, <2>4, <2>5, <2>6, <2>7, <2>8 DEF GoAllHold
<1>3. ASSUME GoAllHold(p), version
      PROVE  AllHold(p)
               <=> /\ p.authorization.allowed_files.paths # {}
                   /\ p.custody.allowed_files.spelling \notin {"repeated", "padded"}
                   /\ p.custody.observed_post_worktree_entries.spelling # "padded"
                   /\ IsList(p.custody.observed_pre_worktree_entries)
  <2>1. Unbroken(CommitLinks(p)) /\ GoBoundaryContract(p)
    BY <1>3, CommitsCompared DEF GoAllHold
  <2>2. GoCustodyContract(p) /\ Unbroken(BindingLinks(p))
    BY <1>3, <2>1, HeadIsACommit, BindingsCompared DEF GoAllHold
  <2>3. /\ Unbroken(GrantLinks(p)) /\ key
        /\ p.authorization.owner_signature.signature_version = "v0.6"
    BY <1>1, <1>3, <2>2, GrantsCompared DEF GoAllHold
  <2>4. GrantFit(p.authorization)
    BY <2>3, GrantVerified
  <2>5. /\ Unbroken(ParseLinks(p)) /\ Unbroken(EnvelopeLinks(p))
        /\ Unbroken(CustodyLinks(p)) /\ Unbroken(ScopeLinks(p))
    BY <1>3, EnvelopesCompared, CustodiesCompared, ScopesCompared DEF GoAllHold
  <2>6. Unbroken(ClosureLinks(p)) /\ Unbroken(WireLinks(p))
    BY <1>3, <2>3, ClosuresCompared DEF GoAllHold
  <2>7. Unbroken(ContractLinks(p))
          <=> /\ p.authorization.allowed_files.paths # {}
              /\ p.custody.allowed_files.spelling \notin {"repeated", "padded"}
    BY <2>1, <2>2, <2>3, <2>4, <2>5, ContractsCompared, BoundariesCompared
  <2>8. Unbroken(ObservationLinks(p))
          <=> /\ p.custody.observed_post_worktree_entries.spelling # "padded"
              /\ IsList(p.custody.observed_pre_worktree_entries)
    BY <1>3, ObservationsCompared DEF GoAllHold
  <2> QED
    BY <2>1, <2>2, <2>3, <2>5, <2>6, <2>7, <2>8 DEF AllHold
<1> QED
  BY <1>2, <1>3

\* An answer is the answer: a passport that does not pass has a broken link.
AnswerStands == at = "done" /\ ~ Passed => ~ AllHold(passport)

LEMMA AnswersKept == Spec => [](IInv /\ AnswerStands)
<1>1. Init => AnswerStands
  BY DEF Init, AnswerStands
<1>2. IInv /\ AnswerStands /\ [Next]_vars => AnswerStands'
  <2> SUFFICES ASSUME IInv, AnswerStands, [Next]_vars, at' = "done", ~ Passed'
               PROVE  ~ AllHold(passport')
    BY DEF AnswerStands
  <2>1. CASE Edit \/ SignGrant \/ SignCustody \/ Close \/ Start \/ Again
    BY <2>1 DEF Edit, SignGrant, SignCustody, Close, Start, Again
  <2>2. CASE UNCHANGED vars
    BY <2>2 DEF vars, AnswerStands, Passed, AllHold
  <2>3. CASE Pass
    BY <2>3 DEF Pass, Passed
  <2>4. ASSUME NEW stage, NEW links, NEW next, next # "done", Check(stage, links, next)
        PROVE  passport' = passport /\ ~ Unbroken(links)
    BY <2>4 DEF Check
  <2>5. CASE Verify /\ ~ Pass
    <3>1. /\ passport' = passport
          /\ \/ ~ Unbroken(ParseLinks(passport)) \/ ~ Unbroken(EnvelopeLinks(passport))
             \/ ~ Unbroken(GrantLinks(passport)) \/ ~ Unbroken(CustodyLinks(passport))
             \/ ~ Unbroken(ContractLinks(passport)) \/ ~ Unbroken(BindingLinks(passport))
             \/ ~ Unbroken(ScopeLinks(passport)) \/ ~ Unbroken(ObservationLinks(passport))
             \/ ~ Unbroken(CommitLinks(passport)) \/ ~ Unbroken(ClosureLinks(passport))
             \/ ~ Unbroken(WireLinks(passport))
      BY <2>4, <2>5 DEF Verify, CheckParse, CheckEnvelope, CheckGrant, CheckCustody,
         CheckContract, CheckBinding, CheckScope, CheckObservation, CheckCommit,
         CheckClosure, CheckWire
    <3> QED
      BY <3>1 DEF AllHold
  <2> QED
    BY <2>1, <2>2, <2>3, <2>5 DEF Next
<1> QED
  BY <1>1, <1>2, InitIInv, NextKeeps, PTL DEF Spec

\* "Readers can run either the Python verifier above or the Go verifier"
\* (docs/verify.md:108): where the two differ, whatever is published, edited and signed
\* again.  JSON null is no object and has no members: of a model value TLC cannot ask
\* that, so it is said here and not in an ASSUME of the module.
THEOREM VerdictsCompared ==
  ASSUME "owner_signature" \notin DOMAIN Null
  PROVE  Spec => []VerifiersDiffer
<1>1. IInv /\ AnswerStands => VerifiersDiffer
  <2> SUFFICES ASSUME IInv, AnswerStands, at = "done" PROVE VerifiersDiffer
    BY DEF VerifiersDiffer
  <2> DEFINE custody == passport.custody
             boundary == custody.runner_report.os_boundary
  <2>1. {"owner_signature"} \subseteq DOMAIN passport.authorization
    BY DEF IInv, TypeOK, IsPassport
  <2>2. Passed <=> AllHold(passport)
    <3>1. Passed => AllHold(passport)
      BY DEF IInv, ChecksOK, Verified, AllHold
    <3> QED
      BY <3>1 DEF AnswerStands
  <2>3. GoPassed <=> GoAllHold(passport)
    BY GoPassesWhenAllHold DEF GoPassed
  <2>4. Passed => shown = passport.authorization.owner_signature.signing_key_id
    BY DEF IInv, AnswersOK
  <2>5. GoPassed => passport.closure.closure_version = "closure/0.1"
    <3> DEFINE closing == passport.closure.signature.signature_hex
    <3> SUFFICES ASSUME GoPassed PROVE passport.closure.closure_version = "closure/0.1"
      OBVIOUS
    <3>1. closing # Garbled /\ closing = Signature(GoOwner, GoClosureMessage(passport))
      BY <2>3, GoClosureVerified DEF GoAllHold
    <3>2. closing \in Hexes(passport)
      BY DEF Hexes
    <3> HIDE DEF closing
    <3>3. GoOwner # Null
      BY GoAssumption, PassportAssumption DEF AnchorsAssumption
    <3>4. closing \in signed
      BY <3>1, <3>2, <3>3, GoVerifiedWasMade
    <3>5. closing.over.kind = "closure"
          /\ closing.over.version = passport.closure.closure_version
      BY <3>1 DEF Signature, GoClosureMessage
    <3> QED
      BY <3>4, <3>5 DEF IInv, ClosuresOK
  <2> QED
    BY <2>1, <2>2, <2>3, <2>4, <2>5, WhatTheyAskFor DEF VerifiersDiffer
<1> QED
  BY AnswersKept, <1>1, PTL
-----------------------------------------------------------------------------
(* The mutation corpus: the answer of a verifier is the reason of the first *)
(* broken link of the first group that breaks.                              *)

Gives(links, r) == ~ Unbroken(links) /\ FirstBroken(links) = r

\* The reason a group gives, or else what comes after it.
Otherwise(links, later) == IF Unbroken(links) THEN later ELSE FirstBroken(links)

Refusal(p) ==
  Otherwise(ParseLinks(p), Otherwise(EnvelopeLinks(p), Otherwise(GrantLinks(p),
  Otherwise(CustodyLinks(p), Otherwise(ContractLinks(p), Otherwise(BindingLinks(p),
  Otherwise(ScopeLinks(p), Otherwise(ObservationLinks(p), Otherwise(CommitLinks(p),
  Otherwise(ClosureLinks(p), Otherwise(WireLinks(p), Null)))))))))))

GoRefusal(p) ==
  Otherwise(GoEnvelopeLinks(p), Otherwise(GoGrantLinks(p), Otherwise(GoCustodyLinks(p),
  Otherwise(GoBindingLinks(p), Otherwise(GoScopeLinks(p), Otherwise(GoObservationLinks(p),
  Otherwise(GoCommitLinks(p), Otherwise(GoClosureLinks(p), Null))))))))

\* A passport the first verifier refuses with r, and one the second does.
Told(p, r) == ~ AllHold(p) /\ Refusal(p) = r
GoTold(p, r) == ~ GoAllHold(p) /\ GoRefusal(p) = r

\* A link that is broken after links that hold is the one whose reason is given.
LEMMA FirstIs ==
  ASSUME NEW links, \E S : links \in Seq(S), NEW k \in DOMAIN links, links[k].broken,
         \A j \in 1..(k - 1) : ~ links[j].broken
  PROVE  Gives(links, links[k].reason)
<1>1. ~ Unbroken(links)
  BY DEF Unbroken
<1>2. PICK i \in DOMAIN links : /\ links[i].broken
                                /\ \A j \in 1..(i - 1) : ~ links[j].broken
                                /\ FirstBroken(links) = links[i].reason
  BY <1>1, FirstBrokenIsALink
<1>3. i = k
  <2>1. DOMAIN links = 1..Len(links) /\ Len(links) \in Nat
    OBVIOUS
  <2>2. ~ (i < k) /\ ~ (k < i)
    BY <1>2, <2>1
  <2> QED
    BY <2>1, <2>2
<1> QED
  BY <1>1, <1>2, <1>3 DEF Gives

\* A chain of two groups gives the reason of the first, or of the second when the first
\* holds.
LEMMA GivesLater ==
  ASSUME NEW first, NEW second, \E S : first \in Seq(S), \E S : second \in Seq(S), NEW r
  PROVE  /\ Gives(first, r) => Gives(first \o second, r)
         /\ Unbroken(first) /\ Gives(second, r) => Gives(first \o second, r)
<1> DEFINE links == first \o second
<1>1. PICK S, T : first \in Seq(S) /\ second \in Seq(T)
  OBVIOUS
<1>2. first \in Seq(S \cup T) /\ second \in Seq(S \cup T)
  BY <1>1
<1>3. /\ links \in Seq(S \cup T) /\ Len(links) = Len(first) + Len(second)
      /\ \A i \in 1..Len(first) : links[i] = first[i]
      /\ \A i \in 1..Len(second) : links[Len(first) + i] = second[i]
      /\ DOMAIN first = 1..Len(first) /\ DOMAIN second = 1..Len(second)
      /\ DOMAIN links = 1..Len(links) /\ Len(first) \in Nat /\ Len(second) \in Nat
  BY <1>2
<1>4. ASSUME Gives(first, r) PROVE Gives(links, r)
  <2>1. PICK i \in DOMAIN first : /\ first[i].broken
                                  /\ \A j \in 1..(i - 1) : ~ first[j].broken
                                  /\ FirstBroken(first) = first[i].reason
    BY <1>4, FirstBrokenIsALink DEF Gives
  <2>2. i \in DOMAIN links /\ links[i] = first[i] /\ i \in Nat
    BY <1>3, <2>1
  <2>3. \A j \in 1..(i - 1) : ~ links[j].broken
    <3>1. \A j \in 1..(i - 1) : j \in 1..Len(first)
      BY <1>3, <2>1
    <3> QED
      BY <1>3, <2>1, <3>1
  <2> HIDE DEF links
  <2>4. Gives(links, links[i].reason)
    BY <1>3, <2>1, <2>2, <2>3, FirstIs
  <2> QED
    BY <1>4, <2>1, <2>2, <2>4 DEF Gives
<1>5. ASSUME Unbroken(first), Gives(second, r) PROVE Gives(links, r)
  <2>1. PICK i \in DOMAIN second : /\ second[i].broken
                                   /\ \A j \in 1..(i - 1) : ~ second[j].broken
                                   /\ FirstBroken(second) = second[i].reason
    BY <1>5, FirstBrokenIsALink DEF Gives
  <2> DEFINE k == Len(first) + i
  <2>2. k \in DOMAIN links /\ links[k] = second[i]
    BY <1>3, <2>1
  <2>3. \A j \in 1..(k - 1) : ~ links[j].broken
    <3> SUFFICES ASSUME NEW j \in 1..(k - 1) PROVE ~ links[j].broken
      OBVIOUS
    <3>1. CASE j \in 1..Len(first)
      BY <1>3, <1>5, <3>1 DEF Unbroken
    <3>2. CASE j \notin 1..Len(first)
      <4>1. j - Len(first) \in 1..(i - 1) /\ i \in Nat /\ j \in Nat
        BY <1>3, <2>1, <3>2
      <4>2. j - Len(first) \in 1..Len(second) /\ j = Len(first) + (j - Len(first))
        BY <1>3, <2>1, <4>1
      <4>3. links[j] = second[j - Len(first)]
        BY <1>3, <4>2
      <4> QED
        BY <2>1, <4>1, <4>3
    <3> QED
      BY <3>1, <3>2
  <2> HIDE DEF links, k
  <2>4. Gives(links, links[k].reason)
    BY <1>3, <2>1, <2>2, <2>3, FirstIs
  <2> QED
    BY <1>5, <2>1, <2>2, <2>4 DEF Gives
<1> QED
  BY <1>4, <1>5

\* A refusal is the reason of the first group that breaks.
RefusalStands == at = "done" /\ ~ Passed => verdict = <<FALSE, Refusal(passport)>>

\* At each check, the groups before it held.
LEMMA EarlierGroupsHold ==
  ASSUME IInv
  PROVE  /\ at \in {"envelope", "grant", "custody", "contract", "binding", "scope",
                    "observation", "commit", "closure", "wire"}
              => Unbroken(ParseLinks(passport))
         /\ at \in {"grant", "custody", "contract", "binding", "scope", "observation",
                    "commit", "closure", "wire"}
              => Unbroken(EnvelopeLinks(passport))
         /\ at \in {"custody", "contract", "binding", "scope", "observation", "commit",
                    "closure", "wire"}
              => Unbroken(GrantLinks(passport))
         /\ at \in {"contract", "binding", "scope", "observation", "commit", "closure", "wire"}
              => Unbroken(CustodyLinks(passport))
         /\ at \in {"binding", "scope", "observation", "commit", "closure", "wire"}
              => Unbroken(ContractLinks(passport))
         /\ at \in {"scope", "observation", "commit", "closure", "wire"}
              => Unbroken(BindingLinks(passport))
         /\ at \in {"observation", "commit", "closure", "wire"}
              => Unbroken(ScopeLinks(passport))
         /\ at \in {"commit", "closure", "wire"} => Unbroken(ObservationLinks(passport))
         /\ at \in {"closure", "wire"} => Unbroken(CommitLinks(passport))
         /\ at = "wire" => Unbroken(ClosureLinks(passport))
BY RankOfStages DEF IInv, ChecksOK, Verified

\* A refusal is the reason of the first group that breaks, in every state.
LEMMA RefusalsKeptFirst == Spec => [](IInv /\ RefusalStands)
<1>1. Init => RefusalStands
  BY DEF Init, RefusalStands
<1>2. IInv /\ RefusalStands /\ [Next]_vars => RefusalStands'
  <2> SUFFICES ASSUME IInv, RefusalStands, [Next]_vars, at' = "done", ~ Passed'
               PROVE  verdict' = <<FALSE, Refusal(passport')>>
    BY DEF RefusalStands
  <2>1. CASE Edit \/ SignGrant \/ SignCustody \/ Close \/ Start \/ Again
    BY <2>1 DEF Edit, SignGrant, SignCustody, Close, Start, Again
  <2>2. CASE UNCHANGED vars
    BY <2>2 DEF vars, RefusalStands, Passed
  <2>3. CASE Pass
    BY <2>3 DEF Pass, Passed
  <2>4. ASSUME NEW stage, NEW links, NEW next, next # "done", Check(stage, links, next),
               ~ Unbroken(links) => Refusal(passport) = FirstBroken(links)
        PROVE  verdict' = <<FALSE, Refusal(passport')>>
    BY <2>4 DEF Check
  <2>5. CASE Verify /\ ~ Pass
    <3>1. CASE CheckParse
      BY <2>4, <3>1 DEF CheckParse, Refusal, Otherwise
    <3>2. CASE CheckEnvelope
      BY <2>4, <3>2, EarlierGroupsHold DEF CheckEnvelope, Check, Refusal, Otherwise
    <3>3. CASE CheckGrant
      BY <2>4, <3>3, EarlierGroupsHold DEF CheckGrant, Check, Refusal, Otherwise
    <3>4. CASE CheckCustody
      BY <2>4, <3>4, EarlierGroupsHold DEF CheckCustody, Check, Refusal, Otherwise
    <3>5. CASE CheckContract
      BY <2>4, <3>5, EarlierGroupsHold DEF CheckContract, Check, Refusal, Otherwise
    <3>6. CASE CheckBinding
      BY <2>4, <3>6, EarlierGroupsHold DEF CheckBinding, Check, Refusal, Otherwise
    <3>7. CASE CheckScope
      BY <2>4, <3>7, EarlierGroupsHold DEF CheckScope, Check, Refusal, Otherwise
    <3>8. CASE CheckObservation
      BY <2>4, <3>8, EarlierGroupsHold DEF CheckObservation, Check, Refusal, Otherwise
    <3>9. CASE CheckCommit
      BY <2>4, <3>9, EarlierGroupsHold DEF CheckCommit, Check, Refusal, Otherwise
    <3>10. CASE CheckClosure
      BY <2>4, <3>10, EarlierGroupsHold DEF CheckClosure, Check, Refusal, Otherwise
    <3>11. CASE CheckWire
      BY <2>4, <3>11, EarlierGroupsHold DEF CheckWire, Check, Refusal, Otherwise
    <3> QED
      BY <2>5, <3>1, <3>2, <3>3, <3>4, <3>5, <3>6, <3>7, <3>8, <3>9, <3>10, <3>11 DEF Verify
  <2> QED
    BY <2>1, <2>2, <2>3, <2>5 DEF Next
<1> QED
  BY <1>1, <1>2, InitIInv, NextKeeps, PTL DEF Spec

\* The answer of the second verifier, group by group.
LEMMA GoAnswers ==
  ASSUME NEW p
  PROVE  GoVerdict(p) = IF GoAllHold(p) THEN <<TRUE, Null>> ELSE <<FALSE, GoRefusal(p)>>
<1> DEFINE Breaks(j) == /\ \A k \in 1..(j - 1) : Unbroken(GoLinks(p, GoGroups[k]))
                        /\ ~ Unbroken(GoLinks(p, GoGroups[j]))
           first == CHOOSE j \in 1..Len(GoGroups) : Breaks(j)
           All == \A i \in 1..Len(GoGroups) : Unbroken(GoLinks(p, GoGroups[i]))
<1>1. /\ GoGroups[1] = "envelope" /\ GoGroups[2] = "grant" /\ GoGroups[3] = "custody"
      /\ GoGroups[4] = "binding" /\ GoGroups[5] = "scope" /\ GoGroups[6] = "observation"
      /\ GoGroups[7] = "commit" /\ GoGroups[8] = "closure" /\ Len(GoGroups) = 8
  BY DEF GoGroups
<1>2. /\ GoLinks(p, "envelope") = GoEnvelopeLinks(p) /\ GoLinks(p, "grant") = GoGrantLinks(p)
      /\ GoLinks(p, "custody") = GoCustodyLinks(p) /\ GoLinks(p, "binding") = GoBindingLinks(p)
      /\ GoLinks(p, "scope") = GoScopeLinks(p)
      /\ GoLinks(p, "observation") = GoObservationLinks(p)
      /\ GoLinks(p, "commit") = GoCommitLinks(p) /\ GoLinks(p, "closure") = GoClosureLinks(p)
  BY DEF GoLinks
<1>3. 1..8 = {1, 2, 3, 4, 5, 6, 7, 8}
  OBVIOUS
<1>4. All <=> GoAllHold(p)
  BY <1>1, <1>2, <1>3 DEF GoAllHold
<1>5. GoVerdict(p) = IF All THEN <<TRUE, Null>>
                            ELSE <<FALSE, FirstBroken(GoLinks(p, GoGroups[first]))>>
  BY DEF GoVerdict
<1>6. ASSUME ~ All PROVE FirstBroken(GoLinks(p, GoGroups[first])) = GoRefusal(p)
  <2> DEFINE T == {j \in 1..8 : ~ Unbroken(GoLinks(p, GoGroups[j]))}
  <2>1. T \subseteq Nat /\ T # {}
    BY <1>1, <1>6
  <2>2. PICK i \in T : \A j \in T : ~ (j < i)
    <3> HIDE DEF T
    <3> QED
      BY <2>1, Least
  <2>3. i \in 1..Len(GoGroups) /\ Breaks(i)
    <3>1. \A k \in 1..(i - 1) : k \in 1..8 /\ k < i
      BY <2>2
    <3> QED
      BY <1>1, <2>2, <3>1
  <2>4. first \in 1..Len(GoGroups) /\ Breaks(first)
    <3> HIDE DEF Breaks
    <3> QED
      BY <2>3
  <2>5. first \in {1, 2, 3, 4, 5, 6, 7, 8}
    BY <1>1, <1>3, <2>4
  <2>6. /\ ~ Unbroken(GoLinks(p, GoGroups[first]))
        /\ \A k \in {1, 2, 3, 4, 5, 6, 7, 8} :
             k < first => Unbroken(GoLinks(p, GoGroups[k]))
    <3>1. \A k \in {1, 2, 3, 4, 5, 6, 7, 8} : k < first => k \in 1..(first - 1)
      <4> HIDE DEF first
      <4> QED
        BY <2>5
    <3> QED
      BY <2>4, <3>1
  <2> HIDE DEF first
  <2>7. CASE first = 1
    BY <1>1, <1>2, <2>6, <2>7 DEF GoRefusal, Otherwise
  <2>8. CASE first = 2
    BY <1>1, <1>2, <2>6, <2>8 DEF GoRefusal, Otherwise
  <2>9. CASE first = 3
    BY <1>1, <1>2, <2>6, <2>9 DEF GoRefusal, Otherwise
  <2>10. CASE first = 4
    BY <1>1, <1>2, <2>6, <2>10 DEF GoRefusal, Otherwise
  <2>11. CASE first = 5
    BY <1>1, <1>2, <2>6, <2>11 DEF GoRefusal, Otherwise
  <2>12. CASE first = 6
    BY <1>1, <1>2, <2>6, <2>12 DEF GoRefusal, Otherwise
  <2>13. CASE first = 7
    BY <1>1, <1>2, <2>6, <2>13 DEF GoRefusal, Otherwise
  <2>14. CASE first = 8
    BY <1>1, <1>2, <2>6, <2>14 DEF GoRefusal, Otherwise
  <2> QED
    BY <2>5, <2>7, <2>8, <2>9, <2>10, <2>11, <2>12, <2>13, <2>14
<1> HIDE DEF All, first
<1> QED
  BY <1>4, <1>5, <1>6

-----------------------------------------------------------------------------
(* A passport that differs in a few of its members: which groups stay as they were. *)

SameIn(q, p, members) == \A f \in members : q[f] = p[f]

EnvelopeMembers == {"text", "unknown_field", "missing_field", "schema_version",
                    "sections_closed"}
ContractMembers == EnvelopeMembers \cup {"authorization", "custody", "roadmap_step"}
BindingMembers == ContractMembers \cup {"run_id", "execution_id", "implementation_head_sha"}
ObservationMembers == BindingMembers \cup {"scope", "execution"}

\* What each group reads.
LEMMA GroupsRead ==
  ASSUME NEW p, NEW q
  PROVE  /\ q.text = p.text => ParseLinks(q) = ParseLinks(p)
         /\ /\ q.unknown_field = p.unknown_field /\ q.missing_field = p.missing_field
            /\ q.schema_version = p.schema_version /\ q.sections_closed = p.sections_closed
            => /\ EnvelopeLinks(q) = EnvelopeLinks(p)
               /\ q.text = p.text => GoEnvelopeLinks(q) = GoEnvelopeLinks(p)
         /\ q.authorization = p.authorization =>
              GrantLinks(q) = GrantLinks(p) /\ GoGrantLinks(q) = GoGrantLinks(p)
         /\ q.custody = p.custody =>
              CustodyLinks(q) = CustodyLinks(p) /\ GoCustodyLinks(q) = GoCustodyLinks(p)
         /\ /\ q.authorization = p.authorization /\ q.custody = p.custody
            => /\ q.roadmap_step = p.roadmap_step => ContractLinks(q) = ContractLinks(p)
               /\ /\ q.roadmap_step = p.roadmap_step /\ q.run_id = p.run_id
                  /\ q.execution_id = p.execution_id
                  /\ q.implementation_head_sha = p.implementation_head_sha
                  => BindingLinks(q) = BindingLinks(p) /\ GoBindingLinks(q) = GoBindingLinks(p)
               /\ q.scope = p.scope =>
                    ScopeLinks(q) = ScopeLinks(p) /\ GoScopeLinks(q) = GoScopeLinks(p)
         /\ q.custody = p.custody /\ q.scope = p.scope /\ q.execution = p.execution =>
              /\ ObservationLinks(q) = ObservationLinks(p)
              /\ GoObservationLinks(q) = GoObservationLinks(p)
              /\ /\ q.implementation_head_sha = p.implementation_head_sha
                 /\ q.committed_binding = p.committed_binding
                 => CommitLinks(q) = CommitLinks(p) /\ GoCommitLinks(q) = GoCommitLinks(p)
<1>1. q.text = p.text => ParseLinks(q) = ParseLinks(p)
  BY DEF ParseLinks
<1>2. /\ q.unknown_field = p.unknown_field /\ q.missing_field = p.missing_field
      /\ q.schema_version = p.schema_version /\ q.sections_closed = p.sections_closed
      => /\ EnvelopeLinks(q) = EnvelopeLinks(p)
         /\ q.text = p.text => GoEnvelopeLinks(q) = GoEnvelopeLinks(p)
  BY DEF EnvelopeLinks, GoEnvelopeLinks
<1>3. ASSUME q.authorization = p.authorization
      PROVE  GrantLinks(q) = GrantLinks(p) /\ GoGrantLinks(q) = GoGrantLinks(p)
  <2>1. GrantLinks(q) = GrantLinks(p)
    BY <1>3, Zenon DEF GrantLinks
  <2>2. GoGrantLinks(q) = GoGrantLinks(p)
    BY <1>3, SMT DEF GoGrantLinks
  <2> QED
    BY <2>1, <2>2
<1>4. q.custody = p.custody =>
        CustodyLinks(q) = CustodyLinks(p) /\ GoCustodyLinks(q) = GoCustodyLinks(p)
  BY DEF CustodyLinks, GoCustodyLinks
<1>5. /\ q.authorization = p.authorization /\ q.custody = p.custody
      /\ q.roadmap_step = p.roadmap_step
      => ContractLinks(q) = ContractLinks(p) /\ GoCustodyContract(q) = GoCustodyContract(p)
  BY DEF ContractLinks, GoCustodyContract
<1>6. /\ q.authorization = p.authorization /\ q.custody = p.custody
      /\ q.roadmap_step = p.roadmap_step /\ q.run_id = p.run_id
      /\ q.execution_id = p.execution_id
      /\ q.implementation_head_sha = p.implementation_head_sha
      => BindingLinks(q) = BindingLinks(p) /\ GoBindingLinks(q) = GoBindingLinks(p)
  BY <1>5 DEF BindingLinks, GoBindingLinks
<1>7. /\ q.authorization = p.authorization /\ q.custody = p.custody /\ q.scope = p.scope
      => ScopeLinks(q) = ScopeLinks(p) /\ GoScopeLinks(q) = GoScopeLinks(p)
  BY DEF ScopeLinks, GoScopeLinks
<1>8. q.custody = p.custody /\ q.scope = p.scope /\ q.execution = p.execution =>
        /\ ObservationLinks(q) = ObservationLinks(p)
        /\ GoObservationLinks(q) = GoObservationLinks(p)
  BY DEF ObservationLinks, GoObservationLinks
<1>9. ASSUME q.committed_binding = p.committed_binding, q.scope = p.scope,
             q.implementation_head_sha = p.implementation_head_sha,
             q.execution = p.execution, q.custody = p.custody
      PROVE  CommitLinks(q) = CommitLinks(p) /\ GoCommitLinks(q) = GoCommitLinks(p)
  <2>1. CommitLinks(q) = CommitLinks(p)
    BY <1>9, SMT DEF CommitLinks, Link
  <2>2. GoBoundaryContract(q) = GoBoundaryContract(p)
    BY <1>9, Zenon DEF GoBoundaryContract
  <2>3. GoCommitLinks(q) = GoCommitLinks(p)
    BY <1>9, <2>2, SMT DEF GoCommitLinks, Link
  <2> QED
    BY <2>1, <2>3
<1> QED
  BY <1>1, <1>2, <1>3, <1>4, <1>5, <1>6, <1>7, <1>8, <1>9

\* Which groups stay when these members do.
LEMMA GroupsStay ==
  ASSUME NEW p, NEW q
  PROVE  /\ SameIn(q, p, EnvelopeMembers) =>
              /\ ParseLinks(q) = ParseLinks(p) /\ EnvelopeLinks(q) = EnvelopeLinks(p)
              /\ GoEnvelopeLinks(q) = GoEnvelopeLinks(p)
         /\ SameIn(q, p, {"authorization"}) =>
              GrantLinks(q) = GrantLinks(p) /\ GoGrantLinks(q) = GoGrantLinks(p)
         /\ SameIn(q, p, {"custody"}) =>
              CustodyLinks(q) = CustodyLinks(p) /\ GoCustodyLinks(q) = GoCustodyLinks(p)
         /\ SameIn(q, p, ContractMembers) => ContractLinks(q) = ContractLinks(p)
         /\ SameIn(q, p, BindingMembers) =>
              BindingLinks(q) = BindingLinks(p) /\ GoBindingLinks(q) = GoBindingLinks(p)
         /\ SameIn(q, p, BindingMembers \cup {"scope"}) =>
              ScopeLinks(q) = ScopeLinks(p) /\ GoScopeLinks(q) = GoScopeLinks(p)
         /\ SameIn(q, p, ObservationMembers) =>
              /\ ObservationLinks(q) = ObservationLinks(p)
              /\ GoObservationLinks(q) = GoObservationLinks(p)
         /\ SameIn(q, p, ObservationMembers \cup {"committed_binding"}) =>
              CommitLinks(q) = CommitLinks(p) /\ GoCommitLinks(q) = GoCommitLinks(p)
BY GroupsRead
DEF SameIn, EnvelopeMembers, ContractMembers, BindingMembers, ObservationMembers

\* The two verifiers both refuse q, made of p, with r; the second, if it passes p.
Tells(p, q, r) == Told(q, r) /\ (GoAllHold(p) => GoTold(q, r))

\* A group that breaks after groups that stay: what is refused is told by its reason.
\* First, what does not parse.
LEMMA ToldAtParse ==
  ASSUME NEW p, NEW q, NEW r, Gives(ParseLinks(q), r)
  PROVE  Tells(p, q, r)
<1>1. GoEnvelopeLinks(q) = ParseLinks(q) \o EnvelopeLinks(q)
  BY DEF GoEnvelopeLinks, ParseLinks, EnvelopeLinks
<1>2. Gives(GoEnvelopeLinks(q), r)
  BY <1>1, EarlyGroups, GivesLater
<1> QED
  BY <1>2 DEF Tells, Told, GoTold, Gives, AllHold, GoAllHold, Refusal, GoRefusal, Otherwise

\* The same at the envelope.
LEMMA ToldAtEnvelope ==
  ASSUME NEW p, NEW q, NEW r, Unbroken(ParseLinks(p)), SameIn(q, p, {"text"}),
         Gives(EnvelopeLinks(q), r)
  PROVE  Tells(p, q, r)
<1>1. GoEnvelopeLinks(q) = ParseLinks(q) \o EnvelopeLinks(q)
  BY DEF GoEnvelopeLinks, ParseLinks, EnvelopeLinks
<1>2. Unbroken(ParseLinks(q))
  BY DEF SameIn, ParseLinks
<1>3. Gives(GoEnvelopeLinks(q), r)
  BY <1>1, <1>2, EarlyGroups, GivesLater
<1> QED
  BY <1>2, <1>3
  DEF Tells, Told, GoTold, Gives, AllHold, GoAllHold, Refusal, GoRefusal, Otherwise

\* The same at the grant.
LEMMA ToldAtGrant ==
  ASSUME NEW p, NEW q, NEW r, AllHold(p), SameIn(q, p, EnvelopeMembers),
         Gives(GrantLinks(q), r), GoAllHold(p) => Gives(GoGrantLinks(q), r)
  PROVE  Tells(p, q, r)
BY GroupsStay
DEF Tells, Told, GoTold, Gives, AllHold, GoAllHold, Refusal, GoRefusal, Otherwise

\* The same at the custody record.
LEMMA ToldAtCustody ==
  ASSUME NEW p, NEW q, NEW r, AllHold(p), SameIn(q, p, EnvelopeMembers \cup {"authorization"}),
         Gives(CustodyLinks(q), r), GoAllHold(p) => Gives(GoCustodyLinks(q), r)
  PROVE  Tells(p, q, r)
<1>1. SameIn(q, p, EnvelopeMembers) /\ SameIn(q, p, {"authorization"})
  BY DEF SameIn
<1> QED
  BY <1>1, GroupsStay
  DEF Tells, Told, GoTold, Gives, AllHold, GoAllHold, Refusal, GoRefusal, Otherwise

\* What stays for a later group stays for those before it.
LEMMA SameInAll ==
  ASSUME NEW p, NEW q
  PROVE  /\ SameIn(q, p, ObservationMembers) => SameIn(q, p, BindingMembers \cup {"scope"})
         /\ SameIn(q, p, BindingMembers \cup {"scope"}) => SameIn(q, p, BindingMembers)
         /\ SameIn(q, p, BindingMembers) => SameIn(q, p, ContractMembers)
         /\ SameIn(q, p, ContractMembers) =>
              SameIn(q, p, EnvelopeMembers \cup {"authorization", "custody"})
         /\ SameIn(q, p, EnvelopeMembers \cup {"authorization", "custody"}) =>
              /\ SameIn(q, p, EnvelopeMembers)
              /\ SameIn(q, p, {"authorization"}) /\ SameIn(q, p, {"custody"})
BY DEF SameIn, ObservationMembers, BindingMembers, ContractMembers

\* The same at the contract, which the second verifier reads with the bindings.
LEMMA ToldAtContract ==
  ASSUME NEW p, NEW q, NEW r, AllHold(p),
         SameIn(q, p, EnvelopeMembers \cup {"authorization", "custody"}),
         Gives(ContractLinks(q), r), GoAllHold(p) => Gives(GoBindingLinks(q), r)
  PROVE  Tells(p, q, r)
BY GroupsStay, SameInAll
DEF Tells, Told, GoTold, Gives, AllHold, GoAllHold, Refusal, GoRefusal, Otherwise

\* The same at the bindings.
LEMMA ToldAtBinding ==
  ASSUME NEW p, NEW q, NEW r, AllHold(p), SameIn(q, p, ContractMembers),
         Gives(BindingLinks(q), r), GoAllHold(p) => Gives(GoBindingLinks(q), r)
  PROVE  Tells(p, q, r)
BY GroupsStay, SameInAll
DEF Tells, Told, GoTold, Gives, AllHold, GoAllHold, Refusal, GoRefusal, Otherwise

\* The same at the scope.
LEMMA ToldAtScope ==
  ASSUME NEW p, NEW q, NEW r, AllHold(p), SameIn(q, p, BindingMembers),
         Gives(ScopeLinks(q), r), GoAllHold(p) => Gives(GoScopeLinks(q), r)
  PROVE  Tells(p, q, r)
BY GroupsStay, SameInAll
DEF Tells, Told, GoTold, Gives, AllHold, GoAllHold, Refusal, GoRefusal, Otherwise

\* The same at what was observed.
LEMMA ToldAtObservation ==
  ASSUME NEW p, NEW q, NEW r, AllHold(p), SameIn(q, p, BindingMembers \cup {"scope"}),
         Gives(ObservationLinks(q), r), GoAllHold(p) => Gives(GoObservationLinks(q), r)
  PROVE  Tells(p, q, r)
BY GroupsStay, SameInAll
DEF Tells, Told, GoTold, Gives, AllHold, GoAllHold, Refusal, GoRefusal, Otherwise

\* The same at the commit.
LEMMA ToldAtCommit ==
  ASSUME NEW p, NEW q, NEW r, AllHold(p), SameIn(q, p, ObservationMembers),
         Gives(CommitLinks(q), r), GoAllHold(p) => Gives(GoCommitLinks(q), r)
  PROVE  Tells(p, q, r)
BY GroupsStay, SameInAll
DEF Tells, Told, GoTold, Gives, AllHold, GoAllHold, Refusal, GoRefusal, Otherwise

\* The same at the closure.
LEMMA ToldAtClosure ==
  ASSUME NEW p, NEW q, NEW r, AllHold(p), SameIn(q, p, ObservationMembers),
         Unbroken(CommitLinks(q)), GoAllHold(p) => Unbroken(GoCommitLinks(q)),
         Gives(ClosureLinks(q), r), GoAllHold(p) => Gives(GoClosureLinks(q), r)
  PROVE  Tells(p, q, r)
BY GroupsStay, SameInAll
DEF Tells, Told, GoTold, Gives, AllHold, GoAllHold, Refusal, GoRefusal, Otherwise

-----------------------------------------------------------------------------
(* The links of a group by their places. *)

Shaped(links, n) == (\E S : links \in Seq(S)) /\ DOMAIN links = 1..n

\* A tuple has its places.
LEMMA Tuples ==
  /\ \A a : Shaped(<<a>>, 1)
  /\ \A a, b : Shaped(<<a, b>>, 2)
  /\ \A a, b, c : Shaped(<<a, b, c>>, 3)
  /\ \A a, b, c, d : Shaped(<<a, b, c, d>>, 4)
  /\ \A a, b, c, d, e : Shaped(<<a, b, c, d, e>>, 5)
  /\ \A a, b, c, d, e, f : Shaped(<<a, b, c, d, e, f>>, 6)
<1>1. /\ \A a : <<a>> \in Seq({a}) /\ DOMAIN <<a>> = 1..1
      /\ \A a, b : <<a, b>> \in Seq({a, b}) /\ DOMAIN <<a, b>> = 1..2
      /\ \A a, b, c : <<a, b, c>> \in Seq({a, b, c}) /\ DOMAIN <<a, b, c>> = 1..3
  OBVIOUS
<1>2. \A a, b, c, d : <<a, b, c, d>> \in Seq({a, b, c, d}) /\ DOMAIN <<a, b, c, d>> = 1..4
  OBVIOUS
<1>3. \A a, b, c, d, e :
        <<a, b, c, d, e>> \in Seq({a, b, c, d, e}) /\ DOMAIN <<a, b, c, d, e>> = 1..5
  OBVIOUS
<1>4. \A a, b, c, d, e, f :
        <<a, b, c, d, e, f>> \in Seq({a, b, c, d, e, f}) /\ DOMAIN <<a, b, c, d, e, f>> = 1..6
  OBVIOUS
<1> QED
  BY <1>1, <1>2, <1>3, <1>4, Zenon DEF Shaped

\* How many links each group has.
LEMMA GroupsAreShaped ==
  ASSUME NEW p
  PROVE  /\ Shaped(ParseLinks(p), 5) /\ Shaped(EnvelopeLinks(p), 4)
         /\ Shaped(ContractLinks(p), 5) /\ Shaped(BindingLinks(p), 5)
         /\ Shaped(ScopeLinks(p), 3) /\ Shaped(ObservationLinks(p), 2)
         /\ Shaped(CommitLinks(p), 5) /\ Shaped(WireLinks(p), 1)
         /\ Shaped(GoBindingLinks(p), 6) /\ Shaped(GoScopeLinks(p), 3)
         /\ Shaped(GoObservationLinks(p), 2) /\ Shaped(GoCommitLinks(p), 5)
<1>1. /\ \E a, b, c, d, e : ParseLinks(p) = <<a, b, c, d, e>>
      /\ \E a, b, c, d : EnvelopeLinks(p) = <<a, b, c, d>>
      /\ \E a, b, c, d, e : ContractLinks(p) = <<a, b, c, d, e>>
      /\ \E a, b, c, d, e : BindingLinks(p) = <<a, b, c, d, e>>
  BY DEF ParseLinks, EnvelopeLinks, ContractLinks, BindingLinks
<1>2. /\ \E a, b, c : ScopeLinks(p) = <<a, b, c>>
      /\ \E a, b : ObservationLinks(p) = <<a, b>>
      /\ \E a, b, c, d, e : CommitLinks(p) = <<a, b, c, d, e>>
      /\ \E a : WireLinks(p) = <<a>>
  BY DEF ScopeLinks, ObservationLinks, CommitLinks, WireLinks
<1>3. /\ \E a, b, c, d, e, f : GoBindingLinks(p) = <<a, b, c, d, e, f>>
      /\ \E a, b, c : GoScopeLinks(p) = <<a, b, c>>
  BY DEF GoBindingLinks, GoScopeLinks
<1>4. /\ \E a, b : GoObservationLinks(p) = <<a, b>>
      /\ \E a, b, c, d, e : GoCommitLinks(p) = <<a, b, c, d, e>>
  BY DEF GoObservationLinks, GoCommitLinks
<1> QED
  BY <1>1, <1>2, <1>3, <1>4, Tuples

\* The link that is named gives the reason when those before it hold.
LEMMA GivesAt ==
  ASSUME NEW n \in 1..6, NEW links, Shaped(links, n)
  PROVE  /\ links[1].broken => Gives(links, links[1].reason)
         /\ n > 1 /\ ~ links[1].broken /\ links[2].broken => Gives(links, links[2].reason)
         /\ n > 2 /\ ~ links[1].broken /\ ~ links[2].broken /\ links[3].broken
              => Gives(links, links[3].reason)
         /\ /\ n > 3 /\ ~ links[1].broken /\ ~ links[2].broken /\ ~ links[3].broken
            /\ links[4].broken
            => Gives(links, links[4].reason)
         /\ /\ n > 4 /\ ~ links[1].broken /\ ~ links[2].broken /\ ~ links[3].broken
            /\ ~ links[4].broken /\ links[5].broken
            => Gives(links, links[5].reason)
<1>1. /\ 1..(1 - 1) = {} /\ 1..(2 - 1) = {1} /\ 1..(3 - 1) = {1, 2}
      /\ 1..(4 - 1) = {1, 2, 3} /\ 1..(5 - 1) = {1, 2, 3, 4}
  OBVIOUS
<1>2. 1 \in 1..n /\ (n > 1 => 2 \in 1..n) /\ (n > 2 => 3 \in 1..n) /\ (n > 3 => 4 \in 1..n)
      /\ (n > 4 => 5 \in 1..n)
  OBVIOUS
<1>3. (\E S : links \in Seq(S)) /\ DOMAIN links = 1..n
  BY DEF Shaped
<1>4. links[1].broken => Gives(links, links[1].reason)
  BY <1>1, <1>2, <1>3, FirstIs
<1>5. n > 1 /\ ~ links[1].broken /\ links[2].broken => Gives(links, links[2].reason)
  BY <1>1, <1>2, <1>3, FirstIs
<1>6. n > 2 /\ ~ links[1].broken /\ ~ links[2].broken /\ links[3].broken
        => Gives(links, links[3].reason)
  BY <1>1, <1>2, <1>3, FirstIs
<1>7. /\ n > 3 /\ ~ links[1].broken /\ ~ links[2].broken /\ ~ links[3].broken
      /\ links[4].broken
      => Gives(links, links[4].reason)
  BY <1>1, <1>2, <1>3, FirstIs
<1>8. /\ n > 4 /\ ~ links[1].broken /\ ~ links[2].broken /\ ~ links[3].broken
      /\ ~ links[4].broken /\ links[5].broken
      => Gives(links, links[5].reason)
  BY <1>1, <1>2, <1>3, FirstIs
<1> QED
  BY <1>4, <1>5, <1>6, <1>7, <1>8

\* The bytes: what does not parse is refused where it is parsed.
LEMMA BytesTold ==
  ASSUME NEW p \in Published, NEW c \in ByteCases(p), c.mutated.text # "respaced"
  PROVE  Tells(p, c.mutated, c.expect)
<1> DEFINE q == c.mutated
           links == ParseLinks(q)
<1>1. "text" \in DOMAIN p
  BY PassportAssumption DEF PublishedAssumption, IsPassport
<1>2. \/ q.text = "unparseable" /\ c.expect = "block_run_passport_unparseable"
      \/ q.text = "duplicate_key" /\ c.expect = "block_run_passport_duplicate_key"
      \/ q.text = "trailing_content" /\ c.expect = "block_run_passport_trailing_content"
      \/ q.text = "not_object" /\ c.expect = "block_run_passport_not_object"
      \/ q.text = "unreadable" /\ c.expect = "passport_unreadable"
  BY <1>1 DEF ByteCases, Case
<1>3. /\ links[1].broken <=> q.text = "unreadable"
      /\ links[2].broken <=> q.text = "duplicate_key"
      /\ links[3].broken <=> q.text = "unparseable"
      /\ links[4].broken <=> q.text = "trailing_content"
      /\ links[5].broken <=> q.text = "not_object"
  BY DEF ParseLinks, Link
<1>4. /\ links[1].reason = "passport_unreadable"
      /\ links[2].reason = "block_run_passport_duplicate_key"
      /\ links[3].reason = "block_run_passport_unparseable"
      /\ links[4].reason = "block_run_passport_trailing_content"
      /\ links[5].reason = "block_run_passport_not_object"
  BY DEF ParseLinks, Link
<1> HIDE DEF q
<1>5. Shaped(links, 5)
  BY GroupsAreShaped
<1>6. Gives(links, c.expect)
  <2> HIDE DEF links
  <2> QED
    BY <1>2, <1>3, <1>4, <1>5, GivesAt
<1>7. Tells(p, q, c.expect)
  BY <1>6, ToldAtParse
<1> QED
  BY <1>7 DEF q

\* The members of the envelope.
LEMMA EnvelopesTold ==
  ASSUME NEW p \in Published, PublishedIsSound(p), NEW c \in EnvelopeCases(p)
  PROVE  Tells(p, c.mutated, c.expect)
<1> DEFINE q == c.mutated
           links == EnvelopeLinks(q)
<1>1. {"text", "unknown_field", "missing_field", "schema_version", "sections_closed"}
        \subseteq DOMAIN p
  BY PassportAssumption DEF PublishedAssumption, IsPassport
<1>2. Unbroken(ParseLinks(p)) /\ Unbroken(EnvelopeLinks(p))
  BY DEF PublishedIsSound, AllHold
<1>3. /\ ~ p.unknown_field /\ ~ p.missing_field
      /\ p.schema_version = "deedseal-run-passport/1.0" /\ p.sections_closed
  <2>1. \A i \in {1, 2, 3, 4} : ~ EnvelopeLinks(p)[i].broken
    BY <1>2, GroupsAreShaped DEF Shaped, Unbroken
  <2>2. /\ EnvelopeLinks(p)[1].broken <=> p.unknown_field
        /\ EnvelopeLinks(p)[2].broken <=> p.missing_field
        /\ EnvelopeLinks(p)[3].broken <=> p.schema_version # "deedseal-run-passport/1.0"
        /\ EnvelopeLinks(p)[4].broken <=> ~ p.sections_closed
    BY DEF EnvelopeLinks, Link
  <2> QED
    BY <2>1, <2>2
<1>4. SameIn(q, p, {"text"})
  BY <1>1 DEF EnvelopeCases, Case, SameIn
<1>5. \/ q.unknown_field /\ c.expect = "block_run_passport_unknown_field"
      \/ /\ ~ q.unknown_field /\ q.missing_field
         /\ c.expect = "block_run_passport_missing_field"
      \/ /\ ~ q.unknown_field /\ ~ q.missing_field
         /\ q.schema_version # "deedseal-run-passport/1.0"
         /\ c.expect = "block_run_passport_schema_unsupported"
      \/ /\ ~ q.unknown_field /\ ~ q.missing_field
         /\ q.schema_version = "deedseal-run-passport/1.0" /\ ~ q.sections_closed
         /\ c.expect = "block_run_passport_malformed_section"
  BY <1>1, <1>3 DEF EnvelopeCases, Case
<1> HIDE DEF q
<1>6. /\ links[1].broken <=> q.unknown_field
      /\ links[2].broken <=> q.missing_field
      /\ links[3].broken <=> q.schema_version # "deedseal-run-passport/1.0"
      /\ links[4].broken <=> ~ q.sections_closed
      /\ links[1].reason = "block_run_passport_unknown_field"
      /\ links[2].reason = "block_run_passport_missing_field"
      /\ links[3].reason = "block_run_passport_schema_unsupported"
      /\ links[4].reason = "block_run_passport_malformed_section"
  BY DEF EnvelopeLinks, Link
<1>7. Shaped(links, 4)
  BY GroupsAreShaped
<1>8. Gives(links, c.expect)
  <2> HIDE DEF links
  <2> QED
    BY <1>5, <1>6, <1>7, GivesAt
<1>9. Tells(p, q, c.expect)
  BY <1>2, <1>4, <1>8, ToldAtEnvelope
<1> QED
  BY <1>9 DEF q
-----------------------------------------------------------------------------
(* The bindings: an identifier or a list that is not the signed one. *)

\* What a published passport says link for link.
LEMMA BindingsHold ==
  ASSUME NEW p, AllHold(p)
  PROVE  /\ p.custody.publication_class = "public-full-record"
         /\ p.custody.roadmap_step = "deedseal-public-run/1.0"
         /\ p.roadmap_step = p.custody.roadmap_step
         /\ p.run_id = p.authorization.run_id /\ p.run_id = p.custody.run_id
         /\ p.execution_id = p.custody.execution_id
         /\ p.implementation_head_sha = p.authorization.head_sha
         /\ LandlockHolds(p.custody.runner_report.os_boundary, p.custody.allowed_files)
         /\ GoCustodyContract(p)
<1>1. GoCustodyContract(p)
      /\ LandlockHolds(p.custody.runner_report.os_boundary, p.custody.allowed_files)
  BY ContractsCompared DEF AllHold
<1>2. \A i \in {1, 2, 3, 4, 5} : ~ BindingLinks(p)[i].broken
  BY GroupsAreShaped DEF AllHold, Shaped, Unbroken
<1>3. /\ ~ BindingLinks(p)[2].broken
           => p.run_id = p.authorization.run_id /\ p.run_id = p.custody.run_id
      /\ ~ BindingLinks(p)[3].broken => p.execution_id = p.custody.execution_id
      /\ ~ BindingLinks(p)[4].broken => p.implementation_head_sha = p.authorization.head_sha
  BY DEF BindingLinks, Link
<1> QED
  BY <1>1, <1>2, <1>3 DEF GoCustodyContract

\* The roadmap step is the one of the custody record.
LEMMA StepTold ==
  ASSUME NEW p \in Published, PublishedIsSound(p), NEW q, q = [p EXCEPT !.roadmap_step = "other"]
  PROVE  Tells(p, q, "block_custody_publication_contract_malformed")
<1>1. AllHold(p)
  BY DEF PublishedIsSound
<1>2. /\ q.roadmap_step = "other" /\ q.authorization = p.authorization
      /\ q.custody = p.custody
      /\ SameIn(q, p, EnvelopeMembers \cup {"authorization", "custody"})
  BY PassportAssumption DEF PublishedAssumption, IsPassport, SameIn, EnvelopeMembers
<1>3. \A i \in {1, 2, 3, 4, 5} : ~ ContractLinks(p)[i].broken
  BY <1>1, GroupsAreShaped DEF AllHold, Shaped, Unbroken
<1>4. /\ ContractLinks(q)[1] = ContractLinks(p)[1]
      /\ ContractLinks(q)[2] = ContractLinks(p)[2]
      /\ ContractLinks(q)[3].broken
           <=> /\ q.custody.publication_class = "public-full-record"
               /\ \/ q.authorization.allowed_scope # q.custody.target
                  \/ q.authorization.operation_class # "agent_subprocess"
                  \/ q.roadmap_step # q.custody.roadmap_step
      /\ ContractLinks(q)[3].reason = "block_custody_publication_contract_malformed"
  BY <1>2 DEF ContractLinks, Link
<1>5. Gives(ContractLinks(q), "block_custody_publication_contract_malformed")
  BY <1>1, <1>2, <1>3, <1>4, BindingsHold, GroupsAreShaped, GivesAt
<1>6. /\ GoBindingLinks(q)[1].broken <=> ~ GoCustodyContract(q)
      /\ GoBindingLinks(q)[1].reason = "block_custody_publication_contract_malformed"
  BY DEF GoBindingLinks, Link
<1>7. ~ GoCustodyContract(q)
  BY <1>2 DEF GoCustodyContract
<1>8. Gives(GoBindingLinks(q), "block_custody_publication_contract_malformed")
  BY <1>6, <1>7, GroupsAreShaped, GivesAt
<1> QED
  BY <1>1, <1>2, <1>5, <1>8, ToldAtContract

\* The three identifiers.
LEMMA IdentifiersTold ==
  ASSUME NEW p \in Published, PublishedIsSound(p), NEW q, NEW r,
         \/ /\ q = [p EXCEPT !.run_id = "different-run"]
            /\ r = "block_run_id_binding_mismatch"
         \/ /\ q = [p EXCEPT !.execution_id = "0"]
            /\ r = "block_execution_id_binding_mismatch"
         \/ /\ q = [p EXCEPT !.implementation_head_sha = ZeroCommit]
            /\ r = "block_implementation_head_binding_mismatch"
  PROVE  Tells(p, q, r)
<1>1. AllHold(p)
  BY DEF PublishedIsSound
<1>2. /\ q.authorization = p.authorization /\ q.custody = p.custody
      /\ SameIn(q, p, ContractMembers)
  BY PassportAssumption
  DEF PublishedAssumption, IsPassport, SameIn, ContractMembers, EnvelopeMembers
<1>3. \/ /\ q.run_id # p.run_id
         /\ r = "block_run_id_binding_mismatch"
      \/ /\ q.run_id = p.run_id /\ q.execution_id # p.execution_id
         /\ r = "block_execution_id_binding_mismatch"
      \/ /\ q.run_id = p.run_id /\ q.execution_id = p.execution_id
         /\ q.implementation_head_sha # p.implementation_head_sha
         /\ r = "block_implementation_head_binding_mismatch"
  BY PassportAssumption DEF PublishedAssumption, IsPassport, PublishedIsSound
<1>4. \A i \in {1, 2, 3, 4, 5} : ~ BindingLinks(p)[i].broken
  BY <1>1, GroupsAreShaped DEF AllHold, Shaped, Unbroken
<1> DEFINE links == BindingLinks(q)
           goLinks == GoBindingLinks(q)
<1>5. /\ links[1] = BindingLinks(p)[1]
      /\ links[2].broken
           <=> q.run_id # q.authorization.run_id \/ q.authorization.run_id # q.custody.run_id
      /\ links[3].broken <=> q.execution_id # q.custody.execution_id
      /\ q.implementation_head_sha # q.authorization.head_sha => links[4].broken
      /\ links[2].reason = "block_run_id_binding_mismatch"
      /\ links[3].reason = "block_execution_id_binding_mismatch"
      /\ links[4].reason = "block_implementation_head_binding_mismatch"
  BY <1>2 DEF BindingLinks, Link
<1>6. Shaped(links, 5) /\ Shaped(goLinks, 6)
  BY GroupsAreShaped
<1>7. Gives(links, r)
  <2> HIDE DEF links
  <2> QED
    BY <1>1, <1>2, <1>3, <1>4, <1>5, <1>6, BindingsHold, GivesAt
<1>8. /\ goLinks[1].broken <=> ~ GoCustodyContract(q)
      /\ goLinks[2].broken <=> BindingLinks(p)[1].broken
      /\ goLinks[3].broken <=> q.run_id # q.authorization.run_id \/ q.run_id # q.custody.run_id
      /\ goLinks[4].broken <=> q.execution_id # q.custody.execution_id
      /\ q.implementation_head_sha # q.authorization.head_sha => goLinks[5].broken
      /\ goLinks[3].reason = "block_run_id_binding_mismatch"
      /\ goLinks[4].reason = "block_execution_id_binding_mismatch"
      /\ goLinks[5].reason = "block_implementation_head_binding_mismatch"
  BY <1>2 DEF GoBindingLinks, BindingLinks, Link
<1>9. GoCustodyContract(q)
  <2>1. q.roadmap_step = p.roadmap_step
    BY <1>2 DEF SameIn, ContractMembers
  <2> QED
    BY <1>1, <1>2, <2>1, BindingsHold DEF GoCustodyContract
<1>10. Gives(goLinks, r)
  <2> HIDE DEF goLinks
  <2> QED
    BY <1>1, <1>2, <1>3, <1>4, <1>6, <1>8, <1>9, BindingsHold, GivesAt
<1> QED
  BY <1>1, <1>2, <1>7, <1>10, ToldAtBinding

\* The lists of a published passport name the files that were granted.
LEMMA ScopeHolds ==
  ASSUME NEW p, AllHold(p)
  PROVE  LET granted == p.authorization.allowed_files.paths
             scope == p.scope
         IN  /\ scope.allowed_files.paths = granted /\ IsList(scope.allowed_files)
             /\ IsList(p.authorization.allowed_files)
             /\ scope.new_files.paths \subseteq granted
             /\ IsList(scope.acceptance_contract.expected_changed_paths)
             /\ scope.acceptance_contract.expected_changed_paths.paths = granted
             /\ p.execution.observed_post_worktree_entries.paths = granted
             /\ DOMAIN p.execution.sha256_chain = granted
             /\ granted # {}
<1>1. GrantFit(p.authorization)
  BY GrantVerified DEF AllHold
<1>2. \A i \in {1, 2, 3} : ~ ScopeLinks(p)[i].broken
  BY GroupsAreShaped DEF AllHold, Shaped, Unbroken
<1>3. \A i \in {1, 2} : ~ ObservationLinks(p)[i].broken
  BY GroupsAreShaped DEF AllHold, Shaped, Unbroken
<1>4. /\ ~ ScopeLinks(p)[1].broken =>
           /\ IsList(p.scope.allowed_files) /\ IsList(p.custody.allowed_files)
           /\ Normalized(p.scope.allowed_files) = Normalized(p.authorization.allowed_files)
           /\ Normalized(p.scope.allowed_files) = Normalized(p.custody.allowed_files)
      /\ ~ ScopeLinks(p)[2].broken =>
           p.scope.new_files.paths \subseteq p.scope.allowed_files.paths
      /\ ~ ScopeLinks(p)[3].broken =>
           /\ IsList(p.scope.acceptance_contract.expected_changed_paths)
           /\ Normalized(p.scope.acceptance_contract.expected_changed_paths)
                = Normalized(p.scope.allowed_files)
  BY DEF ScopeLinks, Link
<1>5. /\ ~ ObservationLinks(p)[1].broken =>
           p.execution.observed_post_worktree_entries.paths = p.scope.allowed_files.paths
      /\ ~ ObservationLinks(p)[2].broken =>
           DOMAIN p.execution.sha256_chain = p.scope.allowed_files.paths
  BY DEF ObservationLinks, Link
<1>6. p.custody.allowed_files.paths # {}
  BY BindingsHold DEF LandlockHolds
<1> QED
  BY <1>1, <1>2, <1>3, <1>4, <1>5, <1>6 DEF GrantFit, Normalized, IsList

\* A list of the scope with one more file.
LEMMA ScopesTold ==
  ASSUME NEW p \in Published, PublishedIsSound(p), NEW q, NEW r,
         \/ /\ q = [p EXCEPT !.scope.allowed_files = Appended(@, SecondFile)]
            /\ r = "block_allowed_files_binding_mismatch"
         \/ /\ q = [p EXCEPT !.scope.new_files = Appended(@, SecondFile)]
            /\ r = "block_new_files_binding_mismatch"
         \/ /\ q = [p EXCEPT !.scope.acceptance_contract.expected_changed_paths =
                      Appended(@, SecondFile)]
            /\ r = "block_acceptance_contract_binding_mismatch"
  PROVE  Tells(p, q, r)
<1>1. AllHold(p) /\ SecondFile \notin p.authorization.allowed_files.paths
  BY DEF PublishedIsSound
<1>2. /\ q.authorization = p.authorization /\ q.custody = p.custody
      /\ SameIn(q, p, BindingMembers)
  BY PassportAssumption
  DEF PublishedAssumption, IsPassport, SameIn, BindingMembers, ContractMembers,
      EnvelopeMembers
<1>3. \/ /\ SecondFile \in q.scope.allowed_files.paths
         /\ r = "block_allowed_files_binding_mismatch"
      \/ /\ q.scope.allowed_files = p.scope.allowed_files
         /\ SecondFile \in q.scope.new_files.paths
         /\ r = "block_new_files_binding_mismatch"
      \/ /\ q.scope.allowed_files = p.scope.allowed_files
         /\ q.scope.new_files = p.scope.new_files
         /\ SecondFile \in q.scope.acceptance_contract.expected_changed_paths.paths
         /\ r = "block_acceptance_contract_binding_mismatch"
  BY PassportAssumption
  DEF PublishedAssumption, IsPassport, PublishedIsSound, HasMembers, Appended
<1>4. \A i \in {1, 2, 3} : ~ ScopeLinks(p)[i].broken
  BY <1>1, GroupsAreShaped DEF AllHold, Shaped, Unbroken
<1> DEFINE links == ScopeLinks(q)
           goLinks == GoScopeLinks(q)
           granted == p.authorization.allowed_files.paths
<1>5. /\ SecondFile \in q.scope.allowed_files.paths => links[1].broken
      /\ /\ q.scope.allowed_files = p.scope.allowed_files
         /\ SecondFile \in q.scope.new_files.paths
         => ~ links[1].broken /\ links[2].broken
      /\ /\ q.scope.allowed_files = p.scope.allowed_files
         /\ q.scope.new_files = p.scope.new_files
         /\ SecondFile \in q.scope.acceptance_contract.expected_changed_paths.paths
         => ~ links[1].broken /\ ~ links[2].broken /\ links[3].broken
  <2>1. /\ SecondFile \in q.scope.allowed_files.paths =>
             \/ ~ IsList(q.scope.allowed_files)
             \/ Normalized(q.scope.allowed_files) # Normalized(q.authorization.allowed_files)
        /\ /\ q.scope.allowed_files = p.scope.allowed_files
           /\ SecondFile \in q.scope.new_files.paths
           => ~ (q.scope.new_files.paths \subseteq q.scope.allowed_files.paths)
        /\ /\ q.scope.allowed_files = p.scope.allowed_files
           /\ SecondFile \in q.scope.acceptance_contract.expected_changed_paths.paths
           => \/ ~ IsList(q.scope.acceptance_contract.expected_changed_paths)
              \/ Normalized(q.scope.acceptance_contract.expected_changed_paths)
                   # Normalized(q.scope.allowed_files)
    BY <1>1, <1>2, ScopeHolds DEF Normalized, IsList
  <2>2. /\ \/ ~ IsList(q.scope.allowed_files)
           \/ Normalized(q.scope.allowed_files) # Normalized(q.authorization.allowed_files)
           => links[1].broken
        /\ ~ (q.scope.new_files.paths \subseteq q.scope.allowed_files.paths)
             => links[2].broken
        /\ \/ ~ IsList(q.scope.acceptance_contract.expected_changed_paths)
           \/ Normalized(q.scope.acceptance_contract.expected_changed_paths)
                # Normalized(q.scope.allowed_files)
           => links[3].broken
    BY DEF ScopeLinks, Link
  <2>3. q.scope.allowed_files = p.scope.allowed_files =>
          /\ links[1].broken <=> ScopeLinks(p)[1].broken
          /\ q.scope.new_files = p.scope.new_files =>
               (links[2].broken <=> ScopeLinks(p)[2].broken)
    BY <1>2 DEF ScopeLinks, Link
  <2> QED
    BY <1>4, <2>1, <2>2, <2>3
<1>6. /\ goLinks[1].broken <=> links[1].broken
      /\ goLinks[2].broken <=> links[2].broken
      /\ ~ links[1].broken => (goLinks[3].broken <=> links[3].broken)
  BY DEF GoScopeLinks, ScopeLinks, Link, Normalized, IsList
<1>7. /\ links[1].reason = "block_allowed_files_binding_mismatch"
      /\ links[2].reason = "block_new_files_binding_mismatch"
      /\ links[3].reason = "block_acceptance_contract_binding_mismatch"
      /\ goLinks[1].reason = "block_allowed_files_binding_mismatch"
      /\ goLinks[2].reason = "block_new_files_binding_mismatch"
      /\ goLinks[3].reason = "block_acceptance_contract_binding_mismatch"
  BY DEF ScopeLinks, GoScopeLinks, Link
<1>8. Shaped(links, 3) /\ Shaped(goLinks, 3)
  BY GroupsAreShaped
<1>9. Gives(links, r) /\ Gives(goLinks, r)
  <2> HIDE DEF links, goLinks
  <2> QED
    BY <1>3, <1>5, <1>6, <1>7, <1>8, GivesAt
<1> QED
  BY <1>1, <1>2, <1>9, ToldAtScope

\* One more file observed, or one more chain of digests.
LEMMA ObservationsTold ==
  ASSUME NEW p \in Published, PublishedIsSound(p), NEW q, NEW r,
         \/ /\ q = [p EXCEPT !.execution.observed_post_worktree_entries =
                      Appended(@, SecondFile)]
            /\ r = "block_observed_paths_binding_mismatch"
         \/ /\ q = [p EXCEPT !.execution.sha256_chain =
                      [f \in DOMAIN @ \cup {SecondFile} |->
                         IF f = SecondFile THEN Null ELSE @[f]]]
            /\ r = "block_sha256_chain_binding_mismatch"
  PROVE  Tells(p, q, r)
<1>1. AllHold(p) /\ SecondFile \notin p.authorization.allowed_files.paths
  BY DEF PublishedIsSound
<1>2. /\ q.custody = p.custody /\ q.scope = p.scope
      /\ SameIn(q, p, BindingMembers \cup {"scope"})
  BY PassportAssumption
  DEF PublishedAssumption, IsPassport, SameIn, BindingMembers, ContractMembers,
      EnvelopeMembers
<1>3. \/ /\ SecondFile \in q.execution.observed_post_worktree_entries.paths
         /\ r = "block_observed_paths_binding_mismatch"
      \/ /\ SecondFile \in DOMAIN q.execution.sha256_chain
         /\ \A f \in {"observed_post_worktree_entries", "observed_pre_worktree_entries",
                      "observed_post_head_sha", "observed_changed_file_count"} :
              q.execution[f] = p.execution[f]
         /\ r = "block_sha256_chain_binding_mismatch"
  <2>1. /\ {"observed_pre_worktree_entries", "observed_post_worktree_entries",
            "observed_post_head_sha", "observed_changed_file_count", "sha256_chain"}
             \subseteq DOMAIN p.execution
        /\ "execution" \in DOMAIN p
        /\ "paths" \in DOMAIN p.execution.observed_post_worktree_entries
    BY PassportAssumption DEF PublishedAssumption, IsPassport, PublishedIsSound, HasMembers
  <2>2. CASE /\ q = [p EXCEPT !.execution.observed_post_worktree_entries =
                       Appended(@, SecondFile)]
             /\ r = "block_observed_paths_binding_mismatch"
    BY <2>1, <2>2 DEF Appended
  <2>3. CASE /\ q = [p EXCEPT !.execution.sha256_chain =
                       [f \in DOMAIN @ \cup {SecondFile} |->
                          IF f = SecondFile THEN Null ELSE @[f]]]
             /\ r = "block_sha256_chain_binding_mismatch"
    <3>1. /\ DOMAIN q.execution.sha256_chain = DOMAIN p.execution.sha256_chain \cup {SecondFile}
          /\ q.execution.observed_post_worktree_entries
               = p.execution.observed_post_worktree_entries
          /\ q.execution.observed_pre_worktree_entries
               = p.execution.observed_pre_worktree_entries
          /\ q.execution.observed_post_head_sha = p.execution.observed_post_head_sha
          /\ q.execution.observed_changed_file_count = p.execution.observed_changed_file_count
      BY <2>1, <2>3
    <3> QED
      BY <2>3, <3>1
  <2> QED
    BY <2>2, <2>3
<1>4. \A i \in {1, 2} : ~ ObservationLinks(p)[i].broken /\ ~ GoObservationLinks(p)[i].broken
  <2>1. Unbroken(ObservationLinks(p)) /\ Unbroken(GoObservationLinks(p))
    BY <1>1, ObservationsCompared DEF AllHold
  <2>2. /\ DOMAIN ObservationLinks(p) = 1..2 /\ DOMAIN GoObservationLinks(p) = 1..2
        /\ 1..2 = {1, 2}
    BY GroupsAreShaped DEF Shaped
  <2> QED
    BY <2>1, <2>2, Zenon DEF Unbroken
<1> DEFINE links == ObservationLinks(q)
           goLinks == GoObservationLinks(q)
           allowed == q.scope.allowed_files.paths
<1>5. SecondFile \notin allowed
  BY <1>1, <1>2, ScopeHolds
<1>6. /\ q.execution.observed_post_worktree_entries.paths # allowed =>
           links[1].broken /\ goLinks[1].broken
      /\ DOMAIN q.execution.sha256_chain # allowed => links[2].broken /\ goLinks[2].broken
      /\ links[1].reason = "block_observed_paths_binding_mismatch"
      /\ links[2].reason = "block_sha256_chain_binding_mismatch"
      /\ goLinks[1].reason = "block_observed_paths_binding_mismatch"
      /\ goLinks[2].reason = "block_sha256_chain_binding_mismatch"
  BY DEF ObservationLinks, GoObservationLinks, Link
<1>7. (\A f \in {"observed_post_worktree_entries", "observed_pre_worktree_entries",
                 "observed_post_head_sha", "observed_changed_file_count"} :
         q.execution[f] = p.execution[f]) =>
        /\ links[1].broken <=> ObservationLinks(p)[1].broken
        /\ goLinks[1].broken <=> GoObservationLinks(p)[1].broken
  BY <1>2 DEF ObservationLinks, GoObservationLinks, Link
<1>8. Shaped(links, 2) /\ Shaped(goLinks, 2)
  BY GroupsAreShaped
<1>9. Gives(links, r) /\ Gives(goLinks, r)
  <2> HIDE DEF links, goLinks
  <2> QED
    BY <1>3, <1>4, <1>5, <1>6, <1>7, <1>8, GivesAt
<1> QED
  BY <1>1, <1>2, <1>9, ToldAtObservation
-----------------------------------------------------------------------------
(* The commit and the closure. *)

\* What the commit of a published passport says.
LEMMA CommitHolds ==
  ASSUME NEW p, AllHold(p)
  PROVE  LET binding == p.committed_binding
             allowed == p.scope.allowed_files.paths
         IN  /\ binding.identity_closed
             /\ binding.parent_sha \in Commits /\ binding.commit_sha \in Commits
             /\ binding.parent_sha = p.implementation_head_sha
             /\ binding.changed_paths = [paths |-> allowed, spelling |-> "canonical"]
             /\ DOMAIN binding.committed_file_hashes = allowed
             /\ \A f \in allowed : binding.committed_file_hashes[f]
                                     = p.execution.sha256_chain[f].materialized_sha256
<1>1. \A i \in {1, 2, 3, 4, 5} : ~ CommitLinks(p)[i].broken
  BY GroupsAreShaped DEF AllHold, Shaped, Unbroken
<1>2. LET binding == p.committed_binding
          allowed == p.scope.allowed_files.paths
      IN  /\ ~ CommitLinks(p)[1].broken =>
               /\ binding.identity_closed
               /\ {binding.parent_sha, binding.commit_sha} \subseteq Commits
          /\ ~ CommitLinks(p)[2].broken => binding.parent_sha = p.implementation_head_sha
          /\ ~ CommitLinks(p)[4].broken
               => binding.changed_paths = [paths |-> allowed, spelling |-> "canonical"]
          /\ ~ CommitLinks(p)[5].broken =>
               /\ DOMAIN binding.committed_file_hashes = allowed
               /\ \A f \in allowed : binding.committed_file_hashes[f]
                                       = p.execution.sha256_chain[f].materialized_sha256
  BY DEF CommitLinks, Link
<1> QED
  BY <1>1, <1>2

\* The links of the commit by their places.
LEMMA CommitGroup ==
  ASSUME NEW q
  PROVE  LET links == CommitLinks(q)
             goLinks == GoCommitLinks(q)
             binding == q.committed_binding
             listed == [paths |-> q.scope.allowed_files.paths, spelling |-> "canonical"]
             known == binding.parent_sha \in Commits /\ binding.commit_sha \in Commits
             onHead == binding.parent_sha = q.implementation_head_sha
         IN  /\ links[1].broken <=> ~ binding.identity_closed \/ ~ known
             /\ links[2].broken <=> ~ onHead
             /\ links[3].broken <=> binding.commit_sha = binding.parent_sha
             /\ links[4].broken <=> binding.changed_paths # listed
             /\ goLinks[1].broken <=> ~ binding.identity_closed \/ ~ known
             /\ goLinks[2].broken <=> ~ onHead \/ binding.changed_paths # listed
             /\ goLinks[3].broken <=> binding.commit_sha = q.implementation_head_sha
             /\ goLinks[4].broken <=> links[5].broken
             /\ goLinks[5].broken <=> ~ GoBoundaryContract(q)
             /\ links[1].reason = "block_commit_identity_binding_mismatch"
             /\ links[2].reason = "block_complete_cargo_changeset_binding_mismatch"
             /\ links[3].reason = "block_cargo_commit_equals_execution_head"
             /\ links[4].reason = "block_complete_cargo_changeset_binding_mismatch"
             /\ links[5].reason = "block_committed_hash_binding_mismatch"
             /\ goLinks[1].reason = "block_commit_identity_binding_mismatch"
             /\ goLinks[2].reason = "block_complete_cargo_changeset_binding_mismatch"
             /\ goLinks[3].reason = "block_cargo_commit_equals_execution_head"
             /\ goLinks[4].reason = "block_committed_hash_binding_mismatch"
<1> DEFINE binding == q.committed_binding
           listed == [paths |-> q.scope.allowed_files.paths, spelling |-> "canonical"]
           known == binding.parent_sha \in Commits /\ binding.commit_sha \in Commits
           onHead == binding.parent_sha = q.implementation_head_sha
<1>1. /\ CommitLinks(q)[1].broken <=> ~ binding.identity_closed \/ ~ known
      /\ CommitLinks(q)[2].broken <=> ~ onHead
      /\ CommitLinks(q)[3].broken <=> binding.commit_sha = binding.parent_sha
      /\ CommitLinks(q)[4].broken <=> binding.changed_paths # listed
      /\ CommitLinks(q)[1].reason = "block_commit_identity_binding_mismatch"
      /\ CommitLinks(q)[2].reason = "block_complete_cargo_changeset_binding_mismatch"
      /\ CommitLinks(q)[3].reason = "block_cargo_commit_equals_execution_head"
      /\ CommitLinks(q)[4].reason = "block_complete_cargo_changeset_binding_mismatch"
      /\ CommitLinks(q)[5].reason = "block_committed_hash_binding_mismatch"
  BY DEF CommitLinks, Link
<1>2. /\ GoCommitLinks(q)[1].broken <=> ~ binding.identity_closed \/ ~ known
      /\ GoCommitLinks(q)[2].broken <=> ~ onHead \/ binding.changed_paths # listed
      /\ GoCommitLinks(q)[3].broken <=> binding.commit_sha = q.implementation_head_sha
      /\ GoCommitLinks(q)[5].broken <=> ~ GoBoundaryContract(q)
      /\ GoCommitLinks(q)[1].reason = "block_commit_identity_binding_mismatch"
      /\ GoCommitLinks(q)[2].reason = "block_complete_cargo_changeset_binding_mismatch"
      /\ GoCommitLinks(q)[3].reason = "block_cargo_commit_equals_execution_head"
      /\ GoCommitLinks(q)[4].reason = "block_committed_hash_binding_mismatch"
  BY DEF GoCommitLinks, Link
<1>3. GoCommitLinks(q)[4].broken <=> CommitLinks(q)[5].broken
  BY DEF GoCommitLinks, CommitLinks, Link
<1> QED
  BY <1>1, <1>2, <1>3

\* The same places of the same commit.
LEMMA CommitPlaces ==
  ASSUME NEW p, NEW q, q.scope = p.scope,
         q.implementation_head_sha = p.implementation_head_sha,
         q.committed_binding.identity_closed = p.committed_binding.identity_closed,
         q.committed_binding.parent_sha = p.committed_binding.parent_sha,
         q.committed_binding.commit_sha = p.committed_binding.commit_sha,
         q.committed_binding.changed_paths = p.committed_binding.changed_paths
  PROVE  /\ CommitLinks(q)[1].broken <=> CommitLinks(p)[1].broken
         /\ CommitLinks(q)[2].broken <=> CommitLinks(p)[2].broken
         /\ CommitLinks(q)[3].broken <=> CommitLinks(p)[3].broken
         /\ CommitLinks(q)[4].broken <=> CommitLinks(p)[4].broken
<1>1. /\ CommitLinks(q)[1].broken <=> CommitLinks(p)[1].broken
      /\ CommitLinks(q)[2].broken <=> CommitLinks(p)[2].broken
  BY DEF CommitLinks, Link
<1>2. /\ CommitLinks(q)[3].broken <=> CommitLinks(p)[3].broken
      /\ CommitLinks(q)[4].broken <=> CommitLinks(p)[4].broken
  BY DEF CommitLinks, Link
<1> QED
  BY <1>1, <1>2

\* Another commit of the same parent and the same files holds as well.
LEMMA CommitStays ==
  ASSUME NEW p, NEW q, q.scope = p.scope, q.execution = p.execution,
         q.implementation_head_sha = p.implementation_head_sha,
         q.committed_binding.identity_closed = p.committed_binding.identity_closed,
         q.committed_binding.parent_sha = p.committed_binding.parent_sha,
         q.committed_binding.changed_paths = p.committed_binding.changed_paths,
         q.committed_binding.committed_file_hashes
           = p.committed_binding.committed_file_hashes,
         q.committed_binding.commit_sha \in Commits,
         q.committed_binding.commit_sha # q.committed_binding.parent_sha,
         Unbroken(CommitLinks(p))
  PROVE  Unbroken(CommitLinks(q))
<1>1. \A i \in {1, 2, 3, 4, 5} : ~ CommitLinks(p)[i].broken
  BY GroupsAreShaped DEF Shaped, Unbroken
<1>2. /\ CommitLinks(q)[2].broken <=> CommitLinks(p)[2].broken
      /\ CommitLinks(q)[4].broken <=> CommitLinks(p)[4].broken
  BY DEF CommitLinks, Link
<1>3. CommitLinks(q)[5].broken <=> CommitLinks(p)[5].broken
  BY DEF CommitLinks, Link
<1>4. ~ CommitLinks(p)[1].broken => ~ CommitLinks(q)[1].broken
  BY DEF CommitLinks, Link
<1>5. ~ CommitLinks(q)[3].broken
  BY DEF CommitLinks, Link
<1>6. \E a, b, c, d, e : CommitLinks(q) = <<a, b, c, d, e>>
  BY DEF CommitLinks
<1> QED
  BY <1>1, <1>2, <1>3, <1>4, <1>5, <1>6, MoreLinksHold

\* The identities of the commit and the files of its change.
LEMMA CommitsTold ==
  ASSUME NEW p \in Published, PublishedIsSound(p), NEW q, NEW r,
         \/ /\ q = [p EXCEPT !.committed_binding.commit_sha = "not-a-sha"]
            /\ r = "block_commit_identity_binding_mismatch"
         \/ /\ q = [p EXCEPT !.committed_binding.parent_sha = ZeroCommit]
            /\ r = "block_complete_cargo_changeset_binding_mismatch"
         \/ /\ q = [p EXCEPT !.committed_binding.changed_paths = Appended(@, SecondFile)]
            /\ r = "block_complete_cargo_changeset_binding_mismatch"
         \/ /\ q = [p EXCEPT !.committed_binding.commit_sha = p.committed_binding.parent_sha]
            /\ r = "block_cargo_commit_equals_execution_head"
  PROVE  Tells(p, q, r)
<1>1. AllHold(p) /\ SecondFile \notin p.scope.allowed_files.paths
  BY ScopeHolds DEF PublishedIsSound
<1>2. /\ q.scope = p.scope /\ q.implementation_head_sha = p.implementation_head_sha
      /\ SameIn(q, p, ObservationMembers)
  BY PassportAssumption
  DEF PublishedAssumption, IsPassport, SameIn, ObservationMembers, BindingMembers,
      ContractMembers, EnvelopeMembers
<1> DEFINE binding == p.committed_binding
           changed == q.committed_binding
           links == CommitLinks(q)
           goLinks == GoCommitLinks(q)
<1>3. /\ {"identity_closed", "parent_sha", "commit_sha", "changed_paths"} \subseteq DOMAIN binding
      /\ "committed_binding" \in DOMAIN p /\ "paths" \in DOMAIN binding.changed_paths
  BY PassportAssumption DEF PublishedAssumption, IsPassport, PublishedIsSound, HasMembers
<1>4. /\ changed.identity_closed = binding.identity_closed
      /\ \/ /\ changed.commit_sha = "not-a-sha"
            /\ r = "block_commit_identity_binding_mismatch"
         \/ /\ changed.commit_sha = binding.commit_sha /\ changed.parent_sha = ZeroCommit
            /\ r = "block_complete_cargo_changeset_binding_mismatch"
         \/ /\ changed.commit_sha = binding.commit_sha
            /\ changed.parent_sha = binding.parent_sha
            /\ SecondFile \in changed.changed_paths.paths
            /\ r = "block_complete_cargo_changeset_binding_mismatch"
         \/ /\ changed.commit_sha = binding.parent_sha
            /\ changed.parent_sha = binding.parent_sha
            /\ changed.changed_paths = binding.changed_paths
            /\ r = "block_cargo_commit_equals_execution_head"
  BY <1>3 DEF Appended
<1>5. /\ ZeroCommit \in Commits /\ "not-a-sha" \notin Commits
      /\ ZeroCommit # p.implementation_head_sha
  BY CorpusAssumption DEF PublishedIsSound
<1>6. /\ binding.commit_sha # binding.parent_sha
      /\ binding.parent_sha = p.implementation_head_sha
      /\ binding.identity_closed
      /\ binding.parent_sha \in Commits /\ binding.commit_sha \in Commits
      /\ binding.changed_paths = [paths |-> p.scope.allowed_files.paths,
                                  spelling |-> "canonical"]
  <2>1. ~ CommitLinks(p)[3].broken
    BY <1>1, GroupsAreShaped DEF AllHold, Shaped, Unbroken
  <2>2. binding.commit_sha # binding.parent_sha
    BY <2>1, CommitGroup
  <2> QED
    BY <1>1, <2>2, CommitHolds
<1>7. Shaped(links, 5) /\ Shaped(goLinks, 5)
  BY GroupsAreShaped
<1>8. changed.changed_paths = [paths |-> q.scope.allowed_files.paths, spelling |-> "canonical"]
        => SecondFile \notin changed.changed_paths.paths
  BY <1>1, <1>2
<1> DEFINE known == changed.parent_sha \in Commits /\ changed.commit_sha \in Commits
           onHead == changed.parent_sha = p.implementation_head_sha
           listed == changed.changed_paths
                       = [paths |-> q.scope.allowed_files.paths, spelling |-> "canonical"]
<1>9. /\ links[1].broken <=> ~ changed.identity_closed \/ ~ known
      /\ links[2].broken <=> ~ onHead
      /\ links[3].broken <=> changed.commit_sha = changed.parent_sha
      /\ links[4].broken <=> ~ listed
      /\ goLinks[1].broken <=> ~ changed.identity_closed \/ ~ known
      /\ goLinks[2].broken <=> ~ onHead \/ ~ listed
      /\ goLinks[3].broken <=> changed.commit_sha = p.implementation_head_sha
  BY <1>2, CommitGroup
<1>10. /\ links[1].reason = "block_commit_identity_binding_mismatch"
       /\ links[2].reason = "block_complete_cargo_changeset_binding_mismatch"
       /\ links[3].reason = "block_cargo_commit_equals_execution_head"
       /\ links[4].reason = "block_complete_cargo_changeset_binding_mismatch"
       /\ goLinks[1].reason = "block_commit_identity_binding_mismatch"
       /\ goLinks[2].reason = "block_complete_cargo_changeset_binding_mismatch"
       /\ goLinks[3].reason = "block_cargo_commit_equals_execution_head"
  BY CommitGroup
<1>11. /\ changed.identity_closed
       /\ \/ ~ known /\ r = "block_commit_identity_binding_mismatch"
          \/ /\ known /\ ~ onHead
             /\ r = "block_complete_cargo_changeset_binding_mismatch"
          \/ /\ known /\ onHead /\ ~ listed
             /\ changed.commit_sha # changed.parent_sha
             /\ r = "block_complete_cargo_changeset_binding_mismatch"
          \/ /\ known /\ onHead /\ listed /\ changed.commit_sha = changed.parent_sha
             /\ changed.commit_sha = p.implementation_head_sha
             /\ r = "block_cargo_commit_equals_execution_head"
  BY <1>2, <1>4, <1>5, <1>6, <1>8
<1> HIDE DEF links, goLinks, known, onHead, listed, changed
<1>12. Gives(links, r)
  BY <1>7, <1>9, <1>10, <1>11, GivesAt
<1>13. Gives(goLinks, r)
  BY <1>7, <1>9, <1>10, <1>11, GivesAt
<1>14. Tells(p, q, r)
  BY <1>1, <1>2, <1>12, <1>13, ToldAtCommit DEF links, goLinks
<1> QED
  BY <1>14

\* One file that is committed with other bytes.
LEMMA HashesTold ==
  ASSUME NEW p \in Published, PublishedIsSound(p), NEW q,
         q = [p EXCEPT !.committed_binding.committed_file_hashes =
                [f \in DOMAIN @ |-> IF f = CHOOSE g \in DOMAIN @ : TRUE
                                    THEN ZeroDigest ELSE @[f]]]
  PROVE  Tells(p, q, "block_committed_hash_binding_mismatch")
<1> DEFINE binding == p.committed_binding
           changed == q.committed_binding
           hashes == binding.committed_file_hashes
           file == CHOOSE g \in DOMAIN hashes : TRUE
           links == CommitLinks(q)
           goLinks == GoCommitLinks(q)
<1>1. AllHold(p)
  BY DEF PublishedIsSound
<1>2. /\ q.scope = p.scope /\ q.implementation_head_sha = p.implementation_head_sha
      /\ q.execution = p.execution /\ q.custody = p.custody
      /\ SameIn(q, p, ObservationMembers)
  BY PassportAssumption
  DEF PublishedAssumption, IsPassport, SameIn, ObservationMembers, BindingMembers,
      ContractMembers, EnvelopeMembers
<1>3. /\ {"identity_closed", "parent_sha", "commit_sha", "changed_paths",
          "committed_file_hashes"} \subseteq DOMAIN binding
      /\ "committed_binding" \in DOMAIN p
  BY PassportAssumption DEF PublishedAssumption, IsPassport, PublishedIsSound, HasMembers
<1>4. /\ changed.identity_closed = binding.identity_closed
      /\ changed.parent_sha = binding.parent_sha /\ changed.commit_sha = binding.commit_sha
      /\ changed.changed_paths = binding.changed_paths
      /\ DOMAIN changed.committed_file_hashes = DOMAIN hashes
      /\ file \in DOMAIN hashes => changed.committed_file_hashes[file] = ZeroDigest
  BY <1>3
<1>5. /\ DOMAIN hashes = p.scope.allowed_files.paths
      /\ \A f \in DOMAIN hashes : hashes[f] = p.execution.sha256_chain[f].materialized_sha256
  BY <1>1, CommitHolds
<1>6. file \in DOMAIN hashes
  <2>1. DOMAIN hashes # {}
    BY <1>1, <1>5, ScopeHolds
  <2> QED
    BY <2>1
<1>7. p.execution.sha256_chain[file].materialized_sha256 # ZeroDigest
  BY <1>5, <1>6 DEF PublishedIsSound
<1>8. \A i \in {1, 2, 3, 4, 5} : ~ CommitLinks(p)[i].broken
  BY <1>1, GroupsAreShaped DEF AllHold, Shaped, Unbroken
<1>9. /\ file \in DOMAIN changed.committed_file_hashes
      /\ changed.committed_file_hashes[file]
           # q.execution.sha256_chain[file].materialized_sha256
  BY <1>2, <1>4, <1>6, <1>7
<1> HIDE DEF file
<1>10. links[5].broken
  BY <1>9 DEF CommitLinks, Link
<1> DEFINE SamePlace(i) == links[i].broken <=> CommitLinks(p)[i].broken
<1>11. SamePlace(1) /\ SamePlace(2) /\ SamePlace(3) /\ SamePlace(4)
  <2>1. /\ q.scope = p.scope /\ q.implementation_head_sha = p.implementation_head_sha
        /\ q.committed_binding.identity_closed = p.committed_binding.identity_closed
        /\ q.committed_binding.parent_sha = p.committed_binding.parent_sha
        /\ q.committed_binding.commit_sha = p.committed_binding.commit_sha
        /\ q.committed_binding.changed_paths = p.committed_binding.changed_paths
    BY <1>2, <1>4
  <2> QED
    BY ONLY <2>1, CommitPlaces
<1>12. /\ goLinks[1].broken <=> links[1].broken
       /\ goLinks[2].broken <=> links[2].broken \/ links[4].broken
       /\ ~ links[2].broken => (goLinks[3].broken <=> links[3].broken)
       /\ goLinks[4].broken <=> links[5].broken
  BY DEF GoCommitLinks, CommitLinks, Link
<1>13. links[5].reason = "block_committed_hash_binding_mismatch"
       /\ goLinks[4].reason = "block_committed_hash_binding_mismatch"
  BY CommitGroup
<1>14. Shaped(links, 5) /\ Shaped(goLinks, 5)
  BY GroupsAreShaped
<1>15. Gives(links, "block_committed_hash_binding_mismatch")
       /\ Gives(goLinks, "block_committed_hash_binding_mismatch")
  <2> HIDE DEF links, goLinks
  <2> QED
    BY <1>8, <1>10, <1>11, <1>12, <1>13, <1>14, GivesAt
<1> QED
  BY <1>1, <1>2, <1>15, ToldAtCommit

\* The links of a signature by their places.
LEMMA SignatureGroup ==
  ASSUME NEW sig, NEW anchors, NEW message, NEW wrongKey, NEW malformed, NEW invalid
  PROVE  LET links == SignatureLinks(sig, anchors, message, wrongKey, malformed, invalid)
         IN  /\ sig.signing_key_id \notin anchors => Gives(links, wrongKey)
             /\ sig.signing_key_id \in anchors /\ sig.signature_hex = Garbled
                  => Gives(links, malformed)
             /\ /\ sig.signing_key_id \in anchors /\ sig.signature_hex # Garbled
                /\ sig.signature_hex # Signature(sig.signing_key_id, message)
                => Gives(links, invalid)
<1> DEFINE links == SignatureLinks(sig, anchors, message, wrongKey, malformed, invalid)
<1>1. /\ links[1].broken <=> sig.signing_key_id \notin anchors
      /\ links[2].broken <=> sig.signature_hex = Garbled
      /\ links[3].broken <=> sig.signature_hex # Signature(sig.signing_key_id, message)
      /\ links[1].reason = wrongKey /\ links[2].reason = malformed /\ links[3].reason = invalid
  BY DEF SignatureLinks, Link
<1>2. Shaped(links, 3)
  BY Tuples DEF SignatureLinks
<1> HIDE DEF links
<1>3. /\ sig.signing_key_id \notin anchors => Gives(links, wrongKey)
      /\ sig.signing_key_id \in anchors /\ sig.signature_hex = Garbled
           => Gives(links, malformed)
      /\ /\ sig.signing_key_id \in anchors /\ sig.signature_hex # Garbled
         /\ sig.signature_hex # Signature(sig.signing_key_id, message)
         => Gives(links, invalid)
  BY <1>1, <1>2, GivesAt
<1> QED
  BY <1>3 DEF links

\* The same of the second verifier's.
LEMMA GoSignatureGroup ==
  ASSUME NEW sig, NEW version, NEW key, NEW message, NEW malformed, NEW wrong, NEW invalid,
         sig.signature_version = version
  PROVE  LET links == GoSignatureLinks(sig, version, key, message, malformed, wrong, invalid)
         IN  /\ sig.signature_hex = Garbled => Gives(links, malformed)
             /\ sig.signature_hex # Garbled /\ sig.signing_key_id # key => Gives(links, wrong)
             /\ /\ sig.signature_hex # Garbled /\ sig.signing_key_id = key
                /\ sig.signature_hex # Signature(key, message)
                => Gives(links, invalid)
<1> DEFINE links == GoSignatureLinks(sig, version, key, message, malformed, wrong, invalid)
<1>1. /\ links[1].broken <=> sig.signature_hex = Garbled
      /\ links[2].broken <=> sig.signing_key_id # key
      /\ links[3].broken <=> sig.signature_hex # Signature(key, message)
      /\ links[1].reason = malformed /\ links[2].reason = wrong /\ links[3].reason = invalid
  BY DEF GoSignatureLinks, Link
<1>2. Shaped(links, 3)
  BY Tuples DEF GoSignatureLinks
<1> HIDE DEF links
<1>3. /\ sig.signature_hex = Garbled => Gives(links, malformed)
      /\ sig.signature_hex # Garbled /\ sig.signing_key_id # key => Gives(links, wrong)
      /\ /\ sig.signature_hex # Garbled /\ sig.signing_key_id = key
         /\ sig.signature_hex # Signature(key, message)
         => Gives(links, invalid)
  BY <1>1, <1>2, GivesAt
<1> QED
  BY <1>3 DEF links

\* Where the closure of a passport breaks: before its signature, or in it.
LEMMA ClosureGives ==
  ASSUME NEW q, NEW r
  PROVE  LET signature == q.closure.signature
             middle == SignatureLinks(signature, OwnerAnchors, ClosureMessage(q),
                         "block_owner_closure_signature_wrong_key",
                         "block_owner_closure_signature_malformed",
                         "block_owner_closure_signature_invalid")
             goMiddle == GoSignatureLinks(signature, "closure/0.1", GoOwner,
                           GoClosureMessage(q), "block_owner_closure_signature_malformed",
                           "block_owner_closure_signature_wrong_key",
                           "block_owner_closure_signature_invalid")
         IN  /\ signature.shape = "absent" =>
                  /\ Gives(ClosureLinks(q), "block_owner_closure_signature_missing")
                  /\ Gives(GoClosureLinks(q), "block_owner_closure_signature_missing")
             /\ signature.shape # "absent" /\ ~ q.closure.closed =>
                  /\ Gives(ClosureLinks(q), "block_owner_closure_unknown_field")
                  /\ Gives(GoClosureLinks(q), "block_owner_closure_unknown_field")
             /\ /\ signature.shape = "closed" /\ q.closure.closed
                /\ q.closure.closure_version = "closure/0.1"
                /\ signature.signature_version = "closure/0.1" /\ Gives(middle, r)
                => Gives(ClosureLinks(q), r)
             /\ signature.shape = "closed" /\ q.closure.closed /\ Gives(goMiddle, r)
                  => Gives(GoClosureLinks(q), r)
             /\ /\ signature.shape = "closed" /\ q.closure.closed /\ Unbroken(goMiddle)
                /\ q.text # "canonical"
                => Gives(GoClosureLinks(q),
                         "block_public_run_passport_noncanonical_serialization")
<1> DEFINE signature == q.closure.signature
           middle == SignatureLinks(signature, OwnerAnchors, ClosureMessage(q),
                       "block_owner_closure_signature_wrong_key",
                       "block_owner_closure_signature_malformed",
                       "block_owner_closure_signature_invalid")
           goMiddle == GoSignatureLinks(signature, "closure/0.1", GoOwner,
                         GoClosureMessage(q), "block_owner_closure_signature_malformed",
                         "block_owner_closure_signature_wrong_key",
                         "block_owner_closure_signature_invalid")
           a == Link(signature.shape = "absent", "block_owner_closure_signature_missing")
           b == Link(~ q.closure.closed, "block_owner_closure_unknown_field")
           c == Link(\/ signature.shape # "closed"
                     \/ q.closure.closure_version # "closure/0.1"
                     \/ signature.signature_version # "closure/0.1",
                     "block_owner_closure_signature_malformed")
           d == Link(signature.shape # "closed", "block_owner_closure_signature_malformed")
           last == Link(signature.signing_key_id
                          # q.authorization.owner_signature.signing_key_id,
                        "block_owner_closure_signature_wrong_key")
           goLast == Link(q.text # "canonical",
                          "block_public_run_passport_noncanonical_serialization")
           first == <<a, b, c>>
           goFirst == <<a, b, d>>
<1>1. /\ ClosureLinks(q) = (first \o middle) \o <<last>>
      /\ GoClosureLinks(q) = (goFirst \o goMiddle) \o <<goLast>>
  BY DEF ClosureLinks, GoClosureLinks
<1>2. /\ a.broken <=> signature.shape = "absent"
      /\ b.broken <=> ~ q.closure.closed
      /\ ~ c.broken <=> /\ signature.shape = "closed"
                        /\ q.closure.closure_version = "closure/0.1"
                        /\ signature.signature_version = "closure/0.1"
      /\ ~ d.broken <=> signature.shape = "closed"
      /\ a.reason = "block_owner_closure_signature_missing"
      /\ b.reason = "block_owner_closure_unknown_field"
  BY DEF Link
<1>3. (\E S : middle \in Seq(S)) /\ (\E S : goMiddle \in Seq(S))
  BY SignatureLinksAreASequence, GoSignatureLinksAreASequence
<1> HIDE DEF a, b, c, d, last, goLast, middle, goMiddle
<1>4. /\ Shaped(first, 3) /\ Shaped(goFirst, 3)
      /\ first[1] = a /\ first[2] = b /\ goFirst[1] = a /\ goFirst[2] = b
  BY Tuples
<1>5. /\ Unbroken(first) <=> ~ a.broken /\ ~ b.broken /\ ~ c.broken
      /\ Unbroken(goFirst) <=> ~ a.broken /\ ~ b.broken /\ ~ d.broken
  BY LinksHold
<1>6. (\E S : <<last>> \in Seq(S)) /\ (\E S : <<goLast>> \in Seq(S))
      /\ (\E S : first \in Seq(S)) /\ (\E S : goFirst \in Seq(S))
  BY LinksAreASequence
<1> HIDE DEF first, goFirst
<1>7. (\E S : first \o middle \in Seq(S)) /\ (\E S : goFirst \o goMiddle \in Seq(S))
  BY <1>3, <1>6, ChainsAreASequence
<1>8. ASSUME NEW s PROVE  /\ Gives(first, s) => Gives(ClosureLinks(q), s)
                          /\ Gives(goFirst, s) => Gives(GoClosureLinks(q), s)
                          /\ Unbroken(first) /\ Gives(middle, s) => Gives(ClosureLinks(q), s)
                          /\ Unbroken(goFirst) /\ Gives(goMiddle, s)
                               => Gives(GoClosureLinks(q), s)
                          /\ Unbroken(goFirst) /\ Unbroken(goMiddle) /\ Gives(<<goLast>>, s)
                               => Gives(GoClosureLinks(q), s)
  <2>1. /\ Gives(first, s) => Gives(first \o middle, s)
        /\ Unbroken(first) /\ Gives(middle, s) => Gives(first \o middle, s)
    BY <1>3, <1>6, GivesLater
  <2>2. /\ Gives(goFirst, s) => Gives(goFirst \o goMiddle, s)
        /\ Unbroken(goFirst) /\ Gives(goMiddle, s) => Gives(goFirst \o goMiddle, s)
    BY <1>3, <1>6, GivesLater
  <2>3. /\ Gives(first \o middle, s) => Gives(ClosureLinks(q), s)
        /\ Gives(goFirst \o goMiddle, s) => Gives(GoClosureLinks(q), s)
    BY <1>1, <1>6, <1>7, GivesLater
  <2>4. Unbroken(goFirst) /\ Unbroken(goMiddle) => Unbroken(goFirst \o goMiddle)
    BY <1>3, <1>6, ChainHolds
  <2>5. Unbroken(goFirst \o goMiddle) /\ Gives(<<goLast>>, s) => Gives(GoClosureLinks(q), s)
    BY <1>1, <1>6, <1>7, GivesLater
  <2> QED
    BY <2>1, <2>2, <2>3, <2>4, <2>5
<1>9. signature.shape = "absent" =>
        /\ Gives(first, "block_owner_closure_signature_missing")
        /\ Gives(goFirst, "block_owner_closure_signature_missing")
  BY <1>2, <1>4, GivesAt
<1>10. signature.shape # "absent" /\ ~ q.closure.closed =>
         /\ Gives(first, "block_owner_closure_unknown_field")
         /\ Gives(goFirst, "block_owner_closure_unknown_field")
  BY <1>2, <1>4, GivesAt
<1>11. /\ /\ signature.shape = "closed" /\ q.closure.closed
          /\ q.closure.closure_version = "closure/0.1"
          /\ signature.signature_version = "closure/0.1"
          => Unbroken(first)
       /\ signature.shape = "closed" /\ q.closure.closed => Unbroken(goFirst)
  BY <1>2, <1>5
<1>12. q.text # "canonical" =>
         Gives(<<goLast>>, "block_public_run_passport_noncanonical_serialization")
  <2>1. /\ goLast.broken <=> q.text # "canonical"
        /\ goLast.reason = "block_public_run_passport_noncanonical_serialization"
    BY DEF goLast, Link
  <2> QED
    BY <2>1, Tuples, GivesAt
<1> QED
  BY <1>8, <1>9, <1>10, <1>11, <1>12 DEF middle, goMiddle

\* What the closure of a published passport says.
LEMMA ClosureHolds ==
  ASSUME NEW p, AllHold(p)
  PROVE  LET signature == p.closure.signature
         IN  /\ signature.shape = "closed" /\ p.closure.closed
             /\ p.closure.closure_version = "closure/0.1"
             /\ signature.signature_version = "closure/0.1"
             /\ signature.signing_key_id \in OwnerAnchors
             /\ signature.signature_hex # Garbled
             /\ signature.signature_hex
                  = Signature(signature.signing_key_id, ClosureMessage(p))
             /\ GoAllHold(p) => signature.signing_key_id = GoOwner
<1> DEFINE signature == p.closure.signature
           middle == SignatureLinks(signature, OwnerAnchors, ClosureMessage(p),
                       "block_owner_closure_signature_wrong_key",
                       "block_owner_closure_signature_malformed",
                       "block_owner_closure_signature_invalid")
           a == Link(signature.shape = "absent", "block_owner_closure_signature_missing")
           b == Link(~ p.closure.closed, "block_owner_closure_unknown_field")
           c == Link(\/ signature.shape # "closed"
                     \/ p.closure.closure_version # "closure/0.1"
                     \/ signature.signature_version # "closure/0.1",
                     "block_owner_closure_signature_malformed")
           d == Link(signature.signing_key_id
                       # p.authorization.owner_signature.signing_key_id,
                     "block_owner_closure_signature_wrong_key")
<1>1. ClosureLinks(p) = (<<a, b, c>> \o middle) \o <<d>>
  BY DEF ClosureLinks
<1>2. \E S : middle \in Seq(S)
  BY SignatureLinksAreASequence
<1>3. ~ a.broken /\ ~ b.broken /\ ~ c.broken /\ Unbroken(middle) /\ ~ d.broken
  <2> HIDE DEF a, b, c, d, middle
  <2>1. Unbroken((<<a, b, c>> \o middle) \o <<d>>)
    BY <1>1 DEF AllHold
  <2> QED
    BY <1>2, <2>1, ChainsHold
<1>4. /\ signature.shape = "closed" /\ p.closure.closed
      /\ p.closure.closure_version = "closure/0.1"
      /\ signature.signature_version = "closure/0.1"
      /\ signature.signing_key_id = p.authorization.owner_signature.signing_key_id
  BY <1>3 DEF Link
<1>5. /\ signature.signing_key_id \in OwnerAnchors /\ signature.signature_hex # Garbled
      /\ signature.signature_hex = Signature(signature.signing_key_id, ClosureMessage(p))
  BY ClosureVerified DEF AllHold
<1>6. GoAllHold(p) => signature.signing_key_id = GoOwner
  <2> SUFFICES ASSUME GoAllHold(p) PROVE signature.signing_key_id = GoOwner
    OBVIOUS
  <2>1. signature.signature_hex = Signature(GoOwner, GoClosureMessage(p))
    BY GoClosureVerified DEF GoAllHold
  <2>2. signature.signature_hex.by = GoOwner
    BY <2>1 DEF Signature
  <2>3. signature.signature_hex.by = signature.signing_key_id
    BY <1>5 DEF Signature
  <2> QED
    BY <2>2, <2>3
<1> QED
  BY <1>4, <1>5, <1>6

\* The cases of the closure.
LEMMA ClosuresTold ==
  ASSUME NEW p \in Published, PublishedIsSound(p), NEW c \in ClosureCases(p)
  PROVE  Tells(p, c.mutated, c.expect)
<1> DEFINE q == c.mutated
           before == p.closure.signature
           signature == q.closure.signature
<1>1. AllHold(p)
  BY DEF PublishedIsSound
<1>2. /\ "closure" \in DOMAIN p /\ {"signature", "closed", "closure_version"} \subseteq DOMAIN p.closure
      /\ {"shape", "signature_version", "signing_key_id", "signature_hex"} \subseteq DOMAIN before
  BY PassportAssumption DEF PublishedAssumption, IsPassport, PublishedIsSound, HasMembers
<1>3. SameIn(q, p, ObservationMembers) /\ SameIn(q, p, ObservationMembers \cup {"committed_binding"})
  BY PassportAssumption
  DEF PublishedAssumption, IsPassport, SameIn, ObservationMembers, BindingMembers,
      ContractMembers, EnvelopeMembers, ClosureCases, Case
<1>4. q.closure.closure_version = p.closure.closure_version
      /\ signature.signature_version = before.signature_version
  BY <1>2 DEF ClosureCases, Case
<1>5. \/ /\ signature.shape = "absent"
         /\ c.expect = "block_owner_closure_signature_missing"
      \/ /\ signature.shape = before.shape /\ ~ q.closure.closed
         /\ c.expect = "block_owner_closure_unknown_field"
      \/ /\ signature.shape = before.shape /\ q.closure.closed = p.closure.closed
         /\ \/ /\ signature.signing_key_id = before.signing_key_id
               /\ signature.signature_hex = Garbled
               /\ c.expect = "block_owner_closure_signature_malformed"
            \/ /\ signature.signing_key_id = "unknown-owner"
               /\ signature.signature_hex = before.signature_hex
               /\ c.expect = "block_owner_closure_signature_wrong_key"
            \/ /\ signature.signing_key_id = before.signing_key_id
               /\ signature.signature_hex = Scrambled
               /\ c.expect = "block_owner_closure_signature_invalid"
  BY <1>2 DEF ClosureCases, Case
<1>6. /\ "unknown-owner" \notin OwnerAnchors /\ Garbled # Scrambled
      /\ GoOwner \in OwnerAnchors /\ Null \notin OwnerAnchors
  BY CorpusAssumption, GoAssumption, PassportAssumption DEF AnchorsAssumption
<1>7. \A key \in OwnerAnchors : \A message : Scrambled # Signature(key, message)
  <2>1. \A key, message : Signature(key, message).by = key /\ Scrambled.by = Null
    BY DEF Signature, Scrambled
  <2> QED
    BY <1>6, <2>1
<1> HIDE DEF q
<1> DEFINE middle == SignatureLinks(signature, OwnerAnchors, ClosureMessage(q),
                       "block_owner_closure_signature_wrong_key",
                       "block_owner_closure_signature_malformed",
                       "block_owner_closure_signature_invalid")
           goMiddle == GoSignatureLinks(signature, "closure/0.1", GoOwner,
                         GoClosureMessage(q), "block_owner_closure_signature_malformed",
                         "block_owner_closure_signature_wrong_key",
                         "block_owner_closure_signature_invalid")
<1>8. \/ signature.shape = "absent"
      \/ signature.shape # "absent" /\ ~ q.closure.closed
      \/ Gives(middle, c.expect) /\ (GoAllHold(p) => Gives(goMiddle, c.expect))
  <2> DEFINE key == signature.signing_key_id
             hex == signature.signature_hex
  <2>1. /\ before.shape = "closed" /\ before.signing_key_id \in OwnerAnchors
        /\ before.signature_hex # Garbled
        /\ GoAllHold(p) => before.signing_key_id = GoOwner
        /\ before.signature_version = "closure/0.1"
    BY <1>1, ClosureHolds
  <2>2. /\ key \notin OwnerAnchors => Gives(middle, "block_owner_closure_signature_wrong_key")
        /\ key \in OwnerAnchors /\ hex = Garbled
             => Gives(middle, "block_owner_closure_signature_malformed")
        /\ key \in OwnerAnchors /\ hex # Garbled /\ hex # Signature(key, ClosureMessage(q))
             => Gives(middle, "block_owner_closure_signature_invalid")
    BY SignatureGroup
  <2>3. /\ hex = Garbled => Gives(goMiddle, "block_owner_closure_signature_malformed")
        /\ hex # Garbled /\ key # GoOwner
             => Gives(goMiddle, "block_owner_closure_signature_wrong_key")
        /\ hex # Garbled /\ key = GoOwner /\ hex # Signature(GoOwner, GoClosureMessage(q))
             => Gives(goMiddle, "block_owner_closure_signature_invalid")
    BY <1>4, <2>1, GoSignatureGroup
  <2> HIDE DEF middle, goMiddle
  <2> QED
    BY <1>5, <1>6, <1>7, <2>1, <2>2, <2>3
<1>9. /\ before.shape = "closed" /\ p.closure.closed
      /\ q.closure.closure_version = "closure/0.1"
      /\ signature.signature_version = "closure/0.1"
  BY <1>1, <1>4, ClosureHolds
<1>10. Gives(ClosureLinks(q), c.expect) /\ (GoAllHold(p) => Gives(GoClosureLinks(q), c.expect))
  <2>1. CASE signature.shape = "absent"
    BY <1>5, <1>9, <2>1, ClosureGives
  <2>2. CASE signature.shape # "absent" /\ ~ q.closure.closed
    BY <1>5, <1>9, <2>2, ClosureGives
  <2>3. CASE signature.shape # "absent" /\ q.closure.closed
    <3>1. signature.shape = "closed"
      BY <1>5, <1>9, <2>3
    <3> QED
      BY <1>8, <1>9, <2>3, <3>1, ClosureGives
  <2> QED
    BY <2>1, <2>2, <2>3
<1>11. Unbroken(CommitLinks(q)) /\ (GoAllHold(p) => Unbroken(GoCommitLinks(q)))
  BY <1>1, <1>3, GroupsStay DEF AllHold, GoAllHold
<1>12. Tells(p, q, c.expect)
  BY <1>1, <1>3, <1>10, <1>11, ToldAtClosure
<1> QED
  BY <1>12 DEF q

\* Another commit of the same form: only what the owner closed tells it.
LEMMA OtherCommitTold ==
  ASSUME NEW p \in Published, PublishedIsSound(p), NEW q,
         q = [p EXCEPT !.committed_binding.commit_sha = ZeroCommit]
  PROVE  Tells(p, q, "block_owner_closure_signature_invalid")
<1> DEFINE binding == p.committed_binding
           changed == q.committed_binding
           signature == q.closure.signature
<1>1. AllHold(p)
  BY DEF PublishedIsSound
<1>2. /\ q.scope = p.scope /\ q.implementation_head_sha = p.implementation_head_sha
      /\ q.execution = p.execution /\ q.custody = p.custody /\ q.closure = p.closure
      /\ SameIn(q, p, ObservationMembers)
      /\ DOMAIN q = DOMAIN p /\ "committed_binding" \in DOMAIN p \ {"closure", "text"}
  BY PassportAssumption
  DEF PublishedAssumption, IsPassport, SameIn, ObservationMembers, BindingMembers,
      ContractMembers, EnvelopeMembers
<1>3. /\ {"identity_closed", "parent_sha", "commit_sha", "changed_paths",
          "committed_file_hashes"} \subseteq DOMAIN binding
      /\ ZeroCommit \in Commits /\ ZeroCommit # p.implementation_head_sha
      /\ ZeroCommit # binding.commit_sha
  BY CorpusAssumption DEF PublishedIsSound, HasMembers
<1>4. /\ changed.identity_closed = binding.identity_closed
      /\ changed.parent_sha = binding.parent_sha /\ changed.commit_sha = ZeroCommit
      /\ changed.changed_paths = binding.changed_paths
      /\ changed.committed_file_hashes = binding.committed_file_hashes
  BY <1>2, <1>3
<1>6. Unbroken(CommitLinks(q))
  <2>1. binding.parent_sha = p.implementation_head_sha /\ Unbroken(CommitLinks(p))
    BY <1>1, CommitHolds DEF AllHold
  <2> QED
    BY <1>2, <1>3, <1>4, <2>1, CommitStays
<1>7. GoAllHold(p) => Unbroken(GoCommitLinks(q))
  <2>1. GoBoundaryContract(q) <=> GoBoundaryContract(p)
    BY <1>2 DEF GoBoundaryContract
  <2> QED
    BY <1>6, <2>1, CommitsCompared DEF GoAllHold
<1>8. ClosureMessage(q) # ClosureMessage(p)
  <2>1. Core(q)["committed_binding"] = changed /\ Core(p)["committed_binding"] = binding
    BY <1>2 DEF Core
  <2>2. changed # binding
    BY <1>3, <1>4
  <2>3. Core(q) # Core(p)
    BY <2>1, <2>2
  <2>4. ClosureMessage(q).passport_core = Core(q) /\ ClosureMessage(p).passport_core = Core(p)
    BY DEF ClosureMessage
  <2> QED
    BY <2>3, <2>4
<1>9. /\ signature.shape = "closed" /\ q.closure.closed
      /\ q.closure.closure_version = "closure/0.1"
      /\ signature.signature_version = "closure/0.1"
      /\ signature.signing_key_id \in OwnerAnchors /\ signature.signature_hex # Garbled
      /\ signature.signature_hex = Signature(signature.signing_key_id, ClosureMessage(p))
      /\ GoAllHold(p) => signature.signing_key_id = GoOwner
  BY <1>1, <1>2, ClosureHolds
<1>10. signature.signature_hex # Signature(signature.signing_key_id, ClosureMessage(q))
  <2>1. \A key, message : Signature(key, message).over = message
    BY DEF Signature
  <2> QED
    BY <1>8, <1>9, <2>1
<1>11. GoClosureMessage(q) = ClosureMessage(q)
  BY <1>9 DEF GoClosureMessage, ClosureMessage
<1>12. Gives(ClosureLinks(q), "block_owner_closure_signature_invalid")
  BY <1>9, <1>10, SignatureGroup, ClosureGives
<1>13. GoAllHold(p) => Gives(GoClosureLinks(q), "block_owner_closure_signature_invalid")
  <2> DEFINE goMiddle == GoSignatureLinks(signature, "closure/0.1", GoOwner,
                           GoClosureMessage(q), "block_owner_closure_signature_malformed",
                           "block_owner_closure_signature_wrong_key",
                           "block_owner_closure_signature_invalid")
  <2>1. GoAllHold(p) => Gives(goMiddle, "block_owner_closure_signature_invalid")
    <3> SUFFICES ASSUME GoAllHold(p)
                 PROVE  Gives(goMiddle, "block_owner_closure_signature_invalid")
      OBVIOUS
    <3>1. /\ signature.signing_key_id = GoOwner /\ signature.signature_hex # Garbled
          /\ signature.signature_hex # Signature(GoOwner, GoClosureMessage(q))
          /\ signature.signature_version = "closure/0.1"
      BY <1>9, <1>10, <1>11
    <3> QED
      BY <3>1, GoSignatureGroup
  <2> HIDE DEF goMiddle
  <2>2. Gives(goMiddle, "block_owner_closure_signature_invalid")
          => Gives(GoClosureLinks(q), "block_owner_closure_signature_invalid")
    BY <1>9, ClosureGives DEF goMiddle
  <2> QED
    BY <2>1, <2>2
<1> QED
  BY <1>1, <1>2, <1>6, <1>7, <1>12, <1>13, ToldAtClosure

\* The same members in another spelling: the last link of both.
LEMMA RespacedTold ==
  ASSUME NEW p \in Published, PublishedIsSound(p), NEW q, q = [p EXCEPT !.text = "respaced"]
  PROVE  Tells(p, q, "block_public_run_passport_noncanonical_serialization")
<1> DEFINE r == "block_public_run_passport_noncanonical_serialization"
           signature == p.closure.signature
<1>1. AllHold(p)
  BY DEF PublishedIsSound
<1>2. /\ q.text = "respaced" /\ DOMAIN q = DOMAIN p
      /\ \A f \in DOMAIN p \ {"text"} : q[f] = p[f]
      /\ DOMAIN p = {"text", "unknown_field", "missing_field", "schema_version",
                     "sections_closed", "roadmap_step", "run_id", "execution_id",
                     "implementation_head_sha", "supplementary_evidence", "authorization",
                     "custody", "scope", "execution", "committed_binding", "closure"}
  BY PassportAssumption DEF PublishedAssumption, IsPassport
<1>3. /\ q.unknown_field = p.unknown_field /\ q.missing_field = p.missing_field
      /\ q.schema_version = p.schema_version /\ q.sections_closed = p.sections_closed
      /\ q.roadmap_step = p.roadmap_step /\ q.run_id = p.run_id
      /\ q.execution_id = p.execution_id
      /\ q.implementation_head_sha = p.implementation_head_sha
      /\ q.authorization = p.authorization /\ q.custody = p.custody /\ q.scope = p.scope
      /\ q.execution = p.execution /\ q.committed_binding = p.committed_binding
      /\ q.closure = p.closure
  BY <1>2
<1>4. Core(q) = Core(p)
  BY <1>2 DEF Core
<1>5. ClosureMessage(q) = ClosureMessage(p) /\ GoClosureMessage(q) = GoClosureMessage(p)
  BY <1>3, <1>4 DEF ClosureMessage, GoClosureMessage
<1>6. ClosureLinks(q) = ClosureLinks(p)
  BY <1>3, <1>5 DEF ClosureLinks
<1>7. Unbroken(ParseLinks(q))
  <2>1. \E a, b, c, d, e : ParseLinks(q) = <<a, b, c, d, e>>
    BY DEF ParseLinks
  <2>2. /\ ~ ParseLinks(q)[1].broken /\ ~ ParseLinks(q)[2].broken /\ ~ ParseLinks(q)[3].broken
        /\ ~ ParseLinks(q)[4].broken /\ ~ ParseLinks(q)[5].broken
    BY <1>2 DEF ParseLinks, Link
  <2> QED
    BY <2>1, <2>2, MoreLinksHold
<1>8. /\ EnvelopeLinks(q) = EnvelopeLinks(p) /\ GrantLinks(q) = GrantLinks(p)
      /\ CustodyLinks(q) = CustodyLinks(p) /\ ContractLinks(q) = ContractLinks(p)
      /\ BindingLinks(q) = BindingLinks(p) /\ ScopeLinks(q) = ScopeLinks(p)
      /\ ObservationLinks(q) = ObservationLinks(p) /\ CommitLinks(q) = CommitLinks(p)
      /\ GoGrantLinks(q) = GoGrantLinks(p) /\ GoCustodyLinks(q) = GoCustodyLinks(p)
      /\ GoBindingLinks(q) = GoBindingLinks(p) /\ GoScopeLinks(q) = GoScopeLinks(p)
      /\ GoObservationLinks(q) = GoObservationLinks(p)
      /\ GoCommitLinks(q) = GoCommitLinks(p)
  BY <1>3, GroupsRead
<1>9. Gives(WireLinks(q), r)
  <2>1. /\ WireLinks(q)[1].broken <=> q.text # "canonical"
        /\ WireLinks(q)[1].reason = r
    BY DEF WireLinks, Link
  <2> QED
    BY <1>2, <2>1, GroupsAreShaped, GivesAt
<1>10. Unbroken(GoEnvelopeLinks(q))
  BY <1>1, <1>7, <1>8, EnvelopesCompared DEF AllHold
<1>11. GoAllHold(p) => Gives(GoClosureLinks(q), r)
  <2> DEFINE goMiddle == GoSignatureLinks(signature, "closure/0.1", GoOwner,
                           GoClosureMessage(p), "block_owner_closure_signature_malformed",
                           "block_owner_closure_signature_wrong_key",
                           "block_owner_closure_signature_invalid")
             a == Link(signature.shape = "absent", "block_owner_closure_signature_missing")
             b == Link(~ p.closure.closed, "block_owner_closure_unknown_field")
             c == Link(signature.shape # "closed", "block_owner_closure_signature_malformed")
             d == Link(p.text # "canonical", r)
  <2>1. GoClosureLinks(p) = (<<a, b, c>> \o goMiddle) \o <<d>>
    BY DEF GoClosureLinks
  <2>2. \E S : goMiddle \in Seq(S)
    BY GoSignatureLinksAreASequence
  <2>3. GoAllHold(p) => Unbroken(goMiddle)
    <3> HIDE DEF a, b, c, d, goMiddle
    <3> QED
      BY <2>1, <2>2, ChainsHold DEF GoAllHold
  <2>4. signature.shape = "closed" /\ p.closure.closed
    BY <1>1, ClosureHolds
  <2> QED
    BY <1>2, <1>3, <1>5, <2>3, <2>4, ClosureGives
<1> HIDE DEF r
<1>12. Told(q, r)
  BY <1>1, <1>6, <1>7, <1>8, <1>9 DEF Told, Gives, AllHold, Refusal, Otherwise
<1>13. GoAllHold(p) => GoTold(q, r)
  BY <1>8, <1>10, <1>11 DEF GoTold, Gives, GoAllHold, GoRefusal, Otherwise
<1> QED
  BY <1>12, <1>13 DEF Tells, r
-----------------------------------------------------------------------------
(* The grant and the custody record. *)

\* Where the grant of a passport breaks: in its form, or in its signature.
LEMMA GrantGives ==
  ASSUME NEW q, NEW r
  PROVE  LET grant == q.authorization
             signature == grant.owner_signature
             malformed == "block_owner_authorization_malformed"
             rest == SignatureLinks(signature, OwnerAnchors, GrantMessage(grant),
                       "block_owner_authorization_wrong_key", malformed,
                       "block_owner_authorization_signature_invalid")
             goRest == GoSignatureLinks(signature, "v0.6", GoOwner, GrantMessage(grant),
                         malformed, "block_owner_authorization_wrong_key",
                         "block_owner_authorization_signature_invalid")
             formed == /\ signature.shape # "absent" /\ grant.well_formed
                       /\ IsList(grant.allowed_files) /\ IsList(grant.new_files)
                       /\ grant.acceptance_contract.closed
                       /\ IsList(grant.acceptance_contract.expected_changed_paths)
         IN  /\ signature.shape = "absent" =>
                  Gives(GrantLinks(q), malformed) /\ Gives(GoGrantLinks(q), malformed)
             /\ /\ formed /\ signature.signature_version = "v0.6"
                /\ grant.publication_class \in PublicationClasses
                => /\ Gives(rest, r) => Gives(GrantLinks(q), r)
                   /\ Unbroken(rest) => Unbroken(GrantLinks(q))
             /\ formed => /\ Gives(goRest, r) => Gives(GoGrantLinks(q), r)
                          /\ Unbroken(goRest) => Unbroken(GoGrantLinks(q))
<1> DEFINE grant == q.authorization
           signature == grant.owner_signature
           malformed == "block_owner_authorization_malformed"
           rest == SignatureLinks(signature, OwnerAnchors, GrantMessage(grant),
                     "block_owner_authorization_wrong_key", malformed,
                     "block_owner_authorization_signature_invalid")
           goRest == GoSignatureLinks(signature, "v0.6", GoOwner, GrantMessage(grant),
                       malformed, "block_owner_authorization_wrong_key",
                       "block_owner_authorization_signature_invalid")
           formed == /\ signature.shape # "absent" /\ grant.well_formed
                     /\ IsList(grant.allowed_files) /\ IsList(grant.new_files)
                     /\ grant.acceptance_contract.closed
                     /\ IsList(grant.acceptance_contract.expected_changed_paths)
           a == Link(\/ signature.shape = "absent"
                     \/ signature.signature_version \notin {"v0.5", "v0.6"}
                     \/ ~ GrantFit(grant), malformed)
           b == Link(\/ signature.shape = "absent" \/ ~ grant.well_formed
                     \/ ~ IsList(grant.allowed_files) \/ ~ IsList(grant.new_files)
                     \/ ~ grant.acceptance_contract.closed
                     \/ ~ IsList(grant.acceptance_contract.expected_changed_paths), malformed)
<1>1. GrantLinks(q) = <<a>> \o rest /\ GoGrantLinks(q) = <<b>> \o goRest
  BY DEF GrantLinks, GoGrantLinks
<1>2. (\E S : rest \in Seq(S)) /\ (\E S : goRest \in Seq(S))
  BY SignatureLinksAreASequence, GoSignatureLinksAreASequence
<1>3. /\ signature.shape = "absent" => a.broken /\ b.broken
      /\ formed <=> ~ b.broken
      /\ a.reason = malformed /\ b.reason = malformed
  BY DEF Link
<1>4. /\ formed /\ signature.signature_version = "v0.6"
      /\ grant.publication_class \in PublicationClasses
      => ~ a.broken
  BY DEF Link, GrantFit
<1> HIDE DEF a, b, rest, goRest, formed, malformed
<1>5. Shaped(<<a>>, 1) /\ Shaped(<<b>>, 1)
  BY Tuples
<1>6. /\ (\E S : <<a>> \in Seq(S)) /\ (\E S : <<b>> \in Seq(S))
      /\ Unbroken(<<a>>) <=> ~ a.broken
      /\ Unbroken(<<b>>) <=> ~ b.broken
  BY LinksAreASequence, LinksHold
<1>7. /\ a.broken => Gives(<<a>>, malformed)
      /\ b.broken => Gives(<<b>>, malformed)
  BY <1>3, <1>5, GivesAt
<1>8. /\ Gives(<<a>>, malformed) => Gives(GrantLinks(q), malformed)
      /\ Gives(<<b>>, malformed) => Gives(GoGrantLinks(q), malformed)
      /\ Unbroken(<<a>>) /\ Gives(rest, r) => Gives(GrantLinks(q), r)
      /\ Unbroken(<<b>>) /\ Gives(goRest, r) => Gives(GoGrantLinks(q), r)
  BY <1>1, <1>2, <1>6, GivesLater
<1>9. /\ Unbroken(<<a>>) /\ Unbroken(rest) => Unbroken(GrantLinks(q))
      /\ Unbroken(<<b>>) /\ Unbroken(goRest) => Unbroken(GoGrantLinks(q))
  <2>1. Unbroken(<<a>>) /\ Unbroken(rest) => Unbroken(GrantLinks(q))
    <3>1. Unbroken(<<a>> \o rest) <=> ~ a.broken /\ Unbroken(rest)
      BY ONLY <1>2, ChainsHold
    <3> QED
      BY <1>1, <1>6, <3>1
  <2>2. Unbroken(<<b>>) /\ Unbroken(goRest) => Unbroken(GoGrantLinks(q))
    <3>1. Unbroken(<<b>> \o goRest) <=> ~ b.broken /\ Unbroken(goRest)
      BY ONLY <1>2, ChainsHold
    <3> QED
      BY <1>1, <1>6, <3>1
  <2> QED
    BY <2>1, <2>2
<1>10. /\ signature.shape = "absent" =>
            Gives(GrantLinks(q), malformed) /\ Gives(GoGrantLinks(q), malformed)
       /\ /\ formed /\ signature.signature_version = "v0.6"
          /\ grant.publication_class \in PublicationClasses
          => /\ Gives(rest, r) => Gives(GrantLinks(q), r)
             /\ Unbroken(rest) => Unbroken(GrantLinks(q))
       /\ formed => /\ Gives(goRest, r) => Gives(GoGrantLinks(q), r)
                    /\ Unbroken(goRest) => Unbroken(GoGrantLinks(q))
  BY <1>3, <1>4, <1>6, <1>7, <1>8, <1>9
<1> QED
  BY <1>10 DEF rest, goRest, formed, malformed

\* What the grant of a published passport says.
LEMMA GrantHolds ==
  ASSUME NEW p, AllHold(p), p.authorization.owner_signature.shape = "closed"
  PROVE  LET grant == p.authorization
             signature == grant.owner_signature
         IN  /\ grant.well_formed
             /\ IsList(grant.allowed_files) /\ IsList(grant.new_files)
             /\ grant.acceptance_contract.closed
             /\ IsList(grant.acceptance_contract.expected_changed_paths)
             /\ grant.publication_class \in PublicationClasses
             /\ signature.signature_version = "v0.6"
             /\ signature.signing_key_id \in OwnerAnchors
             /\ signature.signature_hex # Garbled
             /\ signature.signature_hex = Signature(signature.signing_key_id, GrantMessage(grant))
             /\ GoAllHold(p) => signature.signing_key_id = GoOwner
<1>1. /\ GrantFit(p.authorization)
      /\ p.authorization.owner_signature.signing_key_id \in OwnerAnchors
      /\ p.authorization.owner_signature.signature_hex # Garbled
      /\ p.authorization.owner_signature.signature_hex
           = Signature(p.authorization.owner_signature.signing_key_id,
                       GrantMessage(p.authorization))
  BY GrantVerified DEF AllHold
<1>2. p.authorization.owner_signature.signature_version = "v0.6" /\ GoCustodyContract(p)
  BY ContractsCompared DEF AllHold
<1>3. p.authorization.publication_class \in PublicationClasses
  BY <1>2 DEF GoCustodyContract, PublicationClasses
<1>4. GoAllHold(p) => p.authorization.owner_signature.signing_key_id = GoOwner
  BY <1>3, GrantsCompared DEF GoAllHold
<1> QED
  BY <1>1, <1>2, <1>3, <1>4 DEF GrantFit

\* No key made the scrambled signature, and a signature is over one message.
LEMMA SignaturesTell ==
  /\ \A key \in OwnerAnchors \cup CustodyAnchors : \A message : Scrambled # Signature(key, message)
  /\ \A key, m1, m2 : Signature(key, m1) = Signature(key, m2) => m1 = m2
<1>1. \A key, message : Signature(key, message).by = key /\ Signature(key, message).over = message
  BY DEF Signature
<1>2. Scrambled.by = Null
  BY DEF Signature, Scrambled
<1>3. Null \notin OwnerAnchors \cup CustodyAnchors
  BY PassportAssumption DEF AnchorsAssumption
<1>4. ASSUME NEW key \in OwnerAnchors \cup CustodyAnchors, NEW message,
             Scrambled = Signature(key, message)
      PROVE  FALSE
  BY <1>1, <1>2, <1>3, <1>4
<1>5. ASSUME NEW key, NEW m1, NEW m2, Signature(key, m1) = Signature(key, m2) PROVE m1 = m2
  <2>1. Signature(key, m1).over = m1 /\ Signature(key, m2).over = m2
    BY <1>1
  <2> QED
    BY <1>5, <2>1
<1> QED
  BY <1>4, <1>5

\* The cases of the grant that break it.
LEMMA GrantsTold ==
  ASSUME NEW p \in Published, PublishedIsSound(p), NEW c \in GrantCases(p),
         c.expect # "block_grant_custody_binding_mismatch"
  PROVE  Tells(p, c.mutated, c.expect)
<1> DEFINE q == c.mutated
           before == p.authorization
           grant == q.authorization
           signature == grant.owner_signature
           rest == SignatureLinks(signature, OwnerAnchors, GrantMessage(grant),
                     "block_owner_authorization_wrong_key",
                     "block_owner_authorization_malformed",
                     "block_owner_authorization_signature_invalid")
           goRest == GoSignatureLinks(signature, "v0.6", GoOwner, GrantMessage(grant),
                       "block_owner_authorization_malformed",
                       "block_owner_authorization_wrong_key",
                       "block_owner_authorization_signature_invalid")
<1>1. /\ AllHold(p) /\ before.owner_signature.shape = "closed"
      /\ SecondFile \notin before.allowed_files.paths
  BY DEF PublishedIsSound
<1>2. /\ "authorization" \in DOMAIN p
      /\ {"well_formed", "publication_class", "allowed_files", "new_files",
          "acceptance_contract", "owner_signature"} \subseteq DOMAIN before
      /\ {"shape", "signature_version", "signing_key_id", "signature_hex"}
           \subseteq DOMAIN before.owner_signature
      /\ {"paths", "spelling"} \subseteq DOMAIN before.allowed_files
  BY PassportAssumption DEF PublishedAssumption, IsPassport, PublishedIsSound, HasMembers
<1>3. SameIn(q, p, EnvelopeMembers)
  BY PassportAssumption
  DEF PublishedAssumption, IsPassport, SameIn, EnvelopeMembers, GrantCases, Case
<1>4. /\ grant.well_formed = before.well_formed
      /\ grant.publication_class = before.publication_class
      /\ grant.new_files = before.new_files
      /\ grant.acceptance_contract = before.acceptance_contract
      /\ grant.allowed_files.spelling = before.allowed_files.spelling
      /\ signature.signature_version = before.owner_signature.signature_version
  BY <1>2 DEF GrantCases, Case, Appended
<1>5. \/ /\ signature.shape = "absent"
         /\ c.expect = "block_owner_authorization_malformed"
      \/ /\ signature.shape = "closed"
         /\ \/ /\ signature.signing_key_id = "unknown-owner"
               /\ signature.signature_hex = before.owner_signature.signature_hex
               /\ c.expect = "block_owner_authorization_wrong_key"
            \/ /\ signature.signing_key_id = before.owner_signature.signing_key_id
               /\ signature.signature_hex = Scrambled
               /\ c.expect = "block_owner_authorization_signature_invalid"
            \/ /\ signature.signing_key_id = before.owner_signature.signing_key_id
               /\ signature.signature_hex = before.owner_signature.signature_hex
               /\ SecondFile \in grant.allowed_files.paths
               /\ c.expect = "block_owner_authorization_signature_invalid"
  BY <1>1, <1>2 DEF GrantCases, Case, Appended
<1>6. /\ "unknown-owner" \notin OwnerAnchors /\ Garbled # Scrambled /\ GoOwner \in OwnerAnchors
  BY CorpusAssumption, GoAssumption
<1> HIDE DEF q
<1>7. /\ before.well_formed /\ IsList(before.allowed_files) /\ IsList(before.new_files)
      /\ before.acceptance_contract.closed
      /\ IsList(before.acceptance_contract.expected_changed_paths)
      /\ before.publication_class \in PublicationClasses
      /\ before.owner_signature.signature_version = "v0.6"
      /\ before.owner_signature.signing_key_id \in OwnerAnchors
      /\ before.owner_signature.signature_hex # Garbled
      /\ before.owner_signature.signature_hex
           = Signature(before.owner_signature.signing_key_id, GrantMessage(before))
      /\ GoAllHold(p) => before.owner_signature.signing_key_id = GoOwner
  BY <1>1, GrantHolds
<1>8. SecondFile \in grant.allowed_files.paths => GrantMessage(grant) # GrantMessage(before)
  <2>1. /\ GrantMessage(grant).allowed_files = Normalized(grant.allowed_files)
        /\ GrantMessage(before).allowed_files = Normalized(before.allowed_files)
    BY DEF GrantMessage
  <2>2. /\ Normalized(grant.allowed_files) = grant.allowed_files.paths
        /\ Normalized(before.allowed_files) = before.allowed_files.paths
    BY <1>4, <1>7 DEF Normalized, IsList
  <2> QED
    BY <1>1, <2>1, <2>2
<1>9. CASE signature.shape = "absent"
  <2>1. c.expect = "block_owner_authorization_malformed"
    BY <1>5, <1>9
  <2>2. Gives(GrantLinks(q), c.expect) /\ Gives(GoGrantLinks(q), c.expect)
    BY <1>9, <2>1, GrantGives
  <2>3. Tells(p, q, c.expect)
    BY <1>1, <1>3, <2>2, ToldAtGrant
  <2> QED
    BY <2>3 DEF q
<1>10. CASE signature.shape # "absent"
  <2> DEFINE key == signature.signing_key_id
             hex == signature.signature_hex
             Wrong == key \notin OwnerAnchors /\ hex # Garbled
                      /\ c.expect = "block_owner_authorization_wrong_key"
             Invalid == /\ key \in OwnerAnchors /\ hex # Garbled
                        /\ hex # Signature(key, GrantMessage(grant))
                        /\ (GoAllHold(p) => key = GoOwner)
                        /\ c.expect = "block_owner_authorization_signature_invalid"
  <2>1. Wrong \/ Invalid
    BY <1>5, <1>6, <1>7, <1>8, <1>10, SignaturesTell
  <2>2. Gives(rest, c.expect)
    <3>1. /\ key \notin OwnerAnchors => Gives(rest, "block_owner_authorization_wrong_key")
          /\ key \in OwnerAnchors /\ hex # Garbled /\ hex # Signature(key, GrantMessage(grant))
               => Gives(rest, "block_owner_authorization_signature_invalid")
      BY SignatureGroup
    <3> QED
      BY <2>1, <3>1
  <2>3. GoAllHold(p) => Gives(goRest, c.expect)
    <3>1. /\ hex # Garbled /\ key # GoOwner
               => Gives(goRest, "block_owner_authorization_wrong_key")
          /\ hex # Garbled /\ key = GoOwner /\ hex # Signature(GoOwner, GrantMessage(grant))
               => Gives(goRest, "block_owner_authorization_signature_invalid")
      <4>1. signature.signature_version = "v0.6"
        BY <1>4, <1>7
      <4> QED
        BY <4>1, GoSignatureGroup
    <3> HIDE DEF rest, goRest
    <3> QED
      BY <1>6, <2>1, <3>1
  <2>4. /\ grant.well_formed /\ IsList(grant.allowed_files) /\ IsList(grant.new_files)
        /\ grant.acceptance_contract.closed
        /\ IsList(grant.acceptance_contract.expected_changed_paths)
        /\ signature.signature_version = "v0.6"
        /\ grant.publication_class \in PublicationClasses
    BY <1>4, <1>7 DEF IsList
  <2>5. Gives(GrantLinks(q), c.expect)
    BY <1>10, <2>2, <2>4, GrantGives
  <2>6. GoAllHold(p) => Gives(GoGrantLinks(q), c.expect)
    BY <1>10, <2>3, <2>4, GrantGives
  <2>7. Tells(p, q, c.expect)
    BY <1>1, <1>3, <2>5, <2>6, ToldAtGrant
  <2> QED
    BY <2>7 DEF q
<1> QED
  BY <1>9, <1>10

\* A signature that verifies leaves no link of it broken.
LEMMA SignatureHolds ==
  ASSUME NEW sig, NEW anchors, NEW message, NEW version, NEW wrong, NEW malformed, NEW invalid,
         sig.signing_key_id \in anchors, sig.signature_hex # Garbled,
         sig.signature_hex = Signature(sig.signing_key_id, message)
  PROVE  /\ Unbroken(SignatureLinks(sig, anchors, message, wrong, malformed, invalid))
         /\ sig.signature_version = version =>
              Unbroken(GoSignatureLinks(sig, version, sig.signing_key_id, message,
                         malformed, wrong, invalid))
<1> DEFINE links == SignatureLinks(sig, anchors, message, wrong, malformed, invalid)
           goLinks == GoSignatureLinks(sig, version, sig.signing_key_id, message,
                        malformed, wrong, invalid)
<1>1. ~ links[1].broken /\ ~ links[2].broken /\ ~ links[3].broken
  BY DEF SignatureLinks, Link
<1>2. sig.signature_version = version =>
        ~ goLinks[1].broken /\ ~ goLinks[2].broken /\ ~ goLinks[3].broken
  BY DEF GoSignatureLinks, Link
<1>3. (\E a, b, c : links = <<a, b, c>>) /\ (\E a, b, c : goLinks = <<a, b, c>>)
  BY DEF SignatureLinks, GoSignatureLinks
<1> HIDE DEF links, goLinks
<1>4. /\ Unbroken(links)
      /\ sig.signature_version = version => Unbroken(goLinks)
  BY <1>1, <1>2, <1>3, LinksHold
<1> QED
  BY <1>4 DEF links, goLinks

\* A member of the grant's signature that nobody signs: the digest of the grant tells it.
LEMMA OpenGrantTold ==
  ASSUME NEW p \in Published, PublishedIsSound(p), NEW q,
         q = [p EXCEPT !.authorization.owner_signature.shape = "open"]
  PROVE  Tells(p, q, "block_grant_custody_binding_mismatch")
<1> DEFINE before == p.authorization
           grant == q.authorization
           signature == grant.owner_signature
           r == "block_grant_custody_binding_mismatch"
<1>1. AllHold(p) /\ before.owner_signature.shape = "closed"
  BY DEF PublishedIsSound
<1>2. /\ "authorization" \in DOMAIN p
      /\ {"well_formed", "grant_id", "run_id", "head_sha", "terms", "allowed_scope",
          "operation_class", "publication_class", "allowed_files", "new_files",
          "acceptance_contract", "owner_signature"} \subseteq DOMAIN before
      /\ {"shape", "signature_version", "signing_key_id", "signature_hex"}
           \subseteq DOMAIN before.owner_signature
  BY PassportAssumption DEF PublishedAssumption, IsPassport, PublishedIsSound, HasMembers
<1>3. /\ SameIn(q, p, EnvelopeMembers) /\ SameIn(q, p, {"custody"})
      /\ q.custody = p.custody /\ q.roadmap_step = p.roadmap_step
  BY PassportAssumption DEF PublishedAssumption, IsPassport, SameIn, EnvelopeMembers
<1>4. /\ grant.well_formed = before.well_formed /\ grant.grant_id = before.grant_id
      /\ grant.run_id = before.run_id /\ grant.head_sha = before.head_sha
      /\ grant.terms = before.terms /\ grant.allowed_scope = before.allowed_scope
      /\ grant.operation_class = before.operation_class
      /\ grant.publication_class = before.publication_class
      /\ grant.allowed_files = before.allowed_files /\ grant.new_files = before.new_files
      /\ grant.acceptance_contract = before.acceptance_contract
  BY <1>2
<1>5. /\ signature.shape = "open"
      /\ signature.signature_version = before.owner_signature.signature_version
      /\ signature.signing_key_id = before.owner_signature.signing_key_id
      /\ signature.signature_hex = before.owner_signature.signature_hex
  BY <1>2
<1>6. GrantMessage(grant) = GrantMessage(before)
  BY <1>4, <1>5 DEF GrantMessage
<1>7. /\ before.well_formed /\ IsList(before.allowed_files) /\ IsList(before.new_files)
      /\ before.acceptance_contract.closed
      /\ IsList(before.acceptance_contract.expected_changed_paths)
      /\ before.publication_class \in PublicationClasses
      /\ before.owner_signature.signature_version = "v0.6"
      /\ before.owner_signature.signing_key_id \in OwnerAnchors
      /\ before.owner_signature.signature_hex # Garbled
      /\ before.owner_signature.signature_hex
           = Signature(before.owner_signature.signing_key_id, GrantMessage(before))
      /\ GoAllHold(p) => before.owner_signature.signing_key_id = GoOwner
  BY <1>1, GrantHolds
<1> HIDE DEF grant, signature
<1>8. Unbroken(GrantLinks(q)) /\ (GoAllHold(p) => Unbroken(GoGrantLinks(q)))
  <2>1. Unbroken(SignatureLinks(signature, OwnerAnchors, GrantMessage(grant),
                   "block_owner_authorization_wrong_key",
                   "block_owner_authorization_malformed",
                   "block_owner_authorization_signature_invalid"))
    BY <1>5, <1>6, <1>7, SignatureHolds
  <2>2. GoAllHold(p) =>
          Unbroken(GoSignatureLinks(signature, "v0.6", GoOwner, GrantMessage(grant),
                     "block_owner_authorization_malformed",
                     "block_owner_authorization_wrong_key",
                     "block_owner_authorization_signature_invalid"))
    <3>1. Unbroken(GoSignatureLinks(signature, "v0.6", signature.signing_key_id,
                     GrantMessage(grant), "block_owner_authorization_malformed",
                     "block_owner_authorization_wrong_key",
                     "block_owner_authorization_signature_invalid"))
      BY <1>5, <1>6, <1>7, SignatureHolds
    <3>2. GoAllHold(p) => signature.signing_key_id = GoOwner
      BY <1>5, <1>7
    <3> QED
      BY <3>1, <3>2
  <2>3. /\ signature.shape # "absent" /\ signature.signature_version = "v0.6"
        /\ grant.well_formed /\ IsList(grant.allowed_files) /\ IsList(grant.new_files)
        /\ grant.acceptance_contract.closed
        /\ IsList(grant.acceptance_contract.expected_changed_paths)
        /\ grant.publication_class \in PublicationClasses
    BY <1>4, <1>5, <1>7
  <2> QED
    BY <2>1, <2>2, <2>3, GrantGives DEF grant, signature
<1>9. GoCustodyContract(p) /\ Unbroken(ContractLinks(p))
  BY <1>1, BindingsHold DEF AllHold
<1>10. GoCustodyContract(q)
  BY <1>3, <1>4, <1>9 DEF GoCustodyContract, grant
<1>11. Unbroken(ContractLinks(q))
  <2>1. LandlockHolds(p.custody.runner_report.os_boundary, p.custody.allowed_files)
    BY <1>9, ContractsCompared
  <2> QED
    BY <1>3, <1>5, <1>7, <1>10, <2>1, ContractsCompared DEF grant, signature
<1>12. q.custody.grant_sha256 # GrantDigest(q.authorization)
  <2>1. p.custody.grant_sha256 = before
    BY <1>1, BindingVerified DEF AllHold, GrantDigest
  <2>2. grant # before
    <3>1. grant = before => signature = before.owner_signature
      BY DEF signature
    <3> QED
      BY <1>1, <1>5, <3>1
  <2> QED
    BY <1>3, <2>1, <2>2 DEF GrantDigest, grant
<1>13. Gives(BindingLinks(q), r) /\ Gives(GoBindingLinks(q), r)
  <2> DEFINE links == BindingLinks(q)
             goLinks == GoBindingLinks(q)
  <2>1. links[1].broken /\ links[1].reason = r
    BY <1>12 DEF BindingLinks, Link
  <2>2. ~ goLinks[1].broken /\ goLinks[2].broken /\ goLinks[2].reason = r
    BY <1>10, <1>12 DEF GoBindingLinks, Link
  <2>3. Shaped(links, 5) /\ Shaped(goLinks, 6)
    BY GroupsAreShaped
  <2> HIDE DEF links, goLinks
  <2>4. Gives(links, r) /\ Gives(goLinks, r)
    BY <2>1, <2>2, <2>3, GivesAt
  <2> QED
    BY <2>4 DEF links, goLinks
<1>14. /\ ParseLinks(q) = ParseLinks(p) /\ EnvelopeLinks(q) = EnvelopeLinks(p)
       /\ GoEnvelopeLinks(q) = GoEnvelopeLinks(p)
       /\ CustodyLinks(q) = CustodyLinks(p) /\ GoCustodyLinks(q) = GoCustodyLinks(p)
  BY <1>3, GroupsStay
<1>15. Told(q, r)
  BY <1>1, <1>8, <1>11, <1>13, <1>14 DEF Told, Gives, AllHold, Refusal, Otherwise
<1>16. GoAllHold(p) => GoTold(q, r)
  BY <1>8, <1>13, <1>14 DEF GoTold, Gives, GoAllHold, GoRefusal, Otherwise
<1> QED
  BY <1>15, <1>16 DEF Tells

\* Where the custody record of a passport breaks: before its signature, or in it.
LEMMA CustodyGives ==
  ASSUME NEW q, NEW r
  PROVE  LET custody == q.custody
             signature == custody.signature
             known == custody.record_schema = "deedseal-supervised-run-custody/1.0"
             malformed == "block_custody_record_malformed"
             rest == SignatureLinks(signature, CustodyAnchors, CustodyMessage(custody),
                       "block_custody_record_wrong_key", malformed,
                       "block_custody_record_signature_invalid")
             goRest == GoSignatureLinks(signature, "custody/0.1", GoCustody,
                         CustodyMessage(custody), malformed,
                         "block_custody_record_wrong_key",
                         "block_custody_record_signature_invalid")
         IN  /\ ~ known =>
                  /\ Gives(CustodyLinks(q), "block_custody_record_schema_unsupported")
                  /\ Gives(GoCustodyLinks(q), "block_custody_record_schema_unsupported")
             /\ known /\ signature.shape # "closed" =>
                  Gives(CustodyLinks(q), malformed) /\ Gives(GoCustodyLinks(q), malformed)
             /\ /\ known /\ custody.closed /\ signature.shape = "closed"
                /\ signature.signature_version = "custody/0.1" /\ Gives(rest, r)
                => Gives(CustodyLinks(q), r)
             /\ known /\ custody.closed /\ signature.shape = "closed" /\ Gives(goRest, r)
                  => Gives(GoCustodyLinks(q), r)
<1> DEFINE custody == q.custody
           signature == custody.signature
           known == custody.record_schema = "deedseal-supervised-run-custody/1.0"
           unsupported == "block_custody_record_schema_unsupported"
           malformed == "block_custody_record_malformed"
           rest == SignatureLinks(signature, CustodyAnchors, CustodyMessage(custody),
                     "block_custody_record_wrong_key", malformed,
                     "block_custody_record_signature_invalid")
           goRest == GoSignatureLinks(signature, "custody/0.1", GoCustody,
                       CustodyMessage(custody), malformed,
                       "block_custody_record_wrong_key",
                       "block_custody_record_signature_invalid")
           a == Link(custody.record_schema # "deedseal-supervised-run-custody/1.0", unsupported)
           b == Link(\/ ~ custody.closed \/ signature.shape # "closed"
                     \/ signature.signature_version # "custody/0.1", malformed)
           d == Link(~ custody.closed \/ signature.shape # "closed", malformed)
           first == <<a, b>>
           goFirst == <<a, d>>
<1>1. CustodyLinks(q) = first \o rest /\ GoCustodyLinks(q) = goFirst \o goRest
  BY DEF CustodyLinks, GoCustodyLinks
<1>2. (\E S : rest \in Seq(S)) /\ (\E S : goRest \in Seq(S))
  BY SignatureLinksAreASequence, GoSignatureLinksAreASequence
<1>3. /\ a.broken <=> ~ known
      /\ signature.shape # "closed" => b.broken /\ d.broken
      /\ /\ custody.closed /\ signature.shape = "closed"
         /\ signature.signature_version = "custody/0.1"
         => ~ b.broken
      /\ custody.closed /\ signature.shape = "closed" => ~ d.broken
      /\ a.reason = unsupported /\ b.reason = malformed /\ d.reason = malformed
  BY DEF Link
<1> HIDE DEF a, b, d, rest, goRest, known, malformed, unsupported
<1>4. /\ Shaped(first, 2) /\ Shaped(goFirst, 2)
      /\ first[1] = a /\ first[2] = b /\ goFirst[1] = a /\ goFirst[2] = d
  BY Tuples
<1>5. /\ (\E S : first \in Seq(S)) /\ (\E S : goFirst \in Seq(S))
      /\ Unbroken(first) <=> ~ a.broken /\ ~ b.broken
      /\ Unbroken(goFirst) <=> ~ a.broken /\ ~ d.broken
  BY LinksAreASequence, LinksHold
<1> HIDE DEF first, goFirst
<1>6. ASSUME NEW s
      PROVE  /\ Gives(first, s) => Gives(CustodyLinks(q), s)
             /\ Gives(goFirst, s) => Gives(GoCustodyLinks(q), s)
             /\ Unbroken(first) /\ Gives(rest, s) => Gives(CustodyLinks(q), s)
             /\ Unbroken(goFirst) /\ Gives(goRest, s) => Gives(GoCustodyLinks(q), s)
  BY <1>1, <1>2, <1>5, GivesLater
<1>7. /\ a.broken => Gives(first, unsupported) /\ Gives(goFirst, unsupported)
      /\ ~ a.broken /\ b.broken => Gives(first, malformed)
      /\ ~ a.broken /\ d.broken => Gives(goFirst, malformed)
  BY <1>3, <1>4, GivesAt
<1>8. /\ ~ known => Gives(CustodyLinks(q), unsupported) /\ Gives(GoCustodyLinks(q), unsupported)
      /\ known /\ signature.shape # "closed" =>
           Gives(CustodyLinks(q), malformed) /\ Gives(GoCustodyLinks(q), malformed)
  BY <1>3, <1>6, <1>7
<1>9. /\ /\ known /\ custody.closed /\ signature.shape = "closed"
         /\ signature.signature_version = "custody/0.1" /\ Gives(rest, r)
         => Gives(CustodyLinks(q), r)
      /\ known /\ custody.closed /\ signature.shape = "closed" /\ Gives(goRest, r)
           => Gives(GoCustodyLinks(q), r)
  BY <1>3, <1>5, <1>6
<1> QED
  BY <1>8, <1>9 DEF rest, goRest, known, malformed, unsupported

\* What the custody record of a published passport says.
LEMMA CustodyHolds ==
  ASSUME NEW p, AllHold(p)
  PROVE  LET custody == p.custody
             signature == custody.signature
         IN  /\ custody.record_schema = "deedseal-supervised-run-custody/1.0"
             /\ custody.closed /\ signature.shape = "closed"
             /\ signature.signature_version = "custody/0.1"
             /\ signature.signing_key_id \in CustodyAnchors
             /\ signature.signature_hex # Garbled
             /\ signature.signature_hex
                  = Signature(signature.signing_key_id, CustodyMessage(custody))
             /\ GoAllHold(p) => signature.signing_key_id = GoCustody
<1> DEFINE custody == p.custody
           signature == custody.signature
           rest == SignatureLinks(signature, CustodyAnchors, CustodyMessage(custody),
                     "block_custody_record_wrong_key", "block_custody_record_malformed",
                     "block_custody_record_signature_invalid")
           a == Link(custody.record_schema # "deedseal-supervised-run-custody/1.0",
                     "block_custody_record_schema_unsupported")
           b == Link(\/ ~ custody.closed \/ signature.shape # "closed"
                     \/ signature.signature_version # "custody/0.1",
                     "block_custody_record_malformed")
<1>1. CustodyLinks(p) = <<a, b>> \o rest
  BY DEF CustodyLinks
<1>2. \E S : rest \in Seq(S)
  BY SignatureLinksAreASequence
<1>3. ~ a.broken /\ ~ b.broken
  <2> HIDE DEF a, b, rest
  <2>1. Unbroken(<<a, b>> \o rest)
    BY <1>1 DEF AllHold
  <2> QED
    BY <1>2, <2>1, ChainsHold
<1>4. /\ custody.record_schema = "deedseal-supervised-run-custody/1.0"
      /\ custody.closed /\ signature.shape = "closed"
      /\ signature.signature_version = "custody/0.1"
  BY <1>3 DEF Link
<1>5. /\ signature.signing_key_id \in CustodyAnchors
      /\ signature.signature_hex # Garbled
      /\ signature.signature_hex
           = Signature(signature.signing_key_id, CustodyMessage(custody))
  BY CustodyVerified DEF AllHold
<1>6. GoAllHold(p) => signature.signing_key_id = GoCustody
  BY CustodiesCompared DEF GoAllHold
<1> QED
  BY <1>4, <1>5, <1>6

\* The members of a published passport.
LEMMA PublishedMembers ==
  ASSUME NEW p \in Published
  PROVE  DOMAIN p = {"text", "unknown_field", "missing_field", "schema_version",
                     "sections_closed", "roadmap_step", "run_id", "execution_id",
                     "implementation_head_sha", "supplementary_evidence", "authorization",
                     "custody", "scope", "execution", "committed_binding", "closure"}
BY PassportAssumption DEF PublishedAssumption, IsPassport

\* The four cases that change the runner's report: what the custody service signed
\* is another report.
LEMMA OtherReport ==
  ASSUME NEW p \in Published, PublishedIsSound(p), NEW q,
         \/ q = [p EXCEPT !.custody.runner_report.boundary_present = FALSE]
         \/ q = [p EXCEPT !.custody.runner_report.os_boundary.rules.paths = {}]
         \/ q = [p EXCEPT !.custody.runner_report.os_boundary.rules.spelling = "repeated"]
         \/ q = [p EXCEPT !.custody.runner_report.os_boundary.runtime_scratch = FALSE]
  PROVE  /\ q.custody.record_schema = p.custody.record_schema
         /\ q.custody.closed = p.custody.closed
         /\ q.custody.signature = p.custody.signature
         /\ CustodyMessage(q.custody) # CustodyMessage(p.custody)
<1> DEFINE before == p.custody.runner_report
           report == q.custody.runner_report
<1>1. /\ "custody" \in DOMAIN p
      /\ {"record_schema", "closed", "signature", "runner_report"} \subseteq DOMAIN p.custody
      /\ {"boundary_present", "os_boundary"} \subseteq DOMAIN before
      /\ {"rules", "runtime_scratch"} \subseteq DOMAIN before.os_boundary
      /\ {"paths", "spelling"} \subseteq DOMAIN before.os_boundary.rules
  <2>1. HasMembers(p)
    BY DEF PublishedIsSound
  <2>2. "custody" \in DOMAIN p
    BY PublishedMembers
  <2> QED
    BY <2>1, <2>2 DEF HasMembers
<1>2. /\ before.boundary_present /\ before.os_boundary.runtime_scratch
      /\ before.os_boundary.rules.paths # {}
      /\ before.os_boundary.rules.spelling # "repeated"
  <2>1. /\ GoCustodyContract(p)
        /\ LandlockHolds(before.os_boundary, p.custody.allowed_files)
        /\ before.os_boundary.schema_version = "1.1"
    BY BindingsHold DEF PublishedIsSound
  <2> QED
    BY <2>1 DEF GoCustodyContract, LandlockHolds
<1>3. /\ q.custody.record_schema = p.custody.record_schema
      /\ q.custody.closed = p.custody.closed
      /\ q.custody.signature = p.custody.signature
      /\ DOMAIN q.custody = DOMAIN p.custody
  BY <1>1
<1>4. report # before
  <2>1. CASE q = [p EXCEPT !.custody.runner_report.boundary_present = FALSE]
    <3>1. ~ report.boundary_present
      BY <1>1, <2>1
    <3> QED
      BY <1>2, <3>1
  <2>2. CASE q = [p EXCEPT !.custody.runner_report.os_boundary.rules.paths = {}]
    <3>1. report.os_boundary.rules.paths = {}
      BY <1>1, <2>2
    <3> QED
      BY <1>2, <3>1
  <2>3. CASE q = [p EXCEPT !.custody.runner_report.os_boundary.rules.spelling = "repeated"]
    <3>1. report.os_boundary.rules.spelling = "repeated"
      BY <1>1, <2>3
    <3> QED
      BY <1>2, <3>1
  <2>4. CASE q = [p EXCEPT !.custody.runner_report.os_boundary.runtime_scratch = FALSE]
    <3>1. ~ report.os_boundary.runtime_scratch
      BY <1>1, <2>4
    <3> QED
      BY <1>2, <3>1
  <2> QED
    BY <2>1, <2>2, <2>3, <2>4
<1>5. CustodyMessage(q.custody) # CustodyMessage(p.custody)
  <2>1. /\ CustodyMessage(q.custody).record["runner_report"] = report
        /\ CustodyMessage(p.custody).record["runner_report"] = before
    BY <1>1, <1>3 DEF CustodyMessage
  <2> QED
    BY <1>4, <2>1
<1> QED
  BY <1>3, <1>5

\* The cases of the custody record.
LEMMA CustodiesTold ==
  ASSUME NEW p \in Published, PublishedIsSound(p), NEW c \in CustodyCases(p)
  PROVE  Tells(p, c.mutated, c.expect)
<1> DEFINE q == c.mutated
           before == p.custody
           custody == q.custody
           signature == custody.signature
           invalid == "block_custody_record_signature_invalid"
           wrong == "block_custody_record_wrong_key"
           rest == SignatureLinks(signature, CustodyAnchors, CustodyMessage(custody), wrong,
                     "block_custody_record_malformed", invalid)
           goRest == GoSignatureLinks(signature, "custody/0.1", GoCustody,
                       CustodyMessage(custody), "block_custody_record_malformed", wrong, invalid)
<1>1. AllHold(p)
  BY DEF PublishedIsSound
<1>2. /\ "custody" \in DOMAIN p
      /\ {"record_schema", "closed", "signature"} \subseteq DOMAIN before
      /\ {"shape", "signature_version", "signing_key_id", "signature_hex"}
           \subseteq DOMAIN before.signature
  BY PassportAssumption DEF PublishedAssumption, IsPassport, PublishedIsSound, HasMembers
<1>3. \/ /\ q = [p EXCEPT !.custody.record_schema = "unknown"]
         /\ c.expect = "block_custody_record_schema_unsupported"
      \/ /\ q = [p EXCEPT !.custody.signature.shape = "open"]
         /\ c.expect = "block_custody_record_malformed"
      \/ /\ q = [p EXCEPT !.custody.signature.signing_key_id = "unknown-custody"]
         /\ c.expect = wrong
      \/ /\ q = [p EXCEPT !.custody.signature.signature_hex = Scrambled]
         /\ c.expect = invalid
      \/ /\ \/ q = [p EXCEPT !.custody.runner_report.boundary_present = FALSE]
            \/ q = [p EXCEPT !.custody.runner_report.os_boundary.rules.paths = {}]
            \/ q = [p EXCEPT !.custody.runner_report.os_boundary.rules.spelling = "repeated"]
            \/ q = [p EXCEPT !.custody.runner_report.os_boundary.runtime_scratch = FALSE]
         /\ c.expect = invalid
  <2>1. \A m, e : Case(m, e).mutated = m /\ Case(m, e).expect = e
    BY DEF Case
  <2> QED
    BY <2>1 DEF CustodyCases
<1>4. SameIn(q, p, EnvelopeMembers \cup {"authorization"})
  <2>1. ASSUME NEW v, q = [p EXCEPT !.custody = v]
        PROVE  SameIn(q, p, EnvelopeMembers \cup {"authorization"})
    BY <2>1, PassportAssumption DEF PublishedAssumption, IsPassport, SameIn, EnvelopeMembers
  <2> QED
    BY <1>3, <2>1
<1>5. \/ /\ custody.record_schema = "unknown"
         /\ c.expect = "block_custody_record_schema_unsupported"
      \/ /\ custody.record_schema = before.record_schema /\ signature.shape = "open"
         /\ c.expect = "block_custody_record_malformed"
      \/ /\ custody.record_schema = before.record_schema /\ custody.closed = before.closed
         /\ signature.shape = before.signature.shape
         /\ signature.signature_version = before.signature.signature_version
         /\ \/ /\ signature.signing_key_id = "unknown-custody"
               /\ signature.signature_hex = before.signature.signature_hex
               /\ c.expect = wrong
            \/ /\ signature.signing_key_id = before.signature.signing_key_id
               /\ signature.signature_hex = Scrambled
               /\ c.expect = invalid
            \/ /\ signature.signing_key_id = before.signature.signing_key_id
               /\ signature.signature_hex = before.signature.signature_hex
               /\ CustodyMessage(custody) # CustodyMessage(before)
               /\ c.expect = invalid
  <2>1. CASE /\ q = [p EXCEPT !.custody.record_schema = "unknown"]
             /\ c.expect = "block_custody_record_schema_unsupported"
    BY <1>2, <2>1
  <2>2. CASE /\ q = [p EXCEPT !.custody.signature.shape = "open"]
             /\ c.expect = "block_custody_record_malformed"
    BY <1>2, <2>2
  <2>3. CASE /\ q = [p EXCEPT !.custody.signature.signing_key_id = "unknown-custody"]
             /\ c.expect = wrong
    BY <1>2, <2>3
  <2>4. CASE /\ q = [p EXCEPT !.custody.signature.signature_hex = Scrambled]
             /\ c.expect = invalid
    BY <1>2, <2>4
  <2>5. CASE /\ \/ q = [p EXCEPT !.custody.runner_report.boundary_present = FALSE]
                \/ q = [p EXCEPT !.custody.runner_report.os_boundary.rules.paths = {}]
                \/ q = [p EXCEPT !.custody.runner_report.os_boundary.rules.spelling = "repeated"]
                \/ q = [p EXCEPT !.custody.runner_report.os_boundary.runtime_scratch = FALSE]
             /\ c.expect = invalid
    <3>1. /\ custody.record_schema = before.record_schema
          /\ custody.closed = before.closed /\ custody.signature = before.signature
          /\ CustodyMessage(custody) # CustodyMessage(before)
      BY <2>5, OtherReport
    <3> QED
      BY <2>5, <3>1
  <2> QED
    BY <1>3, <2>1, <2>2, <2>3, <2>4, <2>5
<1> HIDE DEF q
<1>6. /\ "unknown-custody" \notin CustodyAnchors /\ Garbled # Scrambled
      /\ GoCustody \in CustodyAnchors
  BY CorpusAssumption, GoAssumption
<1>7. /\ before.record_schema = "deedseal-supervised-run-custody/1.0"
      /\ before.closed /\ before.signature.shape = "closed"
      /\ before.signature.signature_version = "custody/0.1"
      /\ before.signature.signing_key_id \in CustodyAnchors
      /\ before.signature.signature_hex # Garbled
      /\ before.signature.signature_hex
           = Signature(before.signature.signing_key_id, CustodyMessage(before))
      /\ GoAllHold(p) => before.signature.signing_key_id = GoCustody
  BY <1>1, CustodyHolds
<1> DEFINE known == custody.record_schema = "deedseal-supervised-run-custody/1.0"
           key == signature.signing_key_id
           hex == signature.signature_hex
           Sound == /\ known /\ custody.closed /\ signature.shape = "closed"
                    /\ signature.signature_version = "custody/0.1" /\ hex # Garbled
                    /\ \/ key \notin CustodyAnchors /\ c.expect = wrong
                       \/ /\ key \in CustodyAnchors /\ (GoAllHold(p) => key = GoCustody)
                          /\ hex # Signature(key, CustodyMessage(custody))
                          /\ c.expect = invalid
<1>8. \/ ~ known /\ c.expect = "block_custody_record_schema_unsupported"
      \/ known /\ signature.shape # "closed" /\ c.expect = "block_custody_record_malformed"
      \/ Sound
  <2>1. CASE custody.record_schema = "unknown"
    BY <1>5, <1>7, <2>1
  <2>2. CASE custody.record_schema = before.record_schema /\ signature.shape = "open"
    BY <1>5, <1>7, <2>2
  <2>3. CASE /\ custody.record_schema = before.record_schema
             /\ signature.shape = before.signature.shape
    <3>1. \A message : Scrambled # Signature(before.signature.signing_key_id, message)
      BY <1>7, SignaturesTell
    <3>2. CustodyMessage(custody) # CustodyMessage(before) =>
            before.signature.signature_hex
              # Signature(before.signature.signing_key_id, CustodyMessage(custody))
      BY <1>7, SignaturesTell
    <3> QED
      BY <1>5, <1>6, <1>7, <2>3, <3>1, <3>2
  <2> QED
    BY <1>5, <2>1, <2>2, <2>3
<1>9. ASSUME Sound
      PROVE  Gives(rest, c.expect) /\ (GoAllHold(p) => Gives(goRest, c.expect))
  <2>1. Gives(rest, c.expect)
    <3>1. /\ key \notin CustodyAnchors => Gives(rest, wrong)
          /\ /\ key \in CustodyAnchors /\ hex # Garbled
             /\ hex # Signature(key, CustodyMessage(custody))
             => Gives(rest, invalid)
      BY SignatureGroup
    <3> HIDE DEF rest
    <3> QED
      BY <1>9, <3>1
  <2>2. GoAllHold(p) => Gives(goRest, c.expect)
    <3>1. /\ hex # Garbled /\ key # GoCustody => Gives(goRest, wrong)
          /\ hex # Garbled /\ key = GoCustody /\ hex # Signature(GoCustody, CustodyMessage(custody))
               => Gives(goRest, invalid)
      <4>1. signature.signature_version = "custody/0.1"
        BY <1>9
      <4> QED
        BY <4>1, GoSignatureGroup
    <3> HIDE DEF goRest
    <3> QED
      BY <1>6, <1>9, <3>1
  <2> QED
    BY <2>1, <2>2
<1>10. Gives(CustodyLinks(q), c.expect) /\ (GoAllHold(p) => Gives(GoCustodyLinks(q), c.expect))
  <2>1. CASE ~ known /\ c.expect = "block_custody_record_schema_unsupported"
    BY <2>1, CustodyGives
  <2>2. CASE known /\ signature.shape # "closed" /\ c.expect = "block_custody_record_malformed"
    BY <2>2, CustodyGives
  <2>3. CASE Sound
    BY <1>9, <2>3, CustodyGives
  <2> QED
    BY <1>8, <2>1, <2>2, <2>3
<1>11. Tells(p, q, c.expect)
  BY <1>1, <1>4, <1>10, ToldAtCustody
<1> QED
  BY <1>11 DEF q
-----------------------------------------------------------------------------
(* The whole corpus. *)

\* A published passport whose owner the second verifier has passes there too.
LEMMA PublishedPassBoth ==
  ASSUME NEW p, PublishedIsSound(p), p.closure.signature.signing_key_id = GoOwner
  PROVE  GoAllHold(p)
<1> DEFINE grant == p.authorization
           custody == p.custody
           boundary == custody.runner_report.os_boundary
<1>1. /\ AllHold(p) /\ boundary.schema_version = "1.1"
      /\ custody.signature.signing_key_id = GoCustody
      /\ boundary.grant_sha256 = GrantDigest(grant)
      /\ boundary.rules.spelling = "canonical"
  BY DEF PublishedIsSound
<1>2. Unbroken(GoEnvelopeLinks(p))
  BY <1>1, EnvelopesCompared DEF AllHold
<1>3. GoCustodyContract(p) /\ LandlockHolds(boundary, custody.allowed_files)
  BY <1>1, BindingsHold
<1>4. grant.owner_signature.signature_version = "v0.6"
  BY <1>1, ContractsCompared DEF AllHold
<1>5. grant.owner_signature.signing_key_id = GoOwner
  BY <1>1, ClosureVerified DEF AllHold
<1>6. Unbroken(GoGrantLinks(p))
  <2>1. grant.publication_class \in PublicationClasses
    BY <1>3 DEF GoCustodyContract, PublicationClasses
  <2> QED
    BY <1>1, <1>4, <1>5, <2>1, GrantsCompared DEF AllHold
<1>7. Unbroken(GoCustodyLinks(p))
  BY <1>1, CustodiesCompared DEF AllHold
<1>8. Unbroken(GoBindingLinks(p))
  BY <1>1, <1>3, HeadIsACommit, BindingsCompared DEF AllHold
<1>9. Unbroken(GoScopeLinks(p)) /\ Unbroken(GoObservationLinks(p))
  BY <1>1, ScopesCompared, ObservationsCompared DEF AllHold
<1>10. GoBoundaryContract(p)
  <2>1. custody.grant_sha256 = GrantDigest(grant)
    BY <1>1, BindingVerified DEF AllHold
  <2>2. custody.allowed_files.paths = p.scope.allowed_files.paths
    BY <1>1, GrantVerified, ScopeVerified DEF AllHold
  <2>3. /\ boundary.applied /\ boundary.runtime_scratch
        /\ boundary.rules.paths = custody.allowed_files.paths
    BY <1>1, <1>3 DEF LandlockHolds
  <2> QED
    BY <1>1, <2>1, <2>2, <2>3 DEF GoBoundaryContract, Lists
<1>11. Unbroken(GoCommitLinks(p))
  BY <1>1, <1>10, CommitsCompared DEF AllHold
<1>12. Unbroken(GoClosureLinks(p))
  BY <1>1, <1>5, ClosuresCompared DEF AllHold
<1> QED
  BY <1>2, <1>6, <1>7, <1>8, <1>9, <1>11, <1>12 DEF GoAllHold

\* Every case is refused with the reason it names, by the second verifier too when
\* it passes what the case is made of.
LEMMA CasesTold ==
  ASSUME NEW p \in Published, PublishedIsSound(p), NEW c \in Cases(p)
  PROVE  Tells(p, c.mutated, c.expect)
<1>1. \A m, e : Case(m, e).mutated = m /\ Case(m, e).expect = e
  BY DEF Case
<1>2. CASE c \in ByteCases(p)
  <2>1. CASE c.mutated.text # "respaced"
    BY <1>2, <2>1, BytesTold
  <2>2. CASE c.mutated.text = "respaced"
    <3>1. "text" \in DOMAIN p
      BY PassportAssumption DEF PublishedAssumption, IsPassport
    <3>2. \/ c.mutated.text # "respaced"
          \/ /\ c.mutated = [p EXCEPT !.text = "respaced"]
             /\ c.expect = "block_public_run_passport_noncanonical_serialization"
      BY <1>1, <1>2, <3>1 DEF ByteCases
    <3> QED
      BY <2>2, <3>2, RespacedTold
  <2> QED
    BY <2>1, <2>2
<1>3. CASE c \in EnvelopeCases(p)
  BY <1>3, EnvelopesTold
<1>4. CASE c \in GrantCases(p)
  <2>1. CASE c.expect # "block_grant_custody_binding_mismatch"
    BY <1>4, <2>1, GrantsTold
  <2>2. CASE c.expect = "block_grant_custody_binding_mismatch"
    <3>1. c.mutated = [p EXCEPT !.authorization.owner_signature.shape = "open"]
      BY <1>1, <1>4, <2>2 DEF GrantCases
    <3> QED
      BY <2>2, <3>1, OpenGrantTold
  <2> QED
    BY <2>1, <2>2
<1>5. CASE c \in CustodyCases(p)
  BY <1>5, CustodiesTold
<1>6. CASE c \in BindingCases(p)
  <2> DEFINE q == c.mutated
             r == c.expect
  <2>1. \/ /\ q = [p EXCEPT !.roadmap_step = "other"]
           /\ r = "block_custody_publication_contract_malformed"
        \/ /\ q = [p EXCEPT !.run_id = "different-run"]
           /\ r = "block_run_id_binding_mismatch"
        \/ /\ q = [p EXCEPT !.execution_id = "0"]
           /\ r = "block_execution_id_binding_mismatch"
        \/ /\ q = [p EXCEPT !.implementation_head_sha = ZeroCommit]
           /\ r = "block_implementation_head_binding_mismatch"
        \/ /\ q = [p EXCEPT !.scope.allowed_files = Appended(@, SecondFile)]
           /\ r = "block_allowed_files_binding_mismatch"
        \/ /\ q = [p EXCEPT !.scope.new_files = Appended(@, SecondFile)]
           /\ r = "block_new_files_binding_mismatch"
        \/ /\ q = [p EXCEPT !.scope.acceptance_contract.expected_changed_paths =
                     Appended(@, SecondFile)]
           /\ r = "block_acceptance_contract_binding_mismatch"
        \/ /\ q = [p EXCEPT !.execution.observed_post_worktree_entries =
                     Appended(@, SecondFile)]
           /\ r = "block_observed_paths_binding_mismatch"
        \/ /\ q = [p EXCEPT !.execution.sha256_chain =
                     [f \in DOMAIN @ \cup {SecondFile} |->
                        IF f = SecondFile THEN Null ELSE @[f]]]
           /\ r = "block_sha256_chain_binding_mismatch"
    BY <1>1, <1>6 DEF BindingCases
  <2> HIDE DEF q, r
  <2>2. Tells(p, q, r)
    BY <2>1, StepTold, IdentifiersTold, ScopesTold, ObservationsTold
  <2> QED
    BY <2>2 DEF q, r
<1>7. CASE c \in CommitCases(p)
  <2> DEFINE q == c.mutated
             r == c.expect
  <2>1. \/ /\ q = [p EXCEPT !.committed_binding.committed_file_hashes =
                     [f \in DOMAIN @ |-> IF f = CHOOSE g \in DOMAIN @ : TRUE
                                         THEN ZeroDigest ELSE @[f]]]
           /\ r = "block_committed_hash_binding_mismatch"
        \/ /\ q = [p EXCEPT !.committed_binding.commit_sha = "not-a-sha"]
           /\ r = "block_commit_identity_binding_mismatch"
        \/ /\ q = [p EXCEPT !.committed_binding.parent_sha = ZeroCommit]
           /\ r = "block_complete_cargo_changeset_binding_mismatch"
        \/ /\ q = [p EXCEPT !.committed_binding.changed_paths = Appended(@, SecondFile)]
           /\ r = "block_complete_cargo_changeset_binding_mismatch"
        \/ /\ q = [p EXCEPT !.committed_binding.commit_sha = p.committed_binding.parent_sha]
           /\ r = "block_cargo_commit_equals_execution_head"
        \/ /\ q = [p EXCEPT !.committed_binding.commit_sha = ZeroCommit]
           /\ r = "block_owner_closure_signature_invalid"
    BY <1>1, <1>7 DEF CommitCases
  <2> HIDE DEF q, r
  <2>2. Tells(p, q, r)
    BY <2>1, HashesTold, CommitsTold, OtherCommitTold
  <2> QED
    BY <2>2 DEF q, r
<1>8. CASE c \in ClosureCases(p)
  BY <1>8, ClosuresTold
<1> QED
  BY <1>2, <1>3, <1>4, <1>5, <1>6, <1>7, <1>8 DEF Cases

\* The answers about a passport the verifier has looked at.
LEMMA AnswersAre ==
  ASSUME IInv, AnswerStands, RefusalStands, at = "done"
  PROVE  verdict = IF AllHold(passport) THEN <<TRUE, Null>> ELSE <<FALSE, Refusal(passport)>>
<1>1. Passed => AllHold(passport)
  BY DEF IInv, ChecksOK, Verified, AllHold
<1> QED
  BY <1>1 DEF AnswerStands, RefusalStands, Passed

\* Every published passport passes, every case of the corpus is refused with the reason
\* it names, and the second verifier gives the same answers about the passports of its
\* owner: for any set of published passports that are sound.
THEOREM CorpusIsRefused == Spec => []CorpusAgreement
<1>1. IInv /\ AnswerStands /\ RefusalStands => CorpusAgreement
  <2> SUFFICES ASSUME IInv, AnswerStands, RefusalStands, at = "done", NEW p \in Published
               PROVE  /\ passport = p => Passed
                      /\ \A c \in Cases(p) :
                           passport = c.mutated => verdict = <<FALSE, c.expect>>
                      /\ (/\ p.closure.signature.signing_key_id = GoOwner
                          /\ passport = p \/ passport \in CorpusEdits(p))
                           => GoVerdict(passport) = verdict
    BY DEF CorpusAgreement
  <2>1. PublishedIsSound(p) /\ AllHold(p)
    BY CorpusAssumption DEF PublishedIsSound
  <2>2. passport = p => verdict = <<TRUE, Null>>
    BY <2>1, AnswersAre
  <2>3. ASSUME NEW c \in Cases(p), passport = c.mutated PROVE verdict = <<FALSE, c.expect>>
    BY <2>1, <2>3, CasesTold, AnswersAre DEF Tells, Told
  <2>4. ASSUME p.closure.signature.signing_key_id = GoOwner, passport = p
        PROVE  GoVerdict(passport) = verdict
    BY <2>1, <2>2, <2>4, PublishedPassBoth, GoAnswers
  <2>5. ASSUME p.closure.signature.signing_key_id = GoOwner, passport \in CorpusEdits(p)
        PROVE  GoVerdict(passport) = verdict
    <3>1. PICK c \in Cases(p) : passport = c.mutated
      BY <2>5 DEF CorpusEdits
    <3>2. GoTold(passport, c.expect)
      BY <2>1, <2>5, <3>1, PublishedPassBoth, CasesTold DEF Tells
    <3>3. GoVerdict(passport) = <<FALSE, c.expect>>
      BY <3>2, GoAnswers DEF GoTold
    <3> QED
      BY <2>3, <3>1, <3>3
  <2> QED
    BY <2>2, <2>3, <2>4, <2>5 DEF Passed
<1> QED
  BY <1>1, AnswersKept, RefusalsKeptFirst, PTL
===============================================================================
