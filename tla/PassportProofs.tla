--------------------------- MODULE PassportProofs ---------------------------
(***************************************************************************)
(* Proofs about PassportVerifier for any trusted keys, any published       *)
(* passports that carry their signatures, any edits, any number of them,   *)
(* and whoever signs again: a passport passes only if its owner closed     *)
(* it, and a pass means what the verifier says it means.                   *)
(***************************************************************************)
EXTENDS PassportVerifier, TLAPS

Hexes(p) == {p.authorization.owner_signature.signature_hex,
             p.custody.signature.signature_hex, p.closure.signature.signature_hex}

\* Every stage of the verifier has its rank, and a passport under verification is
\* the passport that was.
LEMMA RankOfStages ==
  /\ Rank["idle"] = 0 /\ Rank["parse"] = 1 /\ Rank["envelope"] = 2 /\ Rank["grant"] = 3
  /\ Rank["custody"] = 4 /\ Rank["contract"] = 5 /\ Rank["binding"] = 6
  /\ Rank["scope"] = 7 /\ Rank["observation"] = 8 /\ Rank["commit"] = 9
  /\ Rank["closure"] = 10 /\ Rank["wire"] = 11 /\ Rank["pass"] = 12 /\ Rank["done"] = 0
BY DEF Rank

\* Neither silence nor a refusal is a pass.
LEMMA RefusalsAreNoPass ==
  /\ NoAnswer # <<TRUE, Null>>
  /\ \A reason : <<FALSE, reason>> # <<TRUE, Null>>
<1>1. Len(<<>>) = 0 /\ Len(<<TRUE, Null>>) = 2
  OBVIOUS
<1>2. ASSUME NEW reason PROVE <<FALSE, reason>> # <<TRUE, Null>>
  <2>1. <<FALSE, reason>>[1] = FALSE /\ <<TRUE, Null>>[1] = TRUE
    OBVIOUS
  <2> QED
    BY <2>1
<1> QED
  BY <1>1, <1>2 DEF NoAnswer

\* What is published satisfies the invariant before anything happens.
LEMMA InitIInv == Init => IInv
<1> SUFFICES ASSUME Init PROVE IInv
  OBVIOUS
<1>p. AnchorsAssumption /\ PublishedAssumption
  BY PassportAssumption
<1>1. IsPassport(passport) /\ Available(passport)
  BY <1>p DEF Init, PublishedSignatures, PublishedAssumption, Available
<1>2. TypeOK
  BY <1>p, <1>1 DEF Init, TypeOK, Stages, AnchorsAssumption
<1>3. ClosuresOK
  <2> SUFFICES ASSUME NEW s \in signed, s.over.kind = "closure"
               PROVE /\ s.over.version = "closure/0.1"
                     /\ \E p \in closed : /\ s.over.passport_core = Core(p)
                                         /\ p.closure.signature.signature_hex = s
    BY DEF ClosuresOK
  <2>1. PICK p \in Published : s \in Hexes(p)
    BY DEF Init, PublishedSignatures, Hexes
  <2>2. CASE s = p.authorization.owner_signature.signature_hex
    <3>1. s = Signature(p.authorization.owner_signature.signing_key_id,
                        GrantMessage(p.authorization))
      BY <1>p, <2>2 DEF PublishedAssumption
    <3>2. s.over.kind = "grant"
      BY <3>1 DEF Signature, GrantMessage
    <3> QED
      BY <3>2
  <2>3. CASE s = p.custody.signature.signature_hex
    <3>1. s = Signature(p.custody.signature.signing_key_id, CustodyMessage(p.custody))
      BY <1>p, <2>3 DEF PublishedAssumption
    <3>2. s.over.kind = "custody"
      BY <3>1 DEF Signature, CustodyMessage
    <3> QED
      BY <3>2
  <2>4. CASE s = p.closure.signature.signature_hex
    <3>1. s = Signature(p.closure.signature.signing_key_id, ClosureMessage(p))
      BY <1>p, <2>4 DEF PublishedAssumption
    <3>2. s.over.passport_core = Core(p) /\ s.over.version = "closure/0.1"
      BY <3>1 DEF Signature, ClosureMessage
    <3> QED
      BY <2>4, <3>2 DEF Init
  <2> QED
    BY <2>1, <2>2, <2>3, <2>4 DEF Hexes
<1>4. ChecksOK /\ AnswersOK
  <2>1. at = "idle" /\ verdict = NoAnswer /\ shown = Null /\ ~ Passed
    BY RefusalsAreNoPass DEF Init, Passed
  <2> QED
    BY <2>1, RankOfStages DEF ChecksOK, AnswersOK, Verified
<1> QED
  BY <1>2, <1>3, <1>4 DEF IInv

\* While nobody verifies, nothing has been established and nothing answered.
LEMMA IdleIsSilent ==
  ASSUME IInv, at = "idle", UNCHANGED <<at, verdict, shown>>
  PROVE  ChecksOK' /\ AnswersOK'
<1>1. verdict = NoAnswer /\ shown = Null /\ ~ Passed
  BY RefusalsAreNoPass DEF IInv, AnswersOK, Passed
<1>2. at' = "idle" /\ verdict' = NoAnswer /\ shown' = Null /\ ~ Passed'
  BY <1>1 DEF Passed
<1> QED
  BY <1>2, RankOfStages DEF ChecksOK, AnswersOK, Verified

\* More signatures and more closed passports leave the closing signatures there were.
LEMMA ClosuresGrow ==
  ASSUME ClosuresOK, NEW hex, signed' = signed \cup {hex},
         \/ hex.over.kind # "closure" /\ closed' = closed
         \/ \E p : /\ closed' = closed \cup {p}
                   /\ hex.over.version = "closure/0.1"
                   /\ hex.over.passport_core = Core(p)
                   /\ p.closure.signature.signature_hex = hex
  PROVE  ClosuresOK'
BY DEF ClosuresOK

\* A signature made over the passport as it stands keeps its types and its core.
LEMMA CloseKeeps ==
  ASSUME IInv, Close
  PROVE  IInv'
<1> DEFINE hex == Signature(passport.closure.signature.signing_key_id,
                            ClosureMessage(passport))
<1>1. passport' = [passport EXCEPT !.closure.signature.signature_hex = hex]
      /\ signed' = signed \cup {hex} /\ closed' = closed \cup {passport'}
  BY DEF Close
<1>2. IsPassport(passport) /\ Available(passport)
  BY DEF IInv, TypeOK
<1>3. /\ DOMAIN passport' = DOMAIN passport
      /\ \A f \in DOMAIN passport \ {"closure"} : passport'[f] = passport[f]
      /\ passport'.closure.signature.signature_hex = hex
      /\ passport'.closure.signature.signing_key_id
           = passport.closure.signature.signing_key_id
      /\ DOMAIN passport'.closure = DOMAIN passport.closure
      /\ DOMAIN passport'.closure.signature = DOMAIN passport.closure.signature
  BY <1>1, <1>2 DEF IsPassport
<1>4. passport'.authorization = passport.authorization /\ passport'.custody = passport.custody
  BY <1>2, <1>3 DEF IsPassport
<1>5. Core(passport') = Core(passport)
  BY <1>3 DEF Core
<1>6. IsPassport(passport')
  BY <1>2, <1>3, <1>4 DEF IsPassport
<1>7. Available(passport)'
  BY <1>1, <1>2, <1>3, <1>4 DEF Available
<1>8. TypeOK'
  BY <1>6, <1>7 DEF IInv, TypeOK, Close
<1>9. ClosuresOK'
  <2>1. hex.over.passport_core = Core(passport') /\ hex.over.version = "closure/0.1"
    BY <1>5 DEF Signature, ClosureMessage
  <2> HIDE DEF hex
  <2> QED
    BY <1>1, <1>3, <2>1, ClosuresGrow DEF IInv
<1>10. ChecksOK' /\ AnswersOK'
  BY IdleIsSilent DEF Close
<1> QED
  BY <1>8, <1>9, <1>10 DEF IInv

\* The owner signs a grant: no closing signature is made, none is lost.
LEMMA SignGrantKeeps ==
  ASSUME IInv, SignGrant
  PROVE  IInv'
<1> DEFINE hex == Signature(passport.authorization.owner_signature.signing_key_id,
                            GrantMessage(passport.authorization))
<1>1. /\ passport' = [passport EXCEPT !.authorization.owner_signature.signature_hex = hex]
      /\ signed' = signed \cup {hex} /\ closed' = closed
  BY DEF SignGrant
<1>2. IsPassport(passport) /\ Available(passport)
  BY DEF IInv, TypeOK
<1>3. /\ DOMAIN passport' = DOMAIN passport
      /\ passport'.custody = passport.custody /\ passport'.closure = passport.closure
      /\ passport'.authorization.owner_signature.signature_hex = hex
      /\ DOMAIN passport'.authorization = DOMAIN passport.authorization
      /\ DOMAIN passport'.authorization.owner_signature
           = DOMAIN passport.authorization.owner_signature
  BY <1>1, <1>2 DEF IsPassport
<1>4. IsPassport(passport')
  BY <1>2, <1>3 DEF IsPassport
<1>5. Available(passport)'
  BY <1>1, <1>2, <1>3 DEF Available
<1>6. TypeOK'
  BY <1>4, <1>5 DEF IInv, TypeOK, SignGrant
<1>7. ClosuresOK'
  <2>1. hex.over.kind # "closure"
    BY DEF Signature, GrantMessage
  <2> HIDE DEF hex
  <2> QED
    BY <1>1, <2>1, ClosuresGrow DEF IInv
<1>8. ChecksOK' /\ AnswersOK'
  BY IdleIsSilent DEF SignGrant
<1> QED
  BY <1>6, <1>7, <1>8 DEF IInv

\* Nor is one made when the custody service signs.
LEMMA SignCustodyKeeps ==
  ASSUME IInv, SignCustody
  PROVE  IInv'
<1>1. PICK digest :
        LET record == [passport.custody EXCEPT !.grant_sha256 = digest]
            hex == Signature(record.signature.signing_key_id, CustodyMessage(record))
        IN  /\ passport' = [passport EXCEPT !.custody =
                              [record EXCEPT !.signature.signature_hex = hex]]
            /\ signed' = signed \cup {hex}
  BY DEF SignCustody
<1> DEFINE record == [passport.custody EXCEPT !.grant_sha256 = digest]
           hex == Signature(record.signature.signing_key_id, CustodyMessage(record))
<1>2. IsPassport(passport) /\ Available(passport)
  BY DEF IInv, TypeOK
<1>3. record.signature = passport.custody.signature
      /\ DOMAIN record = DOMAIN passport.custody
  BY <1>2 DEF IsPassport
<1> HIDE DEF record
<1>4. hex.over.kind # "closure"
  BY DEF Signature, CustodyMessage
<1>5. passport' = [passport EXCEPT !.custody = [record EXCEPT !.signature.signature_hex = hex]]
      /\ signed' = signed \cup {hex}
  BY <1>1 DEF record
<1> HIDE DEF hex
<1>6. /\ DOMAIN passport' = DOMAIN passport
      /\ passport'.authorization = passport.authorization
      /\ passport'.closure = passport.closure
      /\ passport'.custody.signature.signature_hex = hex
      /\ DOMAIN passport'.custody = DOMAIN passport.custody
      /\ DOMAIN passport'.custody.signature = DOMAIN passport.custody.signature
  BY <1>2, <1>3, <1>5 DEF IsPassport
<1>7. IsPassport(passport')
  BY <1>2, <1>6 DEF IsPassport
<1>8. Available(passport)'
  BY <1>2, <1>5, <1>6 DEF Available
<1>9. TypeOK'
  BY <1>7, <1>8 DEF IInv, TypeOK, SignCustody
<1>10. ClosuresOK'
  BY <1>4, <1>5, ClosuresGrow DEF IInv, SignCustody
<1>11. ChecksOK' /\ AnswersOK'
  BY IdleIsSilent DEF SignCustody
<1> QED
  BY <1>9, <1>10, <1>11 DEF IInv

\* An edit makes no signature.
LEMMA EditKeeps ==
  ASSUME IInv, Edit
  PROVE  IInv'
<1>1. IsPassport(passport') /\ Available(passport)'
  BY DEF Edit, Available
<1>2. TypeOK'
  BY <1>1, PassportAssumption DEF IInv, TypeOK, Edit, AnchorsAssumption
<1>3. ClosuresOK'
  BY DEF IInv, ClosuresOK, Edit
<1>4. ChecksOK' /\ AnswersOK'
  BY IdleIsSilent DEF Edit
<1> QED
  BY <1>2, <1>3, <1>4 DEF IInv

\* What the verifier never touches keeps what the invariant says of it.
LEMMA WorldIsStill ==
  ASSUME IInv, UNCHANGED <<passport, signed, closed, edits>>,
         at' \in Stages, shown' \in OwnerAnchors \cup {Null}
  PROVE  TypeOK' /\ ClosuresOK'
<1>1. TypeOK'
  BY DEF IInv, TypeOK, Available
<1>2. ClosuresOK'
  BY DEF IInv, ClosuresOK
<1> QED
  BY <1>1, <1>2

\* Links that hold are all of them not broken.
LEMMA UnbrokenOne ==
  ASSUME NEW a, Unbroken(<<a>>)
  PROVE  ~ a.broken
<1>1. 1 \in DOMAIN <<a>> /\ <<a>>[1] = a
  OBVIOUS
<1> QED
  BY <1>1, Zenon DEF Unbroken

LEMMA UnbrokenTwo ==
  ASSUME NEW a, NEW b, Unbroken(<<a, b>>)
  PROVE  ~ a.broken /\ ~ b.broken
<1>1. 1 \in DOMAIN <<a, b>> /\ 2 \in DOMAIN <<a, b>>
  OBVIOUS
<1>2. <<a, b>>[1] = a /\ <<a, b>>[2] = b
  OBVIOUS
<1> QED
  BY <1>1, <1>2, Zenon DEF Unbroken

LEMMA UnbrokenThree ==
  ASSUME NEW a, NEW b, NEW c, Unbroken(<<a, b, c>>)
  PROVE  ~ a.broken /\ ~ b.broken /\ ~ c.broken
<1>1. 1 \in DOMAIN <<a, b, c>> /\ 2 \in DOMAIN <<a, b, c>> /\ 3 \in DOMAIN <<a, b, c>>
  OBVIOUS
<1>2. <<a, b, c>>[1] = a /\ <<a, b, c>>[2] = b /\ <<a, b, c>>[3] = c
  OBVIOUS
<1> QED
  BY <1>1, <1>2, Zenon DEF Unbroken

LEMMA UnbrokenFive ==
  ASSUME NEW a, NEW b, NEW c, NEW d, NEW e, Unbroken(<<a, b, c, d, e>>)
  PROVE  ~ a.broken /\ ~ b.broken /\ ~ c.broken /\ ~ d.broken /\ ~ e.broken
<1> DEFINE links == <<a, b, c, d, e>>
<1>1. {1, 2, 3, 4, 5} \subseteq DOMAIN links
  OBVIOUS
<1>2. links[1] = a /\ links[2] = b /\ links[3] = c /\ links[4] = d /\ links[5] = e
  OBVIOUS
<1> HIDE DEF links
<1>3. Unbroken(links)
  BY DEF links
<1> QED
  BY <1>1, <1>2, <1>3 DEF Unbroken

\* What it means that a group of signature checks holds: the key is trusted, and
\* the signature is its own over the message.
LEMMA SignatureVerified ==
  ASSUME NEW signature, NEW anchors, NEW message, NEW wrongKey, NEW malformed, NEW invalid,
         Unbroken(SignatureLinks(signature, anchors, message, wrongKey, malformed, invalid))
  PROVE  /\ signature.signing_key_id \in anchors
         /\ signature.signature_hex # Garbled
         /\ signature.signature_hex = Signature(signature.signing_key_id, message)
<1>1. /\ ~ Link(signature.signing_key_id \notin anchors, wrongKey).broken
      /\ ~ Link(signature.signature_hex = Garbled, malformed).broken
      /\ ~ Link(signature.signature_hex # Signature(signature.signing_key_id, message),
                invalid).broken
  BY UnbrokenThree DEF SignatureLinks
<1> QED
  BY <1>1 DEF Link

\* Links are a sequence, whatever they say.
LEMMA SignatureLinksAreASequence ==
  ASSUME NEW signature, NEW anchors, NEW message, NEW wrongKey, NEW malformed, NEW invalid
  PROVE  \E S : SignatureLinks(signature, anchors, message, wrongKey, malformed, invalid)
                  \in Seq(S)
<1>1. ASSUME NEW a, NEW b, NEW c PROVE \E S : <<a, b, c>> \in Seq(S)
  <2>1. <<a, b, c>> \in Seq({a, b, c})
    OBVIOUS
  <2> QED
    BY <2>1
<1> QED
  BY <1>1 DEF SignatureLinks

\* A chain of links holds when both of its parts do.
LEMMA UnbrokenParts ==
  ASSUME NEW first, NEW second, \E S : first \in Seq(S), \E S : second \in Seq(S),
         Unbroken(first \o second)
  PROVE  Unbroken(first) /\ Unbroken(second)
<1>1. PICK S, T : first \in Seq(S) /\ second \in Seq(T)
  OBVIOUS
<1>2. first \in Seq(S \cup T) /\ second \in Seq(S \cup T)
  BY <1>1
<1>3. ASSUME NEW i \in DOMAIN first PROVE ~ first[i].broken
  <2>1. i \in DOMAIN (first \o second) /\ (first \o second)[i] = first[i]
    BY <1>2, <1>3
  <2> QED
    BY <2>1 DEF Unbroken
<1>4. ASSUME NEW i \in DOMAIN second PROVE ~ second[i].broken
  <2>1. Len(first) + i \in DOMAIN (first \o second)
        /\ (first \o second)[Len(first) + i] = second[i]
    BY <1>2, <1>4
  <2> QED
    BY <2>1 DEF Unbroken
<1> QED
  BY <1>3, <1>4 DEF Unbroken

\* The grant that passed its checks was signed by a trusted owner, and is one he
\* could sign.
LEMMA GrantVerified ==
  ASSUME NEW p, Unbroken(GrantLinks(p))
  PROVE  LET signature == p.authorization.owner_signature
         IN  /\ GrantFit(p.authorization)
             /\ signature.signing_key_id \in OwnerAnchors
             /\ signature.signature_hex # Garbled
             /\ signature.signature_hex
                  = Signature(signature.signing_key_id, GrantMessage(p.authorization))
<1> DEFINE link == Link(\/ p.authorization.owner_signature.shape = "absent"
                        \/ p.authorization.owner_signature.signature_version
                             \notin {"v0.5", "v0.6"}
                        \/ ~ GrantFit(p.authorization),
                        "block_owner_authorization_malformed")
           rest == SignatureLinks(p.authorization.owner_signature, OwnerAnchors,
                     GrantMessage(p.authorization), "block_owner_authorization_wrong_key",
                     "block_owner_authorization_malformed",
                     "block_owner_authorization_signature_invalid")
<1>1. GrantLinks(p) = <<link>> \o rest
  BY DEF GrantLinks
<1>2. \E S : rest \in Seq(S)
  BY SignatureLinksAreASequence
<1>3. Unbroken(<<link>>) /\ Unbroken(rest)
  <2> HIDE DEF link, rest
  <2>1. <<link>> \in Seq({link})
    OBVIOUS
  <2> QED
    BY <1>1, <1>2, <2>1, UnbrokenParts
<1>4. ~ link.broken
  <2> HIDE DEF link
  <2> QED
    BY <1>3, UnbrokenOne
<1>5. GrantFit(p.authorization)
  BY <1>4 DEF Link
<1> QED
  BY <1>3, <1>5, SignatureVerified

\* A group of checks that breaks ends the verification without a pass.
LEMMA RefusalKeeps ==
  ASSUME IInv, at # "done", NEW reason, at' = "done", verdict' = <<FALSE, reason>>,
         shown' = shown
  PROVE  ChecksOK' /\ AnswersOK'
<1>1. shown = Null
  BY RefusalsAreNoPass DEF IInv, AnswersOK, Passed
<1>2. ~ Passed'
  BY RefusalsAreNoPass DEF Passed
<1> QED
  BY <1>1, <1>2, RankOfStages DEF ChecksOK, AnswersOK, Verified

\* A group of checks that holds is added to what the verifier knows.
LEMMA AdvanceKeeps ==
  ASSUME IInv, at # "done", at' # "done", UNCHANGED <<passport, verdict, shown>>,
         at' \in Stages, Rank[at'] = Rank[at] + 1,
         at = "parse" => Unbroken(ParseLinks(passport)),
         at = "envelope" => Unbroken(EnvelopeLinks(passport)),
         at = "grant" => Unbroken(GrantLinks(passport)),
         at = "custody" => Unbroken(CustodyLinks(passport)),
         at = "contract" => Unbroken(ContractLinks(passport)),
         at = "binding" => Unbroken(BindingLinks(passport)),
         at = "scope" => Unbroken(ScopeLinks(passport)),
         at = "observation" => Unbroken(ObservationLinks(passport)),
         at = "commit" => Unbroken(CommitLinks(passport)),
         at = "closure" => Unbroken(ClosureLinks(passport)),
         at = "wire" => Unbroken(WireLinks(passport))
  PROVE  ChecksOK' /\ AnswersOK'
<1>1. ~ Passed /\ ~ Passed' /\ verdict' = NoAnswer /\ shown' = Null
  BY RefusalsAreNoPass DEF IInv, AnswersOK, Passed
<1>2. AnswersOK'
  BY <1>1 DEF AnswersOK
<1>3. at \in Stages
  BY DEF IInv, TypeOK
<1>4. Verified("grant")' => Unbroken(GrantLinks(passport'))
  <2>1. Verified("grant")' => at = "grant" \/ Verified("grant")
    BY <1>1, <1>3, RankOfStages DEF Verified, Stages
  <2> QED
    BY <2>1 DEF IInv, ChecksOK
<1>5. Verified("custody")' => Unbroken(CustodyLinks(passport'))
  <2>1. Verified("custody")' => at = "custody" \/ Verified("custody")
    BY <1>1, <1>3, RankOfStages DEF Verified, Stages
  <2> QED
    BY <2>1 DEF IInv, ChecksOK
<1>6. Verified("contract")' => Unbroken(ContractLinks(passport'))
  <2>1. Verified("contract")' => at = "contract" \/ Verified("contract")
    BY <1>1, <1>3, RankOfStages DEF Verified, Stages
  <2> QED
    BY <2>1 DEF IInv, ChecksOK
<1>7. Verified("binding")' => Unbroken(BindingLinks(passport'))
  <2>1. Verified("binding")' => at = "binding" \/ Verified("binding")
    BY <1>1, <1>3, RankOfStages DEF Verified, Stages
  <2> QED
    BY <2>1 DEF IInv, ChecksOK
<1>8. Verified("scope")' => Unbroken(ScopeLinks(passport'))
  <2>1. Verified("scope")' => at = "scope" \/ Verified("scope")
    BY <1>1, <1>3, RankOfStages DEF Verified, Stages
  <2> QED
    BY <2>1 DEF IInv, ChecksOK
<1>9. Verified("observation")' => Unbroken(ObservationLinks(passport'))
  <2>1. Verified("observation")' => at = "observation" \/ Verified("observation")
    BY <1>1, <1>3, RankOfStages DEF Verified, Stages
  <2> QED
    BY <2>1 DEF IInv, ChecksOK
<1>10. Verified("commit")' => Unbroken(CommitLinks(passport'))
  <2>1. Verified("commit")' => at = "commit" \/ Verified("commit")
    BY <1>1, <1>3, RankOfStages DEF Verified, Stages
  <2> QED
    BY <2>1 DEF IInv, ChecksOK
<1>11. Verified("closure")' => Unbroken(ClosureLinks(passport'))
  <2>1. Verified("closure")' => at = "closure" \/ Verified("closure")
    BY <1>1, <1>3, RankOfStages DEF Verified, Stages
  <2> QED
    BY <2>1 DEF IInv, ChecksOK
<1>12. Verified("wire")' => Unbroken(WireLinks(passport'))
  <2>1. Verified("wire")' => at = "wire" \/ Verified("wire")
    BY <1>1, <1>3, RankOfStages DEF Verified, Stages
  <2> QED
    BY <2>1 DEF IInv, ChecksOK
<1>13. Verified("parse")' => Unbroken(ParseLinks(passport'))
  <2>1. Verified("parse")' => at = "parse" \/ Verified("parse")
    BY <1>1, <1>3, RankOfStages DEF Verified, Stages
  <2> QED
    BY <2>1 DEF IInv, ChecksOK
<1>14. Verified("envelope")' => Unbroken(EnvelopeLinks(passport'))
  <2>1. Verified("envelope")' => at = "envelope" \/ Verified("envelope")
    BY <1>1, <1>3, RankOfStages DEF Verified, Stages
  <2> QED
    BY <2>1 DEF IInv, ChecksOK
<1> QED
  BY <1>2, <1>4, <1>5, <1>6, <1>7, <1>8, <1>9, <1>10, <1>11, <1>12, <1>13, <1>14 DEF ChecksOK

\* The steps of the verifier keep the invariant.
LEMMA VerifyKeeps ==
  ASSUME IInv, Verify
  PROVE  IInv'
<1>1. at \notin {"done", "idle"} /\ UNCHANGED <<passport, signed, closed, edits>>
  BY DEF Verify, Pass, Check, CheckParse, CheckEnvelope, CheckGrant, CheckCustody,
         CheckContract, CheckBinding, CheckScope, CheckObservation, CheckCommit,
         CheckClosure, CheckWire
<1>2. ASSUME NEW stage, NEW links, NEW next, Check(stage, links, next),
             stage \in Stages \ {"done"}, next \in Stages \ {"done"},
             Rank[next] = Rank[stage] + 1,
             stage = "parse" => links = ParseLinks(passport),
             stage = "envelope" => links = EnvelopeLinks(passport),
             stage = "grant" => links = GrantLinks(passport),
             stage = "custody" => links = CustodyLinks(passport),
             stage = "contract" => links = ContractLinks(passport),
             stage = "binding" => links = BindingLinks(passport),
             stage = "scope" => links = ScopeLinks(passport),
             stage = "observation" => links = ObservationLinks(passport),
             stage = "commit" => links = CommitLinks(passport),
             stage = "closure" => links = ClosureLinks(passport),
             stage = "wire" => links = WireLinks(passport)
      PROVE  IInv'
  <2>1. UNCHANGED <<passport, signed, closed, edits, shown>> /\ at = stage
    BY <1>2 DEF Check
  <2>2. shown' \in OwnerAnchors \cup {Null}
    BY <2>1 DEF IInv, TypeOK
  <2>3. CASE Unbroken(links)
    <3>1. at' = next /\ verdict' = verdict
      BY <1>2, <2>3 DEF Check
    <3>2. ChecksOK' /\ AnswersOK'
      BY <1>2, <2>1, <2>3, <3>1, AdvanceKeeps
    <3> QED
      BY <1>2, <2>1, <2>2, <3>1, <3>2, WorldIsStill DEF IInv
  <2>4. CASE ~ Unbroken(links)
    <3>1. at' = "done" /\ verdict' = <<FALSE, FirstBroken(links)>>
      BY <1>2, <2>4 DEF Check
    <3>2. ChecksOK' /\ AnswersOK'
      BY <1>2, <2>1, <3>1, RefusalKeeps
    <3> QED
      BY <2>1, <2>2, <3>1, <3>2, WorldIsStill DEF IInv, Stages
  <2> QED
    BY <2>3, <2>4
<1>3. CASE CheckParse
  <2>1. Check("parse", ParseLinks(passport), "envelope")
    BY <1>3 DEF CheckParse
  <2> QED
    BY <1>2, <2>1, RankOfStages DEF Stages
<1>4. CASE CheckEnvelope
  <2>1. Check("envelope", EnvelopeLinks(passport), "grant")
    BY <1>4 DEF CheckEnvelope
  <2> QED
    BY <1>2, <2>1, RankOfStages DEF Stages
<1>5. CASE CheckGrant
  <2>1. Check("grant", GrantLinks(passport), "custody")
    BY <1>5 DEF CheckGrant
  <2> QED
    BY <1>2, <2>1, RankOfStages DEF Stages
<1>6. CASE CheckCustody
  <2>1. Check("custody", CustodyLinks(passport), "contract")
    BY <1>6 DEF CheckCustody
  <2> QED
    BY <1>2, <2>1, RankOfStages DEF Stages
<1>7. CASE CheckContract
  <2>1. Check("contract", ContractLinks(passport), "binding")
    BY <1>7 DEF CheckContract
  <2> QED
    BY <1>2, <2>1, RankOfStages DEF Stages
<1>8. CASE CheckBinding
  <2>1. Check("binding", BindingLinks(passport), "scope")
    BY <1>8 DEF CheckBinding
  <2> QED
    BY <1>2, <2>1, RankOfStages DEF Stages
<1>9. CASE CheckScope
  <2>1. Check("scope", ScopeLinks(passport), "observation")
    BY <1>9 DEF CheckScope
  <2> QED
    BY <1>2, <2>1, RankOfStages DEF Stages
<1>10. CASE CheckObservation
  <2>1. Check("observation", ObservationLinks(passport), "commit")
    BY <1>10 DEF CheckObservation
  <2> QED
    BY <1>2, <2>1, RankOfStages DEF Stages
<1>11. CASE CheckCommit
  <2>1. Check("commit", CommitLinks(passport), "closure")
    BY <1>11 DEF CheckCommit
  <2> QED
    BY <1>2, <2>1, RankOfStages DEF Stages
<1>12. CASE CheckClosure
  <2>1. Check("closure", ClosureLinks(passport), "wire")
    BY <1>12 DEF CheckClosure
  <2> QED
    BY <1>2, <2>1, RankOfStages DEF Stages
<1>13. CASE CheckWire
  <2>1. Check("wire", WireLinks(passport), "pass")
    BY <1>13 DEF CheckWire
  <2> QED
    BY <1>2, <2>1, RankOfStages DEF Stages
<1>14. CASE Pass
  <2>1. shown' = passport.authorization.owner_signature.signing_key_id /\ Passed'
        /\ at = "pass" /\ at' = "done"
    BY <1>14 DEF Pass, Passed
  <2>2. ChecksOK
    BY DEF IInv
  <2>3. ChecksOK'
    BY <1>1, <2>1, <2>2, RankOfStages DEF ChecksOK, Verified
  <2>4. shown' \in OwnerAnchors
    <3>1. Unbroken(GrantLinks(passport))
      BY <2>1, <2>2, RankOfStages DEF ChecksOK, Verified
    <3> QED
      BY <2>1, <3>1, GrantVerified
  <2>5. AnswersOK'
    BY <1>1, <2>1 DEF AnswersOK
  <2> QED
    BY <1>1, <2>1, <2>3, <2>4, <2>5, WorldIsStill DEF IInv, Stages
<1> QED
  BY <1>3, <1>4, <1>5, <1>6, <1>7, <1>8, <1>9, <1>10, <1>11, <1>12, <1>13, <1>14 DEF Verify

\* The invariant is inductive.
LEMMA NextKeeps == IInv /\ [Next]_vars => IInv'
<1> SUFFICES ASSUME IInv, [Next]_vars PROVE IInv'
  OBVIOUS
<1>1. CASE Start \/ Again
  <2>1. UNCHANGED <<passport, signed, closed, edits>> /\ at' \in {"idle", "parse"}
        /\ verdict' = NoAnswer /\ shown' = Null
    BY <1>1, RefusalsAreNoPass DEF Start, Again, IInv, AnswersOK, Passed
  <2>2. ~ Passed'
    BY <2>1, RefusalsAreNoPass DEF Passed
  <2>3. ChecksOK' /\ AnswersOK'
    BY <2>1, <2>2, RankOfStages DEF ChecksOK, AnswersOK, Verified
  <2> QED
    BY <2>1, <2>3, WorldIsStill DEF IInv, Stages
<1>2. CASE UNCHANGED vars
  <2>1. TypeOK' /\ ClosuresOK'
    BY <1>2, WorldIsStill DEF vars, IInv, TypeOK
  <2>2. ChecksOK' /\ AnswersOK'
    BY <1>2, ZenonT(40) DEF vars, IInv, ChecksOK, AnswersOK, Verified, Passed
  <2> QED
    BY <2>1, <2>2 DEF IInv
<1> QED
  BY <1>1, <1>2, EditKeeps, SignGrantKeeps, SignCustodyKeeps, CloseKeeps, VerifyKeeps
  DEF Next

\* The invariant holds in every reachable state.
THEOREM Invariant == Spec => []IInv
BY InitIInv, NextKeeps, PTL DEF Spec

\* Tuples of links are sequences, and so is what follows one after the other.
LEMMA LinksAreASequence ==
  ASSUME NEW a, NEW b, NEW c
  PROVE  /\ \E S : <<a>> \in Seq(S)
         /\ \E S : <<a, b>> \in Seq(S)
         /\ \E S : <<a, b, c>> \in Seq(S)
<1>1. <<a>> \in Seq({a}) /\ <<a, b>> \in Seq({a, b}) /\ <<a, b, c>> \in Seq({a, b, c})
  OBVIOUS
<1> QED
  BY <1>1

LEMMA ChainsAreASequence ==
  ASSUME NEW first, NEW second, \E S : first \in Seq(S), \E S : second \in Seq(S)
  PROVE  \E S : first \o second \in Seq(S)
<1>1. PICK S, T : first \in Seq(S) /\ second \in Seq(T)
  OBVIOUS
<1>2. first \in Seq(S \cup T) /\ second \in Seq(S \cup T)
  BY <1>1
<1> QED
  BY <1>2

\* The custody record that passed its checks was signed under a trusted key.
LEMMA CustodyVerified ==
  ASSUME NEW p, Unbroken(CustodyLinks(p))
  PROVE  LET signature == p.custody.signature
         IN  /\ signature.signing_key_id \in CustodyAnchors
             /\ signature.signature_hex # Garbled
             /\ signature.signature_hex
                  = Signature(signature.signing_key_id, CustodyMessage(p.custody))
<1> DEFINE schema == Link(p.custody.record_schema # "deedseal-supervised-run-custody/1.0",
                          "block_custody_record_schema_unsupported")
           shape == Link(\/ ~ p.custody.closed
                         \/ p.custody.signature.shape # "closed"
                         \/ p.custody.signature.signature_version # "custody/0.1",
                         "block_custody_record_malformed")
           rest == SignatureLinks(p.custody.signature, CustodyAnchors,
                     CustodyMessage(p.custody), "block_custody_record_wrong_key",
                     "block_custody_record_malformed",
                     "block_custody_record_signature_invalid")
<1>1. CustodyLinks(p) = <<schema, shape>> \o rest
  BY DEF CustodyLinks
<1>2. \E S : rest \in Seq(S)
  BY SignatureLinksAreASequence
<1>3. Unbroken(rest)
  <2> HIDE DEF schema, shape, rest
  <2> QED
    BY <1>1, <1>2, LinksAreASequence, UnbrokenParts
<1> QED
  BY <1>3, SignatureVerified

\* The closure that passed its checks is the owner's, and he is the owner who
\* signed the grant.
LEMMA ClosureVerified ==
  ASSUME NEW p, Unbroken(ClosureLinks(p))
  PROVE  LET signature == p.closure.signature
         IN  /\ signature.signing_key_id \in OwnerAnchors
             /\ signature.signature_hex # Garbled
             /\ signature.signature_hex
                  = Signature(signature.signing_key_id, ClosureMessage(p))
             /\ signature.signing_key_id = p.authorization.owner_signature.signing_key_id
<1> DEFINE present == Link(p.closure.signature.shape = "absent",
                           "block_owner_closure_signature_missing")
           known == Link(~ p.closure.closed, "block_owner_closure_unknown_field")
           shape == Link(\/ p.closure.signature.shape # "closed"
                         \/ p.closure.closure_version # "closure/0.1"
                         \/ p.closure.signature.signature_version # "closure/0.1",
                         "block_owner_closure_signature_malformed")
           middle == SignatureLinks(p.closure.signature, OwnerAnchors, ClosureMessage(p),
                       "block_owner_closure_signature_wrong_key",
                       "block_owner_closure_signature_malformed",
                       "block_owner_closure_signature_invalid")
           same == Link(p.closure.signature.signing_key_id
                          # p.authorization.owner_signature.signing_key_id,
                        "block_owner_closure_signature_wrong_key")
<1>1. ClosureLinks(p) = (<<present, known, shape>> \o middle) \o <<same>>
  BY DEF ClosureLinks
<1>2. \E S : middle \in Seq(S)
  BY SignatureLinksAreASequence
<1>3. Unbroken(middle) /\ Unbroken(<<same>>)
  <2> HIDE DEF present, known, shape, middle, same
  <2>1. \E S : <<present, known, shape>> \o middle \in Seq(S)
    BY <1>2, LinksAreASequence, ChainsAreASequence
  <2>2. Unbroken(<<present, known, shape>> \o middle) /\ Unbroken(<<same>>)
    BY <1>1, <2>1, LinksAreASequence, UnbrokenParts
  <2> QED
    BY <1>2, <2>2, LinksAreASequence, UnbrokenParts, ZenonT(40)
<1>4. ~ same.broken
  <2> HIDE DEF same
  <2> QED
    BY <1>3, UnbrokenOne
<1>5. p.closure.signature.signing_key_id = p.authorization.owner_signature.signing_key_id
  BY <1>4 DEF Link
<1> QED
  BY <1>3, <1>5, SignatureVerified

\* A signature that verified under a trusted key is one that was made.
LEMMA VerifiedWasMade ==
  ASSUME IInv, NEW hex \in Hexes(passport), NEW key \in OwnerAnchors \cup CustodyAnchors,
         NEW message, hex # Garbled, hex = Signature(key, message)
  PROVE  hex \in signed
<1>1. hex \in signed \cup {Garbled, Scrambled}
  BY DEF IInv, TypeOK, Available, Hexes
<1>2. hex # Scrambled
  <2>1. hex.by = key /\ Scrambled.by = Null
    BY DEF Signature, Scrambled
  <2> QED
    BY <2>1, PassportAssumption DEF AnchorsAssumption
<1> QED
  BY <1>1, <1>2

\* A passport passes only if its owner closed it: the closing signature that
\* verified over its members (verify_closure) is one he made over those members.
THEOREM ClosedPasses == Spec => []PassIsClosed
<1>1. IInv => PassIsClosed
  <2> SUFFICES ASSUME IInv, Passed PROVE PassIsClosed
    BY DEF PassIsClosed
  <2>1. Unbroken(ClosureLinks(passport)) /\ Unbroken(WireLinks(passport))
    BY DEF IInv, ChecksOK, Verified
  <2> DEFINE hex == passport.closure.signature.signature_hex
             key == passport.closure.signature.signing_key_id
  <2>2. key \in OwnerAnchors /\ hex # Garbled /\ hex = Signature(key, ClosureMessage(passport))
    BY <2>1, ClosureVerified
  <2>3. hex \in signed
    <3>1. hex \in Hexes(passport)
      BY DEF Hexes
    <3> HIDE DEF hex, key
    <3> QED
      BY <2>2, <3>1, VerifiedWasMade
  <2>4. hex.over.kind = "closure" /\ hex.over.passport_core = Core(passport)
    <3>1. hex.over = ClosureMessage(passport)
      <4> HIDE DEF hex, key
      <4> QED
        BY <2>2 DEF Signature
    <3> HIDE DEF hex
    <3> QED
      BY <3>1 DEF ClosureMessage
  <2>5. PICK p \in closed : /\ hex.over.passport_core = Core(p)
                            /\ p.closure.signature.signature_hex = hex
    <3> HIDE DEF hex
    <3> QED
      BY <2>3, <2>4 DEF IInv, ClosuresOK
  <2>6. passport.text = "canonical"
    <3> DEFINE spelled == Link(passport.text # "canonical",
                               "block_public_run_passport_noncanonical_serialization")
    <3>1. Unbroken(<<spelled>>)
      BY <2>1 DEF WireLinks
    <3>2. ~ spelled.broken
      <4> HIDE DEF spelled
      <4> QED
        BY <3>1, UnbrokenOne
    <3> QED
      BY <3>2 DEF Link
  <2> QED
    BY <2>4, <2>5, <2>6 DEF PassIsClosed
<1> QED
  BY Invariant, <1>1, PTL

\* The contract that held: the run succeeded, and the rules the kernel applied are
\* of the files the custody record allows.
LEMMA ContractVerified ==
  ASSUME NEW p, Unbroken(ContractLinks(p))
  PROVE  /\ p.custody.record_status = "OUTCOME_SUCCESS"
         /\ p.custody.runner_report.os_boundary.rules.paths = p.custody.allowed_files.paths
<1>1. /\ PublicationContractHolds(p.custody)
      /\ p.custody.record_status = "OUTCOME_SUCCESS"
  <2> DEFINE holds == Link(~ PublicationContractHolds(p.custody),
                           "block_custody_publication_contract_malformed")
             success == Link(p.custody.record_status # "OUTCOME_SUCCESS",
                             "block_custody_outcome_not_success")
  <2>1. PICK b, c, d : ContractLinks(p) = <<holds, b, c, d, success>>
    BY DEF ContractLinks
  <2>2. ~ holds.broken /\ ~ success.broken
    <3> HIDE DEF holds, success
    <3> QED
      BY <2>1, UnbrokenFive
  <2> QED
    BY <2>2 DEF Link
<1>2. LandlockHolds(p.custody.runner_report.os_boundary, p.custody.allowed_files)
  BY <1>1 DEF PublicationContractHolds
<1> QED
  BY <1>1, <1>2 DEF LandlockHolds

\* The bindings that held: the grant is the one the custody record is about, and
\* the head is the one the owner named.
LEMMA BindingVerified ==
  ASSUME NEW p, Unbroken(BindingLinks(p))
  PROVE  /\ p.custody.grant_sha256 = GrantDigest(p.authorization)
         /\ p.implementation_head_sha = p.authorization.head_sha
<1> DEFINE digest == Link(p.custody.grant_sha256 # GrantDigest(p.authorization),
                          "block_grant_custody_binding_mismatch")
           head == Link(\/ p.implementation_head_sha # p.authorization.head_sha
                        \/ p.authorization.head_sha # p.custody.head_sha
                        \/ p.custody.head_sha # p.custody.observed_post_head_sha
                        \/ p.implementation_head_sha \notin Commits,
                        "block_implementation_head_binding_mismatch")
<1>1. PICK b, c, e : BindingLinks(p) = <<digest, b, c, head, e>>
  BY DEF BindingLinks
<1>2. ~ digest.broken /\ ~ head.broken
  <2> HIDE DEF digest, head
  <2> QED
    BY <1>1, UnbrokenFive
<1> QED
  BY <1>2 DEF Link

\* The scope that held: the files allowed are the same in the scope, in the custody
\* record and in a grant that is fit.
LEMMA ScopeVerified ==
  ASSUME NEW p, Unbroken(ScopeLinks(p)), GrantFit(p.authorization)
  PROVE  /\ p.scope.allowed_files.paths = p.authorization.allowed_files.paths
         /\ p.custody.allowed_files.paths = p.authorization.allowed_files.paths
<1> DEFINE allowed == Link(\/ ~ IsList(p.scope.allowed_files)
                           \/ ~ IsList(p.custody.allowed_files)
                           \/ Normalized(p.scope.allowed_files)
                                # Normalized(p.authorization.allowed_files)
                           \/ Normalized(p.scope.allowed_files)
                                # Normalized(p.custody.allowed_files),
                           "block_allowed_files_binding_mismatch")
<1>1. PICK b, c : ScopeLinks(p) = <<allowed, b, c>>
  BY DEF ScopeLinks
<1>2. ~ allowed.broken
  <2> HIDE DEF allowed
  <2> QED
    BY <1>1, UnbrokenThree
<1> QED
  BY <1>2 DEF Link, Normalized, IsList, GrantFit

\* The observation that held: what changed is what was allowed, and every file of it
\* has a whole chain of digests.
LEMMA ObservationVerified ==
  ASSUME NEW p, Unbroken(ObservationLinks(p))
  PROVE  LET allowed == p.scope.allowed_files.paths
             chain == p.execution.sha256_chain
         IN  /\ p.custody.observed_post_worktree_entries.paths = allowed
             /\ p.custody.observed_changed_file_count = Cardinality(allowed)
             /\ \A f \in allowed : EntryHolds(chain[f], f \in p.scope.new_files.paths)
<1> DEFINE allowed == p.scope.allowed_files.paths
           post == p.execution.observed_post_worktree_entries
           paths == Link(\/ ~ IsList(post)
                         \/ ~ IsList(p.execution.observed_pre_worktree_entries)
                         \/ post # p.custody.observed_post_worktree_entries
                         \/ p.execution.observed_pre_worktree_entries
                              # p.custody.observed_pre_worktree_entries
                         \/ p.execution.observed_post_head_sha
                              # p.custody.observed_post_head_sha
                         \/ p.execution.observed_changed_file_count
                              # p.custody.observed_changed_file_count
                         \/ p.execution.observed_changed_file_count # Cardinality(allowed)
                         \/ post.spelling = "padded" \/ post.paths # allowed,
                         "block_observed_paths_binding_mismatch")
           chain == Link(\/ DOMAIN p.execution.sha256_chain # allowed
                         \/ \E f \in DOMAIN p.execution.sha256_chain :
                              ~ EntryHolds(p.execution.sha256_chain[f],
                                           f \in p.scope.new_files.paths),
                         "block_sha256_chain_binding_mismatch")
<1>1. ObservationLinks(p) = <<paths, chain>>
  BY DEF ObservationLinks
<1>2. ~ paths.broken /\ ~ chain.broken
  <2> HIDE DEF paths, chain
  <2> QED
    BY <1>1, UnbrokenTwo
<1> QED
  BY <1>2 DEF Link

\* The commit that held: it changes what was allowed, on top of the head, to the
\* bytes that were materialized.
LEMMA CommitVerified ==
  ASSUME NEW p, Unbroken(CommitLinks(p))
  PROVE  LET allowed == p.scope.allowed_files.paths
             binding == p.committed_binding
         IN  /\ binding.parent_sha = p.implementation_head_sha
             /\ binding.commit_sha # binding.parent_sha
             /\ binding.changed_paths.paths = allowed
             /\ \A f \in allowed : binding.committed_file_hashes[f]
                                     = p.execution.sha256_chain[f].materialized_sha256
<1> DEFINE allowed == p.scope.allowed_files.paths
           binding == p.committed_binding
           parent == Link(binding.parent_sha # p.implementation_head_sha,
                          "block_complete_cargo_changeset_binding_mismatch")
           own == Link(binding.commit_sha = binding.parent_sha,
                       "block_cargo_commit_equals_execution_head")
           changed == Link(binding.changed_paths
                             # [paths |-> allowed, spelling |-> "canonical"],
                           "block_complete_cargo_changeset_binding_mismatch")
           hashes == Link(\/ DOMAIN binding.committed_file_hashes # allowed
                          \/ \E f \in DOMAIN binding.committed_file_hashes :
                               binding.committed_file_hashes[f]
                                 # p.execution.sha256_chain[f].materialized_sha256,
                          "block_committed_hash_binding_mismatch")
<1>1. PICK a : CommitLinks(p) = <<a, parent, own, changed, hashes>>
  BY DEF CommitLinks
<1>2. ~ parent.broken /\ ~ own.broken /\ ~ changed.broken /\ ~ hashes.broken
  <2> HIDE DEF parent, own, changed, hashes
  <2> QED
    BY <1>1, UnbrokenFive
<1>3. binding.parent_sha = p.implementation_head_sha /\ binding.commit_sha # binding.parent_sha
  BY <1>2 DEF Link
<1>4. binding.changed_paths.paths = allowed
  <2>1. binding.changed_paths = [paths |-> allowed, spelling |-> "canonical"]
    BY <1>2 DEF Link
  <2> QED
    BY <2>1
<1>5. \A f \in allowed : binding.committed_file_hashes[f]
                           = p.execution.sha256_chain[f].materialized_sha256
  BY <1>2 DEF Link
<1> QED
  BY <1>3, <1>4, <1>5

\* A pass means what the verifier says it means: one owner signed the grant and the
\* whole, custody signed what it saw, and the files granted are the files written,
\* changed and committed (every verify_* function of verify_run_passport.py).
THEOREM PassMeans == Spec => []PassBinds
<1>1. IInv => PassBinds
  <2> SUFFICES ASSUME IInv, Passed PROVE PassBinds
    BY DEF PassBinds
  <2> DEFINE granted == passport.authorization.allowed_files.paths
             owner == passport.authorization.owner_signature
             chain == passport.execution.sha256_chain
  <2>1. /\ Unbroken(GrantLinks(passport)) /\ Unbroken(CustodyLinks(passport))
        /\ Unbroken(ContractLinks(passport)) /\ Unbroken(BindingLinks(passport))
        /\ Unbroken(ScopeLinks(passport)) /\ Unbroken(ObservationLinks(passport))
        /\ Unbroken(CommitLinks(passport)) /\ Unbroken(ClosureLinks(passport))
    BY DEF IInv, ChecksOK, Verified
  <2>2. shown = owner.signing_key_id /\ shown \in OwnerAnchors
        /\ GrantFit(passport.authorization)
    BY <2>1, GrantVerified DEF IInv, AnswersOK
  <2>3. Signature(shown, GrantMessage(passport.authorization)) \in signed
    <3>1. owner.signature_hex \in Hexes(passport)
      BY DEF Hexes
    <3> QED
      BY <2>1, <2>2, <3>1, GrantVerified, VerifiedWasMade
  <2>4. Signature(shown, ClosureMessage(passport)) \in signed
    <3>1. passport.closure.signature.signature_hex \in Hexes(passport)
      BY DEF Hexes
    <3> QED
      BY <2>1, <2>2, <3>1, ClosureVerified, VerifiedWasMade
  <2>5. \E key \in CustodyAnchors : Signature(key, CustodyMessage(passport.custody)) \in signed
    <3>1. passport.custody.signature.signature_hex \in Hexes(passport)
      BY DEF Hexes
    <3> QED
      BY <2>1, <3>1, CustodyVerified, VerifiedWasMade
  <2>6. /\ passport.scope.allowed_files.paths = granted
        /\ passport.custody.allowed_files.paths = granted
    BY <2>1, <2>2, ScopeVerified
  <2>7. passport.custody.runner_report.os_boundary.rules.paths = granted
    BY <2>1, <2>6, ContractVerified
  <2>8. /\ passport.custody.grant_sha256 = GrantDigest(passport.authorization)
        /\ passport.implementation_head_sha = passport.authorization.head_sha
    BY <2>1, BindingVerified
  <2>9. /\ passport.custody.observed_post_worktree_entries.paths = granted
        /\ passport.custody.observed_changed_file_count = Cardinality(granted)
        /\ \A f \in granted : EntryHolds(chain[f], f \in passport.scope.new_files.paths)
    BY <2>1, <2>6, ObservationVerified
  <2>10. /\ passport.committed_binding.changed_paths.paths = granted
         /\ passport.committed_binding.parent_sha = passport.authorization.head_sha
         /\ passport.committed_binding.commit_sha # passport.authorization.head_sha
         /\ \A f \in granted : passport.committed_binding.committed_file_hashes[f]
                                 = chain[f].materialized_sha256
    BY <2>1, <2>6, <2>8, CommitVerified
  <2>11. ASSUME NEW f \in granted
         PROVE  /\ chain[f].materialized_sha256 = chain[f].staged_sha256
                /\ chain[f].seed_sha256 # chain[f].staged_sha256
    <3>1. EntryHolds(chain[f], f \in passport.scope.new_files.paths)
      BY <2>9, <2>11
    <3> QED
      BY <3>1, PassportAssumption DEF EntryHolds, AnchorsAssumption
  <2> QED
    BY <2>2, <2>3, <2>4, <2>5, <2>7, <2>8, <2>9, <2>10, <2>11 DEF PassBinds
<1> QED
  BY Invariant, <1>1, PTL
==============================================================================
