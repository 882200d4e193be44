SPECIFICATION Spec
CONSTANTS
  OwnerAnchors = {"owner-1", "owner-2"}
  CustodyAnchors = {"custody-1"}
  Commits = {"c0", "c1", "c2", "c3"}
  Digests = {"d0", "d1", "d2"}
  Published <- MCPublished
  Edits <- MCEdits
  Signers = {"grant", "custody", "closure"}
  MaxEdits = 2
  MaxResigned = 1
  Null = Null
  Garbled = Garbled
  SecondFile = "second-file"
  ZeroCommit = "c0"
  ZeroDigest = "d2"
  GoOwner = "owner-2"
  GoCustody = "custody-1"
INVARIANTS PassIsClosed PassBinds ReasonsAreAuthentic UnreachableStaysUnreached CorpusAgreement GoPassBinds VerifiersDiffer
