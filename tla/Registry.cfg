SPECIFICATION Spec
CONSTANTS
  d1 = d1
  Accounts = {a1}
  DeadAdmin = DeadAdmin
  Unset = Unset
  Domains = {d1}
  Versions = {1, 2}
  Heights <- MCHeights
  Roots <- MCRoots
  ZeroRoot = "zero"
  PubKeys = {"k1"}
  OtherKeys = {"k2"}
  VerifyingKeys <- MCKeys
  None = None
  Evidences <- MCEvidence
  Proofs <- MCProofs
  Quorums = {0, 1}
CHECK_DEADLOCK FALSE
INVARIANTS AnchorAgrees EventRootsSigned UnadmittedIsSilent TrailCoversAccepted
PROPERTIES FrozenAfterRenounce OneEvidenceOneEffect
