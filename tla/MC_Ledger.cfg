CONSTANTS
  KeyIds = {k1, k2}
  Blobs = {b1}
  PolicyBytes = {p1, p2, p3}
  p1 = p1
  p2 = p2
  p3 = p3
  Tags <- MC_Tags
  Decode <- MC_Decode
  WireMaxSeconds = 2
  MaxTtl = 1
  MaxNanosCarry = 0
  NoMatcher = NoMatcher
  Unlimited = Unlimited
  BadTimestamp = BadTimestamp
  BadDuration = BadDuration
  MalformedHeader = MalformedHeader
  GarbageCiphertext = GarbageCiphertext
  NoGrant = NoGrant
  AttestationFailed = AttestationFailed

SPECIFICATION Spec
CONSTRAINT StateBound
SYMMETRY Symmetry
INVARIANTS
  TypeOK
  PolicyEnforcedIsOwners
  NoGrantAfterRevocation
  NoGrantFromExpiredKey
  BudgetRespected
PROPERTIES
  FailedAuthorizeKeepsBudget
