CONSTANTS
  KeyIds = {k1, k2, k3}
  BlobId = BlobId
  Blobs = {BlobId}
  PTag = PTag
  PTimes1 = PTimes1
  PDefault = PDefault
  PEmpty = PEmpty
  PInvalid = PInvalid
  HInvalid = HInvalid
  OtherAad = OtherAad
  Tag = Tag
  OtherTag = OtherTag
  PolicyBytes = {PTag, PTimes1, PDefault, PEmpty, PInvalid, HInvalid}
  Tags = {Tag, OtherTag}
  Decode <- TestDecode
  WireMaxSeconds <- TestWireMaxSeconds
  MaxTtl = 3600
  MaxNanosCarry = 2
  NoMatcher = NoMatcher
  Unlimited = Unlimited
  BadTimestamp = BadTimestamp
  BadDuration = BadDuration
  MalformedHeader = MalformedHeader
  GarbageCiphertext = GarbageCiphertext
  NoGrant = NoGrant
  AttestationFailed = AttestationFailed

SPECIFICATION DSpec
\* A test ends after its last call: nothing is enabled then.
CHECK_DEADLOCK FALSE
INVARIANT
  TestAssertionsHold
