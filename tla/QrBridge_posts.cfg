\* A page and any other programs send three posts at any time of the bridge's life.
SPECIFICATION FairSpec
CONSTANTS
  Post = {k1, k2, k3}
  NoPost = NoPost
  Page = {p1}
  NoPage = NoPage
CHECK_DEADLOCK FALSE
INVARIANTS TypeOK WokenFindsAssertion OnlyWellFormedReturned MixedOnlyByTwo
PROPERTIES BridgeEnds SignedIsReturned
