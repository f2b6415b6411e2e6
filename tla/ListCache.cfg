CONSTANTS
  Writer = {w1, w2}
  Reader = {r1, r2}
  MaxCommits = 2
  NoVersion = NoVersion
SPECIFICATION FairSpec
INVARIANTS ResponseFresh CacheFresh IndInv
PROPERTIES EventuallyListed
