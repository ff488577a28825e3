\* Two threads search a group of three among four devices in every way; two
\* can be tried in turn.
CONSTANTS
  N = 4
  Members = {1, 2, 4}
  Own = 1
  MaxListed = 2
  Threads = {"a", "b"}
  Kinds = {"first", "robin"}
  Uses = {"hold", "statusex"}
SPECIFICATION FairSpec
PROPERTIES SearchEnds
INVARIANTS NoLockLeft BookedIsFit TriesAll
