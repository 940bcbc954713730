\* Files of up to ten bytes in chunks of three, with a tag of two, and every failure.
CONSTANTS
  chunkPlainSize = 3
  gcmTagSize = 2
  noncePrefixLen = 2
  Counters = 4
  Sizes = {0, 1, 2, 3, 4, 5, 6, 7, 8, 9, 10}
  Fails = {"source", "upload", "download", "url", "model"}

SPECIFICATION StreamSpec
CHECK_DEADLOCK FALSE
INVARIANTS
  StreamTypeOK
  StoredSize
  NonceUsedOnce
  NothingTruncated
PROPERTIES
  GoroutinesEnd
