SPECIFICATION FairSpec
CONSTANTS
  MaxVersion = 3
  RefreshTicks = 2
  Hash <- SparseHash
  JpegSize <- TightSizes
  AudioOn = TRUE
  Undecodable = {0}
  Chords <- ThumbKeys
INVARIANTS PayloadFits LockStep ForceSpent
PROPERTIES Converges RefreshRecurs MenuKeysStayLocal ImplementsExchange
