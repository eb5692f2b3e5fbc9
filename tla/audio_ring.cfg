SPECIFICATION FairSpec
CONSTANTS
  Rates = {"none", "22050"}
INVARIANTS WriteInBuffer ReadInBuffer PlayerInSession
PROPERTIES TermEnds
