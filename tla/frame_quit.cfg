SPECIFICATION FairSpec
CONSTANTS
  Chords = {{}}
PROPERTIES QuitReturns
