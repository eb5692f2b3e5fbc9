SPECIFICATION FairSpec
CONSTANTS
  Chords = {{}, {"CROSS"}}
INVARIANTS SessionsClean SettingsStayDue
PROPERTIES HeldMasked QuitEnds PictureReturns
