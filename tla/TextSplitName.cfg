SPECIFICATION Spec
CONSTANTS
  StopPatterns <- MCStops
  Formats <- MCFormats
  Opens <- MCOpens
  Closes <- MCCloses
  NameFragments <- MCNames
  Enabled <- MCEnabled
  Vocabularies <- MCApart
  Spaces <- MCSpaces
  Newline = "n"
  Words <- MCWords
INVARIANT SplitNameIsSeen
CHECK_DEADLOCK FALSE
