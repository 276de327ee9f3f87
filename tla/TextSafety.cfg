SPECIFICATION Spec
CONSTANTS
  StopPatterns <- MCStops
  Formats <- MCFormats
  Opens <- MCOpens
  Closes <- MCCloses
  NameFragments <- MCNames
  Enabled <- MCEnabled
  Vocabularies <- MCVocabularies
  Spaces <- MCSpaces
  Newline = "n"
  Words <- MCWords
INVARIANTS CutsDoNotMatter NothingLost
CHECK_DEADLOCK FALSE
