\* Three marks: enough to make every player a trustee.
CONSTANTS
  Decks <- SingleDecks
  Scores = {3}
  Plays <- SinglePlays
  MaxMarks = 3
SPECIFICATION FairSpec
PROPERTIES
  VersionCoversGame
  ImplementsGame
  TrusteesFinishTheGame
\* A finished room takes no more calls.
CHECK_DEADLOCK FALSE
