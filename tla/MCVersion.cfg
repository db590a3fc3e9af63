\* Violated: a rejected first action deals the cards under the old version.
CONSTANTS
  Decks <- SingleDecks
  Scores = {0, 2, 4}
  Plays <- SinglePlays
  MaxMarks = 0
SPECIFICATION Spec
PROPERTIES
  VersionCoversChanges
CHECK_DEADLOCK FALSE
