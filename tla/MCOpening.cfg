\* Violated: in WaitStart there is no automatic move.
CONSTANTS
  Decks <- SingleDecks
  Scores = {0, 2, 4}
  Plays <- SinglePlays
  MaxMarks = 1
SPECIFICATION Spec
INVARIANTS
  TrusteeInTurnHasAMove
CHECK_DEADLOCK FALSE
