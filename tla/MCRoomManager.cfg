CONSTANTS
  Decks <- MCDecks
  Scores <- AllScores
  Plays <- MCPlays
  MaxMarks = 0
SPECIFICATION Spec
INVARIANTS
  TypeOK
  TurnOrder
  CardsInOnePlace
  StakeMatchesBids
  TrusteeMoveIsLegal
PROPERTIES
  CardsLeaveToTheTable
\* A finished room takes no more calls.
CHECK_DEADLOCK FALSE
