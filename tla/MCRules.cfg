\* Two runs of five meet the limit at the ace (10..14 but not 11..15) and the
\* jokers are there; ten cards reach every type, planes with wings included.
CONSTANTS
  CheckedRanks = {10, 11, 12, 13, 14, 15, 16, 17}
  MaxCards = 10
SPECIFICATION Spec
INVARIANTS
  AnalyzeNamesTheCombination
  TrickOnlyRises
\* Plays and tricks come to an end.
CHECK_DEADLOCK FALSE
