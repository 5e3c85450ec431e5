SPECIFICATION Spec
CONSTANTS
  Names <- MCNames
  MaxRules = 2
  Digits = {1, 5, 9}
  Lengths = {12, 13, 14, 15, 16, 19, 20}
  Values = {"card", "passport", "phone"}
  Sample <- MCSample
  Cards = {"card"}
  PhoneShaped = {"phone"}
  Scores = {39, 40, 50, 85}
  Length = 4
  HighRules <- MCHighRules
INVARIANTS AllOrNothing LuhnCountsFromTheRight StrongestWins RewrittenAsAWhole OnlyTailsSurvive
CHECK_DEADLOCK FALSE
