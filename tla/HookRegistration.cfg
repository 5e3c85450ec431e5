SPECIFICATION Spec
CONSTANTS
  other = other
  ours = ours
  OurEvents = {"PreToolUse"}
  Hooks = {other, ours}
  Ours = ours
  Matchers = {"theirs", "new", "ours"}
  OurMatcher = "ours"
  Added <- MCAdded
  Rests = {"granted"}
  InitialFiles <- MCInitialFiles
  MaxRuns = 3
  MaxEdits = 2
CHECK_DEADLOCK FALSE
INVARIANTS SettingsWhole
PROPERTIES OthersSurvive RegisteredOnceOrGone OverwrittenIsBackedUp
