SPECIFICATION FairSpec
CONSTANTS
  Routes <- MCRoutes
  Columns <- MCColumns
  Missing <- MCMissing
  First = "Name"
  Key <- MCKey
  Texts <- MCTexts
  Empty = ""
  Matches <- MCMatches
  Lengths <- MCLengths
  MaxDraws = 3
  None = None
INVARIANTS TypeOK QuietGridAnswersControls
PROPERTIES EveryDrawSettles
