\* Rules of every kind, two of which may throw.
CONSTANTS
  empty = empty
  zero = zero
  one = one
  two = two
  nan = nan
  word = word
  date = date
  Null = Null
  NoParse = NoParse
  NaN = NaN
  Zero = zero
  Properties <- MCProperties
  May <- MCMay
  Order <- MCOrder
  Length <- MCLength
  Matches <- MCMatches
  Rules <- MCRules
SPECIFICATION RulesSpec
INVARIANTS RulesTypeOK NegationsExclude
PROPERTIES ErrorsAreOfThisRun
