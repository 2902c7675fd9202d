\* A range of texts.
CONSTANTS
  empty = empty
  zero = zero
  one = one
  two = two
  nan = nan
  word = word
  date = date
  Null = Null
  NoParse = NoParse
  NaN = NaN
  Zero = zero
  Properties <- MCProperties
  May <- MCMay
  Order <- MCOrder
  Length <- MCLength
  Matches <- MCMatches
  Rules <- RangeRules
SPECIFICATION RulesSpec
INVARIANTS RangeMeansBetween
