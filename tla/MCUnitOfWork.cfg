\* Two units of work on a table of at most two rows, with a content that is refused and a new entity.
CONSTANTS
  row1 = row1
  row2 = row2
  old = old
  young = young
  bad = bad
  new1 = new1
  unitA = unitA
  unitB = unitB
  Ids = {row1, row2}
  Values = {old, young, bad}
  Bad = {bad}
  Hidden = {young}
  New = {new1}
  Content <- OneYoung
  Units = {unitA, unitB}
  None = None
SPECIFICATION Spec
SYMMETRY Symmetry
CONSTRAINT FewLeftovers
INVARIANTS TypeOK OnlyFailuresLinger
PROPERTIES OnlyAskedRowsChange LostRowBlocksItsUnit WritesAreAtomic
