\* Two tabs and two POSTs on one row that may be deleted or missing; every field is edited, with liveness.
CONSTANTS
  route1 = route1
  tabA = tabA
  tabB = tabB
  postA = postA
  postB = postB
  Routes = {route1}
  Tabs = {tabA, tabB}
  Posts = {postA, postB}
  Names <- MCNames
  TypedNames = {Blank}
  TypedDistances = {2}
  TypedDays = {NoDate}
  TypedTicks = {TRUE}
  Days = {1}
  Users <- MCUsers
  MaxDistance = 3
  SeedRows <- OneRow
  None = None
  Blank = Blank
  NoDate = NoDate
SPECIFICATION FairSpec
INVARIANTS TypeOK RowIsOneForm AnsweredEditNeverResurfaces
PROPERTIES UntouchedFormIsHarmless EverySubmitSettles
