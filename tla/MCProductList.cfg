\* One page, four calls, overlapping.
CONSTANTS
  tele = tele
  radio = radio
  mouse = mouse
  pageA = pageA
  pageB = pageB
  call1 = call1
  call2 = call2
  call3 = call3
  call4 = call4
  Ids = {radio, mouse}
  Seeded = {}
  Pages = {pageA}
  Calls = {call1, call2, call3, call4}
  None = None
SPECIFICATION Spec
SYMMETRY Symmetry
INVARIANTS TypeOK QuietPageShowsIndex LastWordCounts
