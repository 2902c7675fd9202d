\* Two domains, three requests; liveness too, so without symmetry.
CONSTANTS
  domA = domA
  domB = domB
  req1 = req1
  req2 = req2
  req3 = req3
  Domains = {domA, domB}
  Requests = {req1, req2, req3}
  None = None
SPECIFICATION FairSpec
INVARIANTS TypeOK InitializedOnce ReadyIsSeeded AdminHasPassword
PROPERTIES BrokenTillRecycled EveryRequestIsAnswered
