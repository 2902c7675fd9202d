\* Two requests, one with a timeout, and three handlers, all with liveness; the page may have done all it does.
CONSTANTS
  post = post
  poll = poll
  h1 = h1
  h2 = h2
  h3 = h3
  Requests = {post, poll}
  Handlers = {h1, h2, h3}
  Timed = {poll}
  None = None
SPECIFICATION FairSpec
INVARIANTS TypeOK ActiveCounts NobodyIsForgotten
PROPERTIES CompleteComesLast Promise TimedRequestsSettle
CHECK_DEADLOCK FALSE
