\* Liveness: transactions of one user that wait for each other.
CONSTANTS
  ana = ana
  beto = beto
  google1 = google1
  google2 = google2
  browserA = browserA
  browserB = browserB
  slot1 = slot1
  slot2 = slot2
  Users = {ana}
  Logins = {google1, google2}
  Browsers = {browserA}
  Requests = {slot1, slot2}
  None = None
SPECIFICATION FairSpec
PROPERTY EveryRequestEnds
