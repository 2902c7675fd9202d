\* A removal whose owner check has gone stale.
CONSTANTS
  ana = ana
  beto = beto
  google1 = google1
  google2 = google2
  browserA = browserA
  browserB = browserB
  slot1 = slot1
  slot2 = slot2
  Users = {ana, beto}
  Logins = {google1}
  Browsers = {browserA, browserB}
  Requests = {slot1, slot2}
  None = None
SPECIFICATION FairSpec
PROPERTY OnlyOwnerDisassociates
