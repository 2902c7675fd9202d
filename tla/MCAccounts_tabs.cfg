\* Two users with two external logins in the tabs of one browser.
CONSTANTS
  ana = ana
  beto = beto
  google1 = google1
  google2 = google2
  browserA = browserA
  browserB = browserB
  slot1 = slot1
  slot2 = slot2
  Users = {ana, beto}
  Logins = {google1, google2}
  Browsers = {browserA}
  Requests = {slot1, slot2}
  None = None
SPECIFICATION Spec
SYMMETRY Symmetry
INVARIANTS TypeOK RegistrationNeverAdopts StrandedOnlyByAccident
PROPERTY OwnRemovalKeepsCredential
