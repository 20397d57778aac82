SPECIFICATION Spec
CONSTANTS
  Requests = {r1, r2}
  Browsers = {b1, b2}
  NoBrowser = NoBrowser
  MaxTokens = 4
SYMMETRY Symmetry
INVARIANTS
  SignedOutStaysOut
  BrowsersStaySignedIn
PROPERTIES
  KeepsTable
