SPECIFICATION Spec
CONSTANTS
  WordBytes = 2
  DELTA = 40503
  Keys <- MCKeys
  Texts <- MCTexts
  KeyBytes = 2
  MaxText = 8
  MaxData = 40
  ReplyBytes = 17
  Fail = Fail
INVARIANTS TypeOK RoundTrip ReplyFits
