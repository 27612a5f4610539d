\* Three clients, so that two can sleep while the third cancels.
SPECIFICATION Spec
CONSTANTS
  Client = {c1, c2, c3}
  Value = Value
  Unset = Unset
  MayFail = TRUE
INVARIANTS ReadyMeansValue CancelHonoured
PROPERTY WaitersReturn
