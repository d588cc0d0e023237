\* Calls that the object answers, with true or false.
SPECIFICATION Spec
CONSTANTS
  Hashes = {1, 2}
  Mine = {2}
  Types = {"DATA"}
  REFS = 4
  GivenRefs = {1}
  Sizes = {1}
  Ends = {"answers", "refuses"}
  Deltas <- UpDown
  Often = 2
  MaxRefs = 2
INVARIANTS ResultGrabbed
CHECK_DEADLOCK FALSE
