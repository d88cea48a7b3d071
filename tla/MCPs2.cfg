CONSTANTS
  Plain = {"a", "up"}
  Shifts = {"lshift", "rshift"}
  Mute = {"f5"}
  Extended = {"up"}
  Scrolls = {"f1"}
  Alone = {"f1"}
  Cap = 5
SPECIFICATION Spec
INVARIANTS Faithful ShiftKnown
