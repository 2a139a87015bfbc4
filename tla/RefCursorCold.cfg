SPECIFICATION Spec
CONSTANTS
  Kinds = {"commit", "amend", "reset"}
  Subjects = {m1, m2}
  NoSubject = NoSubject
  None = None
  Pending = Pending
  Gaps = {0, 2}
  MaxCommands = 1
  MaxLag = 1
  MaxUntraced = 1
  MaxExpiries = 0
SYMMETRY Sym
PROPERTIES
  ColdFailsClosed
CHECK_DEADLOCK FALSE
