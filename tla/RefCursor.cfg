SPECIFICATION Spec
CONSTANTS
  Kinds = {"commit", "amend", "reset"}
  Subjects = {m1, m2}
  NoSubject = NoSubject
  None = None
  Pending = Pending
  Gaps = {0, 2}
  MaxCommands = 2
  MaxLag = 2
  MaxUntraced = 1
  MaxExpiries = 1
SYMMETRY Sym
INVARIANTS
  TypeOK
PROPERTIES
  TimelyOwnsItsEntry
  LateOwnsItsEntry
CHECK_DEADLOCK FALSE
