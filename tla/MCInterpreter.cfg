SPECIFICATION Spec
CONSTANTS
  Commands <- MCCommands
  MaxCommands = 3
  MaxLines = 2
  Versions <- MCVersions
INVARIANT ResultIsInScope
INVARIANT WholeWhenDone
INVARIANT SelfCheckTells
