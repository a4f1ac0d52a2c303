\* Two sessions, two files, two key pairs and two that can be generated.
CONSTANTS
  File = {1, 2}
  Param = {"user", "password"}
  Value = {"", "a"}
  Blank = ""
  NoParam = NoParam
  Absent = Absent
  Broken = Broken
  Key = {"john", "mary", g1, g2}
  Known <- MCKnown
  KeyFileOf <- MCKeyFileOf
  Session = {s1, s2}
  Contents <- MCContents
  Typed <- MCTyped
  MaxCommands = 2
  MaxKeyChanges = 1
SYMMETRY Interchangeable
SPECIFICATION Spec
INVARIANTS
  TypeOK
  ClearTextAccountedFor
PROPERTIES
  EditsAreTransactions
  ReEncryptedForAll
  NobodyShutOut
CHECK_DEADLOCK FALSE
