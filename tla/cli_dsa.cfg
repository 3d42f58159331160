SPECIFICATION Spec
CONSTANTS
  s1 = s1
  s2 = s2
  hello = hello
  edited = edited
  Shell = {s1, s2}
  Path <- SignPaths
  MsgPath <- DocumentPath
  PubPath <- SignPub
  Message = {hello, edited}
  Passphrase <- OnePassphrase
  Command <- SignCommands
  MaxCommands = 4
  MayFail = TRUE
INVARIANTS
  ValidMeansSigned
  SafetyInv
PROPERTY
  ImplementsService
SYMMETRY Shells
CHECK_DEADLOCK FALSE
