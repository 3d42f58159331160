SPECIFICATION Spec
CONSTANTS
  s1 = s1
  s2 = s2
  hello = hello
  edited = edited
  Shell = {s1, s2}
  Path <- SignPaths
  MsgPath <- DocumentPath
  PubPath <- SignPub
  Message = {hello}
  Passphrase <- OnePassphrase
  Command <- SignCommands
  MaxCommands = 3
  MayFail = TRUE
INVARIANTS
  InvalidMeansModifiedOrWrongKey
CHECK_DEADLOCK FALSE
