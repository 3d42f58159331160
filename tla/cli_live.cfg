SPECIFICATION FairSpec
CONSTANTS
  s1 = s1
  s2 = s2
  hello = hello
  edited = edited
  Shell = {s1, s2}
  Path <- SignPaths
  MsgPath <- DocumentPath
  PubPath <- SignPub
  Message = {hello}
  Passphrase <- OnePassphrase
  Command <- MixedCommands
  MaxCommands = 3
  MayFail = TRUE
PROPERTY
  OutputsComplete
CHECK_DEADLOCK FALSE
