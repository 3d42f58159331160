SPECIFICATION Spec
CONSTANTS
  s1 = s1
  s2 = s2
  hello = hello
  edited = edited
  Shell = {s1, s2}
  Path <- ExchangePaths
  MsgPath = {}
  PubPath <- ExchangePub
  Message = {hello}
  Passphrase <- OnePassphrase
  Command <- ExchangeCommands
  MaxCommands = 4
  MayFail = TRUE
INVARIANTS
  TypeOK
  PublishedIsStored
  SettledOutputsMatch
  OutputsInv
  ExchangeAgrees
PROPERTY
  ImplementsService
SYMMETRY Shells
CHECK_DEADLOCK FALSE
