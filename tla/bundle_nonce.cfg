SPECIFICATION Spec
CONSTANTS
  b1 = b1
  b2 = b2
  Slot = {b1}
  Passphrase <- TwoPassphrases
  MaxSeals = 1
  MaxDamage = 1
INVARIANT
  CorruptionIsAnError
CHECK_DEADLOCK FALSE
