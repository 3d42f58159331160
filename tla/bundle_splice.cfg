SPECIFICATION Spec
CONSTANTS
  b1 = b1
  b2 = b2
  Slot = {b1, b2}
  Passphrase <- TwoPassphrases
  MaxSeals = 2
  MaxDamage = 1
INVARIANTS
  UnsealedWasSealed
  UntouchedOpens
SYMMETRY Slots
CHECK_DEADLOCK FALSE
