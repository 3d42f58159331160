SPECIFICATION Spec
CONSTANTS
  b1 = b1
  b2 = b2
  Slot = {b1}
  Passphrase <- TwoPassphrases
  MaxSeals = 1
  MaxDamage = 3
INVARIANTS
  TypeOK
  UnsealedWasSealed
  InspectAgrees
CHECK_DEADLOCK FALSE
