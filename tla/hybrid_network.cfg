SPECIFICATION Spec
CONSTANTS
  alice = alice
  carol = carol
  Holder = {alice, carol}
  Level <- TwoLevels
  MaxDraws = 4
  MaxChanges = 1
  MaxAnswers = 2
INVARIANTS
  TypeOK
  AgreementIsExact
  RefusedForItsLength
PROPERTY
  ExchangeImplementsService
SYMMETRY Holders
CHECK_DEADLOCK FALSE
