SPECIFICATION Spec
CONSTANTS
  Base = 2
  Usize = 16
  Sizes <- TwoSizes
  MaxLength = 11
INVARIANTS
  TypeOK
  RoundTrip
  DecodeIsInverse
  OnlyHugePrefixesPanic
CHECK_DEADLOCK FALSE
