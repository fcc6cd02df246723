SPECIFICATION Spec
CONSTANTS
  Base = 2
  Digits = 2
  Width = 5
  MaxOperand = 3
  MaxText = 3
INVARIANTS ExactlyRounded Normalized TextRoundTrip
