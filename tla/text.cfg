SPECIFICATION Spec
CHECK_DEADLOCK FALSE
CONSTANTS
  LowerOf <- Letters
  Digits <- TheDigits
  Keywords <- TheKeywords
  Names <- TheNames
  DecimalOf <- Decimals
  Pieces <- ThePieces
  Parts <- TheParts
  MaxOperands = 2
  MaxPieces = 3
INVARIANTS
  NamesAreSound
  PrintsAreSound
  TemplateIsFilled
  HaltsForAReason
