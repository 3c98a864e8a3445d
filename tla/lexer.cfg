CONSTANTS
  Letters <- MCLetters
  Digits <- MCDigits
  Texts <- MCTexts
  Beyond <- MCBeyond
  Keywords <- MCKeywords
  Hash <- MCHash
SPECIFICATION Spec
CHECK_DEADLOCK FALSE
INVARIANTS
  TokensAreTheText
  NothingGoesUnseen
PROPERTIES
  Terminates
