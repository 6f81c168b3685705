CONSTANTS
  IntMax = 7
  Base = 3
  Minus = Minus
  Plus = Plus
  Blank = Blank
  Newline = Newline
  Letter = Letter
  Lines <- MCLines
  MaxLines = 3
  MaxNumbers = 3
SPECIFICATION Spec
INVARIANTS
  TypeOK
  OneNumberPerLine
PROPERTY Answered
