SPECIFICATION Spec
CONSTANTS
  Depth = 6
  BankWords = 2
  Lanes = {word}
  Values = {x, y}
  Masks = {{}, {word}}
PROPERTIES FlatSpec
