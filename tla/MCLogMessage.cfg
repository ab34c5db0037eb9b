CONSTANTS
  Msgs = {m1, m2}
  Texts <- MCTexts
  Writes <- MCWrites
  MaxLen = 3
SPECIFICATION Spec
INVARIANT FullStringCurrent
