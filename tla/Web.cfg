\* Two requests in flight; two that change something.
SPECIFICATION WebSpec
CONSTANTS
  Slots = {r1, r2}
  Langs = {en, de}
  Handlers <- MCHandlers
  MaxWrites = 2
SYMMETRY Symmetry
INVARIANTS
  FormsAccepted
  MessagesFit
  LanguageKept
PROPERTY WritesJustified
