\* Up to two edits of seven sources; hunks with one line of context.
CONSTANTS
  Symbols <- MCSymbols
  Contents <- MCContents
  OldTexts <- MCOldTexts
  NewTexts <- MCNewTexts
  MaxEdits = 2
  Context = 1
  MaximumChangedLines = 4
SPECIFICATION Spec
INVARIANTS
  EditsAreExact
  ValidPatchIsIntended
  EditsSurvive
